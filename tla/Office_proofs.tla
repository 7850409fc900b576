----------------------------- MODULE Office_proofs -----------------------------
(***************************************************************************)
(* Theorems about the errands of Office: Duo's configuration, for any      *)
(* number of operators; the links a person is mailed, for any limits and   *)
(* any number of requests; the archive, for any number of deals and people.*)
(***************************************************************************)
EXTENDS Office, FiniteSetTheorems, SequenceTheorems, TLAPS

officeVars == <<errand, vars, mailVars, exportVars>>

-----------------------------------------------------------------------------
(* Duo's configuration.                                                     *)

(* check only asks Duo about a configuration it has read.                    *)
ChecksARow == \A o \in Operators : op[o].pc = "health" => op[o].conf \in Confs

(* A check that is about to stamp has been answered for what it read.          *)
StampBehind == \A o \in Operators : op[o].pc = "stamp" => op[o].conf \in proven

(* What is marked, and what is on or being turned on, was checked itself or      *)
(* slipped past: NeverEnabledUnchecked is not inductive without the steps        *)
(* before the last.                                                          *)
ProofBehind == verified \/ TurnedOn => slipped \/ conf \in proven

DuoInv == TypeOK /\ ChecksARow /\ StampBehind /\ ProofBehind

-----------------------------------------------------------------------------
(* Links by mail.                                                           *)

AskPcs == {"new", "policy", "count", "insert", "send", "done"}
Windows == Range(Limiters) \X Addresses \X Nat

Bucket == [count : Nat, resetAt : Nat]
Ask == [pc : AskPcs, seen : Nat]
Link == [at : Nat, overtaken : BOOLEAN]
Admission == [address : Addresses, at : Nat]

MailTypeOK ==
    /\ clock \in Nat /\ lastSweep \in Nat /\ inbox \in Nat
    /\ buckets \in [Keys -> Bucket]
    /\ ask \in [Asks -> Ask]
    /\ links \in Seq(Link)
    /\ admitted \in Seq(Admission)
    /\ refusals \subseteq Windows
    /\ events \in Seq(Windows)

Sending == {r \in Asks : ask[r].pc = "send"}

(* A request whose count nobody's insert has overtaken still has room: time     *)
(* only takes links out of the hour.                                         *)
RoomIsKept ==
    \A r \in Asks : ask[r].pc = "insert" =>
      /\ ask[r].seen <= Len(links)
      /\ ask[r].seen = Len(links) => Cardinality(Recent) < PerHour

LinksInv ==
    /\ IsFiniteSet(Sending) /\ Cardinality(Sending) + inbox <= Len(links)
    /\ RoomIsKept
    /\ LinksAreBounded

(* Requests of an address let through in lo .. hi - 1.                         *)
Got(through, address, lo, hi) ==
    {i \in DOMAIN through : /\ through[i].address = address
                            /\ lo <= through[i].at /\ through[i].at < hi}

(* A window that runs has counted all it let through, and the window's length   *)
(* before it saw no more than one allowance; so did, once it has ended or been  *)
(* swept, the last window's length.                                          *)
Fits(b, through, now, address, limit) ==
    /\ b.resetAt <= now + Window
    /\ b.resetAt > now =>
         LET running == Cardinality(Got(through, address, b.resetAt - Window, now + 1)) IN
         /\ running <= b.count /\ running <= limit
         /\ Cardinality(Got(through, address, b.resetAt - 2 * Window + 1, b.resetAt - Window))
              <= limit
    /\ b.resetAt <= now =>
         /\ Got(through, address, now, now + 1) = {}
         /\ Cardinality(Got(through, address, now - Window + 1, now + 1)) <= limit

Tallied ==
    /\ \A i \in DOMAIN admitted : admitted[i].at <= clock
    /\ \A name \in Range(Limiters), address \in Addresses :
         Fits(buckets[<<name, address>>], admitted, clock, address, RateLimit[name])

(* The windows that refuse now are those whose count is past the limit.        *)
Reported ==
    /\ \A w \in refusals : w[3] > clock =>
         LET b == buckets[<<w[1], w[2]>>] IN b.resetAt = w[3] /\ b.count > RateLimit[w[1]]
    /\ \A name \in Range(Limiters), address \in Addresses :
         LET b == buckets[<<name, address>>] IN
         b.resetAt > clock /\ b.count > RateLimit[name]
           => <<name, address, b.resetAt>> \in refusals
    /\ RefusalsAreReportedOnce

MailInv == MailTypeOK /\ LinksInv /\ Tallied /\ Reported

-----------------------------------------------------------------------------
(* The archive.                                                             *)

ExportPcs == {"idle", "declare", "stream", "done"}
KeyStates == {"unasked", "here", "destroyed", "unavailable"}
Reasons == {"none", "key_destroyed", "key_unavailable", "decrypt_failed"}
StoredRow == [author : People \cup {"nobody"}, sealed : BOOLEAN, deleted : BOOLEAN]
DealRow == [id : DealIds, author : People, sealed : BOOLEAN]
SentRow == [id : DealIds, author : People, payloadError : Reasons]
Reading == [pc : ExportPcs, section : 1..3, key : KeyStates, deals : Seq(DealRow),
            users : SUBSET People, log : SUBSET (DealIds \cup {Exported})]
Archived == [deals : Seq(SentRow), users : SUBSET People,
             log : SUBSET (DealIds \cup {Exported}), complete : BOOLEAN]

ExportTypeOK ==
    /\ erased \in BOOLEAN /\ exposed \in BOOLEAN
    /\ deals \in [DealIds -> StoredRow]
    /\ users \subseteq People
    /\ log \subseteq DealIds \cup {Exported}
    /\ export \in Reading
    /\ archive \in Archived

InOrder(s) == \A i, j \in DOMAIN s : i < j => s[i].id < s[j].id

(* Each row has its entry in the trail, and its author among the users.        *)
RowsStand ==
    \A d \in Present(deals) : d \in log /\ deals[d].author \in users

(* What the cursors hold was read in an order that keeps it together: deals      *)
(* before users before the trail, and the record of the export before all.    *)
CursorsAgree ==
    /\ export.pc = "idle" => export = NotStarted
    /\ export.pc # "idle" => Exported \in log
    /\ export.pc = "declare" /\ export.section = 1 => export.deals = <<>>
    /\ \A i \in DOMAIN export.deals :
         LET d == export.deals[i] IN
         /\ d.id \in log
         /\ export.pc = "declare" /\ export.section = 2 => d.author \in users \/ erased
         /\ export.pc = "declare" /\ export.section = 3 => d.author \in export.users \/ erased
         /\ export.pc = "stream" => d.author \in export.users \/ erased
         /\ export.pc = "stream" => d.id \in export.log
    /\ export.pc = "stream" => Exported \in export.log

(* What has been sent is the first part of what the cursors held.              *)
SentInOrder ==
    /\ export.pc \in {"idle", "declare"} => archive.deals = <<>>
    /\ InOrder(archive.deals) /\ InOrder(export.deals)
    /\ \A i \in DOMAIN archive.deals, j \in DOMAIN export.deals :
         archive.deals[i].id < export.deals[j].id
    /\ \A i \in DOMAIN archive.deals :
         LET d == archive.deals[i] IN
         /\ Excused(d)
         /\ d.id \in export.log
         /\ d.author \in export.users \/ erased
    /\ export.key = "destroyed" => erased
    /\ export.pc = "stream" /\ export.section = 3 => archive.users = export.users
    /\ archive.complete => /\ export.pc = "done" /\ Exported \in export.log
                           /\ archive.users = export.users /\ archive.log = export.log

ExportInv == ExportTypeOK /\ RowsStand /\ CursorsAgree /\ SentInOrder /\ DisclosureIsRecorded

-----------------------------------------------------------------------------
(* However the commands of any number of operators interleave, the              *)
(* configuration Duo runs on in front of a firm's users has itself passed a      *)
(* check, unless it was set under an enabled integration or marked by the check  *)
(* of another (admin/duo.js).                                                 *)
THEOREM EnabledWasChecked == OfficeSpec => []NeverEnabledUnchecked
<1>1. OfficeInit => DuoInv
  <2> SUFFICES ASSUME OfficeInit PROVE DuoInv
    OBVIOUS
  <2>1. IdleOp \in Op /\ IdleOp.pc = "idle"
    BY DEF IdleOp, Op
  <2>2. TypeOK
    BY <2>1 DEF OfficeInit, Init, TypeOK
  <2>3. ChecksARow /\ StampBehind /\ ProofBehind
    BY <2>1 DEF OfficeInit, Init, ChecksARow, StampBehind, ProofBehind, TurnedOn
  <2> QED
    BY <2>2, <2>3 DEF DuoInv
<1>2. DuoInv /\ [OfficeNext]_officeVars => DuoInv'
  <2> SUFFICES ASSUME DuoInv, [OfficeNext]_officeVars PROVE DuoInv'
    OBVIOUS
  <2> USE DEF DuoInv, rowVars
  <2>a. IdleOp \in Op /\ IdleOp.pc = "idle"
    BY DEF IdleOp, Op
  <2>b. op \in [Operators -> Op]
    BY DEF TypeOK
  <2>1. ASSUME NEW o \in Operators, NEW c \in Confs, Set(o, c) PROVE DuoInv'
    BY <2>1 DEF Set, TypeOK, ChecksARow, StampBehind, ProofBehind, TurnedOn
  <2>2. ASSUME NEW o \in Operators, CheckRead(o) PROVE DuoInv'
    <3> DEFINE n == [pc |-> "health", conf |-> conf]
    <3>1. n \in Op /\ n.pc = "health" /\ n.conf \in Confs
      BY <2>2 DEF CheckRead, Op, TypeOK
    <3>2. op' = [op EXCEPT ![o] = n] /\ UNCHANGED <<rowVars, proven, slipped>>
      BY <2>2 DEF CheckRead
    <3> HIDE DEF n
    <3> QED
      BY <2>b, <3>1, <3>2 DEF TypeOK, ChecksARow, StampBehind, ProofBehind, TurnedOn
  <2>3. ASSUME NEW o \in Operators, CheckHealth(o) PROVE DuoInv'
    <3>1. CASE Finish(o) /\ UNCHANGED proven
      BY <2>3, <2>a, <2>b, <3>1
         DEF CheckHealth, Finish, TypeOK, ChecksARow, StampBehind, ProofBehind, TurnedOn
    <3>2. CASE /\ op' = [op EXCEPT ![o].pc = "stamp"]
               /\ proven' = proven \cup {op[o].conf}
      <4> DEFINE n == [op[o] EXCEPT !.pc = "stamp"]
      <4>1. op' = [op EXCEPT ![o] = n] /\ UNCHANGED <<rowVars, slipped>>
        BY <2>3, <3>2 DEF CheckHealth
      <4>2. n \in Op /\ n.pc = "stamp" /\ n.conf = op[o].conf
        BY <2>b DEF Op
      <4>3. op[o].conf \in Confs
        BY <2>3 DEF CheckHealth, ChecksARow
      <4> HIDE DEF n
      <4> QED
        BY <2>b, <3>2, <4>1, <4>2, <4>3
           DEF TypeOK, ChecksARow, StampBehind, ProofBehind, TurnedOn
    <3> QED
      BY <2>3, <3>1, <3>2 DEF CheckHealth
  \* The mark goes to what was answered for, or to what has slipped in.
  <2>4. ASSUME NEW o \in Operators, CheckStamp(o) PROVE DuoInv'
    <3>1. op[o].conf \in proven
      BY <2>4 DEF CheckStamp, StampBehind
    <3>2. slipped' \/ conf' \in proven'
      BY <2>4, <3>1 DEF CheckStamp
    <3>3. TypeOK' /\ ChecksARow' /\ StampBehind'
      BY <2>4, <2>a, <2>b DEF CheckStamp, Finish, TypeOK, ChecksARow, StampBehind
    <3> QED
      BY <3>2, <3>3 DEF ProofBehind
  <2>5. ASSUME NEW o \in Operators, EnableRead(o) PROVE DuoInv'
    <3> DEFINE n == [op[o] EXCEPT !.pc = "turnOn"]
    <3>1. op' = [op EXCEPT ![o] = n] /\ UNCHANGED <<rowVars, proven, slipped>> /\ verified
      BY <2>5 DEF EnableRead
    <3>2. n \in Op /\ n.pc = "turnOn"
      BY <2>b DEF Op
    <3> HIDE DEF n
    <3> QED
      BY <2>b, <3>1, <3>2 DEF TypeOK, ChecksARow, StampBehind, ProofBehind
  <2>6. ASSUME NEW o \in Operators, EnableWrite(o) PROVE DuoInv'
    <3>1. slipped \/ conf \in proven
      BY <2>6 DEF EnableWrite, ProofBehind, TurnedOn
    <3> QED
      BY <2>6, <2>a, <2>b, <3>1 DEF EnableWrite, Finish, TypeOK, ChecksARow, StampBehind, ProofBehind
  <2>7. ASSUME NEW o \in Operators, Disable(o) PROVE DuoInv'
    BY <2>7 DEF Disable, TypeOK, ChecksARow, StampBehind, ProofBehind, TurnedOn
  <2>8. ASSUME NEW o \in Operators, NEW m \in {"closed", "open"}, Failmode(o, m)
        PROVE  DuoInv'
    BY <2>8 DEF Failmode, TypeOK, ChecksARow, StampBehind, ProofBehind, TurnedOn
  <2>9. CASE UNCHANGED vars
    BY <2>9 DEF vars, TypeOK, ChecksARow, StampBehind, ProofBehind, TurnedOn
  <2> QED
    BY <2>1, <2>2, <2>3, <2>4, <2>5, <2>6, <2>7, <2>8, <2>9
       DEF OfficeNext, officeVars, Administer, AskForLinks, AskForArchive, Next
<1>3. DuoInv => NeverEnabledUnchecked
  BY DEF DuoInv, ProofBehind, TurnedOn, NeverEnabledUnchecked
<1> QED
  BY <1>1, <1>2, <1>3, PTL DEF OfficeSpec, officeVars

-----------------------------------------------------------------------------
(* Counting.                                                                *)

(* In a finite set of numbers each place below its size is somebody's, places  *)
(* are in order, and there is a least number.                                *)
LEMMA Places ==
    ASSUME NEW T, T \subseteq Int, IsFiniteSet(T)
    PROVE  /\ \A i \in 1..Cardinality(T) :
                \E x \in T : Cardinality({y \in T : y < x}) = i - 1
           /\ \A x, z \in T :
                Cardinality({y \in T : y < x}) < Cardinality({y \in T : y < z}) => x < z
           /\ T # {} => \E x \in T : \A y \in T : x <= y
<1> DEFINE Below(x) == {y \in T : y < x}
           m == Cardinality(T)
           M == 0 .. (m - 1)
           rank == [x \in T |-> Cardinality(Below(x))]
<1>1. m \in Nat
  BY FS_CardinalityType
<1>2. \A x \in T : IsFiniteSet(Below(x)) /\ Cardinality(Below(x)) \in Nat
  BY FS_Subset, FS_CardinalityType
<1>3. ASSUME NEW x \in T, NEW z \in T, x <= z
      PROVE  Cardinality(Below(x)) <= Cardinality(Below(z))
  <2>1. \A y \in T : y < x => y < z
    BY <1>3
  <2>2. Below(x) \in SUBSET Below(z)
    BY <2>1
  <2> HIDE DEF Below
  <2> QED
    BY <1>2, <2>2, FS_Subset
<1>4. ASSUME NEW x \in T, NEW z \in T, x < z
      PROVE  Cardinality(Below(x)) < Cardinality(Below(z))
  <2>0. (\A y \in T : y < x => y < z) /\ ~(x < x)
    BY <1>4
  <2>1. Below(x) \in SUBSET Below(z) /\ x \in Below(z) /\ x \notin Below(x)
    BY <1>4, <2>0
  <2> HIDE DEF Below
  <2>2. /\ Cardinality(Below(x)) <= Cardinality(Below(z))
        /\ Cardinality(Below(z)) = Cardinality(Below(x)) => Below(z) = Below(x)
    BY <1>2, <2>1, FS_Subset
  <2> QED
    BY <1>2, <2>1, <2>2
<1>5. ASSUME NEW x \in T PROVE Cardinality(Below(x)) < m
  <2>1. Below(x) \in SUBSET T /\ x \notin Below(x)
    OBVIOUS
  <2> HIDE DEF Below
  <2>2. Cardinality(Below(x)) <= m /\ (m = Cardinality(Below(x)) => T = Below(x))
    BY <2>1, FS_Subset
  <2> QED
    BY <1>1, <1>2, <2>1, <2>2
<1>6. ASSUME T # {} PROVE rank \in Surjection(T, M)
  <2> HIDE DEF Below
  <2>1. m > 0
    BY <1>6, <1>1, FS_EmptySet
  <2>2. rank \in [T -> M]
    BY <1>1, <1>2, <1>5
  <2>3. ASSUME NEW x \in T, NEW z \in T, x # z PROVE rank[x] # rank[z]
    <3>1. x < z \/ z < x
      BY <2>3
    <3> QED
      BY <3>1, <1>2, <1>4
  <2>4. rank \in Injection(T, M)
    BY <2>2, <2>3 DEF Injection, IsInjective
  <2>5. IsFiniteSet(M) /\ Cardinality(M) = m
    <3>1. 0 \in Int /\ m - 1 \in Int /\ ~(0 > m - 1)
      BY <1>1, <2>1
    <3>2. IsFiniteSet(0 .. (m - 1)) /\ Cardinality(0 .. (m - 1)) = (m - 1) - 0 + 1
      BY <3>1, FS_Interval
    <3> QED
      BY <1>1, <3>2
  <2> HIDE DEF rank
  <2> QED
    BY <2>4, <2>5, FS_Injection
<1>7. ASSUME NEW i \in 1..m PROVE \E x \in T : Cardinality(Below(x)) = i - 1
  <2> HIDE DEF Below
  <2>1. T # {}
    BY <1>1, <1>7, FS_EmptySet
  <2>2. i - 1 \in M
    BY <1>1
  <2>3. PICK x \in T : rank[x] = i - 1
    BY <1>6, <2>1, <2>2 DEF Surjection
  <2> QED
    BY <2>3
<1>8. ASSUME NEW x \in T, NEW z \in T, Cardinality(Below(x)) < Cardinality(Below(z))
      PROVE  x < z
  <2> HIDE DEF Below
  <2>1. ~(z <= x)
    BY <1>8, <1>2, <1>3
  <2> QED
    BY <2>1
<1>9. ASSUME T # {} PROVE \E x \in T : \A y \in T : x <= y
  <2>1. m > 0
    BY <1>9, <1>1, FS_EmptySet
  <2>2. PICK x \in T : Cardinality(Below(x)) = 1 - 1
    <3> HIDE DEF Below
    <3> QED
      BY <1>1, <1>7, <2>1
  <2>3. Below(x) = {}
    <3> HIDE DEF Below
    <3> QED
      BY <1>2, <2>2, FS_EmptySet
  <2> QED
    BY <2>3
<1> QED
  BY <1>7, <1>8, <1>9

(* Places of a sequence can be counted, and fewer of them are fewer.           *)
LEMMA Positions ==
    ASSUME NEW n \in Nat, NEW S \in SUBSET (1..n), NEW U \in SUBSET S
    PROVE  /\ IsFiniteSet(S) /\ Cardinality(S) \in Nat /\ Cardinality(U) \in Nat
           /\ Cardinality(U) <= Cardinality(S)
<1>1. IsFiniteSet(1..n)
  BY FS_Interval
<1>2. IsFiniteSet(S)
  BY <1>1, FS_Subset
<1>3. IsFiniteSet(U) /\ Cardinality(U) <= Cardinality(S)
  BY <1>2, FS_Subset
<1> QED
  BY <1>2, <1>3, FS_CardinalityType

-----------------------------------------------------------------------------
(* What one arrival does to the windows.                                     *)

LEMMA Arrival ==
    ASSUME MailTypeOK, NEW r \in Asks, NEW address \in Addresses, Arrive(r, address)
    PROVE  /\ Swept \in [Keys -> Bucket]
           /\ \A k \in Keys : \/ Swept[k] = buckets[k]
                              \/ buckets[k].resetAt <= clock /\ Swept[k] = NoBucket
           /\ buckets' \in [Keys -> Bucket]
           /\ \A k \in Keys : buckets'[k] \in {Swept[k], Counted(Swept[k])}
           /\ \/ /\ Goto(r, "policy")
                 /\ admitted' = Append(admitted, [address |-> address, at |-> clock])
                 /\ UNCHANGED <<refusals, events>>
                 /\ \A name \in Range(Limiters) :
                      /\ buckets'[<<name, address>>] = Counted(Swept[<<name, address>>])
                      /\ buckets'[<<name, address>>].count <= RateLimit[name]
                 /\ \A k \in Keys : k[2] # address => buckets'[k] = Swept[k]
              \/ \E name \in Range(Limiters) :
                   LET b == Counted(Swept[<<name, address>>])
                       window == <<name, address, b.resetAt>> IN
                   /\ Goto(r, "done")
                   /\ buckets'[<<name, address>>] = b /\ b.count > RateLimit[name]
                   /\ \A k \in Keys \ {<<name, address>>} :
                        buckets'[k] = Swept[k] \/ buckets'[k].count <= RateLimit[k[1]]
                   /\ refusals' = refusals \cup {window}
                   /\ events' = IF b.count = RateLimit[name] + 1 THEN Append(events, window)
                                ELSE events
                   /\ UNCHANGED admitted
<1> DEFINE bs == Swept
           N == Len(Limiters)
           stop == Passed(bs, address)
           stops == {i \in DOMAIN Limiters : Refuses(Limiters[i], bs, address)}
           reached == {<<Limiters[i], address>> : i \in 1..(IF stop > N THEN stop - 1 ELSE stop)}
           after == [k \in Keys |-> IF k \in reached THEN Counted(bs[k]) ELSE bs[k]]
<1>1. /\ N \in Nat /\ DOMAIN Limiters = 1..N /\ Window \in Nat \ {0} /\ clock \in Nat
      /\ \A i \in 1..N : Limiters[i] \in Range(Limiters) /\ RateLimit[Limiters[i]] \in Nat
      /\ \A name \in Range(Limiters) : (\E i \in 1..N : name = Limiters[i]) /\ RateLimit[name] \in Nat
  <2>1. N \in Nat /\ DOMAIN Limiters = 1..N /\ \A i \in 1..N : Limiters[i] \in Range(Limiters)
    BY LimiterAssumption
  <2>2. \A i \in 1..N : RateLimit[Limiters[i]] \in Nat
    BY LimiterAssumption, <2>1
  <2>3. \A name \in Range(Limiters) : \E i \in 1..N : name = Limiters[i]
    BY <2>1 DEF Range
  <2>4. Window \in Nat \ {0} /\ clock \in Nat
    BY LimiterAssumption DEF MailTypeOK
  <2> HIDE DEF N
  <2> QED
    BY <2>1, <2>2, <2>3, <2>4
<1>2. /\ bs \in [Keys -> Bucket]
      /\ \A k \in Keys : \/ bs[k] = buckets[k]
                         \/ buckets[k].resetAt <= clock /\ bs[k] = NoBucket
  <2>1. NoBucket \in Bucket
    BY DEF NoBucket, Bucket
  <2> QED
    BY <2>1 DEF Swept, MailTypeOK, Bucket
<1>3. \A k \in Keys : Counted(bs[k]) \in Bucket
  BY <1>1, <1>2 DEF Counted, Bucket
<1>4. /\ stop \in 1..(N + 1)
      /\ \A j \in 1..(stop - 1) : ~Refuses(Limiters[j], bs, address)
      /\ stop <= N => Refuses(Limiters[stop], bs, address)
  <2>1. CASE stops = {}
    <3>1. stop = N + 1
      BY <2>1 DEF Passed
    <3> QED
      BY <1>1, <2>1, <3>1
  <2>2. CASE stops # {}
    <3>1. stops \subseteq Int /\ IsFiniteSet(stops)
      <4>1. stops \in SUBSET (1..N) /\ 1 \in Int /\ N \in Int
        BY <1>1
      <4> HIDE DEF stops
      <4>2. IsFiniteSet(1..N)
        BY <4>1, FS_Interval
      <4>3. IsFiniteSet(stops)
        BY <4>1, <4>2, FS_Subset
      <4>4. stops \subseteq Int
        <5> HIDE DEF N
        <5> QED
          BY <4>1
      <4> QED
        BY <4>3, <4>4
    <3>2. \E i \in stops : \A j \in stops : i <= j
      <4> HIDE DEF stops
      <4> QED
        BY <2>2, <3>1, Places
    <3>3. stop = CHOOSE i \in stops : \A j \in stops : i <= j
      BY <2>2 DEF Passed
    <3>4. stop \in stops /\ \A j \in stops : stop <= j
      <4> HIDE DEF stops, stop
      <4> QED
        BY <3>2, <3>3
    <3>5. stop \in 1..N /\ Refuses(Limiters[stop], bs, address)
      <4> HIDE DEF stop
      <4> QED
        BY <1>1, <3>4
    <3>6. ASSUME NEW j \in 1..(stop - 1) PROVE ~Refuses(Limiters[j], bs, address)
      <4>1. j \in 1..N /\ ~(stop <= j)
        <5> HIDE DEF stop, N
        <5> QED
          BY <1>1, <3>5
      <4>2. j \notin stops
        <5> HIDE DEF stop, stops
        <5> QED
          BY <3>4, <4>1
      <4> QED
        BY <1>1, <4>1, <4>2
    <3> HIDE DEF stop, N
    <3> QED
      BY <1>1, <3>5, <3>6
  <2> QED
    BY <2>1, <2>2
<1>5. /\ buckets' = after
      /\ IF stop > N
         THEN /\ Goto(r, "policy")
              /\ admitted' = Append(admitted, [address |-> address, at |-> clock])
              /\ UNCHANGED <<refusals, events>>
         ELSE LET name == Limiters[stop]
                  b == after[<<name, address>>]
                  window == <<name, address, b.resetAt>>
              IN /\ Goto(r, "done")
                 /\ refusals' = refusals \cup {window}
                 /\ events' = IF b.count = RateLimit[name] + 1 THEN Append(events, window) ELSE events
                 /\ UNCHANGED admitted
  BY DEF Arrive
<1>6. \A name \in Range(Limiters) : <<name, address>> \in Keys
  BY DEF Keys
<1>k. \A k \in Keys : k = <<k[1], k[2]>> /\ k[1] \in Range(Limiters)
  BY DEF Keys
<1> HIDE DEF bs, stop, stops, N
<1>7. /\ after \in [Keys -> Bucket]
      /\ \A k \in Keys : after[k] = IF k \in reached THEN Counted(bs[k]) ELSE bs[k]
  <2> HIDE DEF reached
  <2> QED
    BY <1>2, <1>3
<1>8. \A k \in Keys : after[k] \in {bs[k], Counted(bs[k])}
  BY <1>7
<1>9. CASE stop > N
  <2>1. stop = N + 1
    BY <1>1, <1>4, <1>9
  <2>2. reached = {<<Limiters[i], address>> : i \in 1..N}
    BY <1>1, <2>1
  <2>3. ASSUME NEW name \in Range(Limiters)
        PROVE  /\ after[<<name, address>>] = Counted(bs[<<name, address>>])
               /\ after[<<name, address>>].count <= RateLimit[name]
    <3>1. PICK i \in 1..N : name = Limiters[i]
      BY <1>1
    <3>2. <<name, address>> \in reached /\ <<name, address>> \in Keys
      BY <1>6, <2>2, <3>1
    <3>3. after[<<name, address>>] = Counted(bs[<<name, address>>])
      BY <1>7, <3>2
    <3>4. ~(Counted(bs[<<name, address>>]).count > RateLimit[name])
      BY <1>1, <1>4, <2>1, <3>1 DEF Refuses
    <3>5. Counted(bs[<<name, address>>]).count \in Nat
      BY <1>3, <3>2 DEF Bucket
    <3> QED
      BY <1>1, <3>3, <3>4, <3>5
  <2>4. ASSUME NEW k \in Keys, k[2] # address PROVE after[k] = bs[k]
    BY <1>7, <2>2, <2>4
  <2> QED
    BY <1>2, <1>5, <1>7, <1>8, <1>9, <2>3, <2>4 DEF bs
<1>10. CASE ~(stop > N)
  <2> DEFINE name == Limiters[stop]
             b == Counted(bs[<<name, address>>])
  <2>1. stop \in 1..N
    BY <1>1, <1>4, <1>10
  <2>2. reached = {<<Limiters[i], address>> : i \in 1..stop}
    BY <1>10
  <2>3. name \in Range(Limiters) /\ <<name, address>> \in Keys /\ <<name, address>> \in reached
    BY <1>1, <1>6, <2>1, <2>2
  <2>4. after[<<name, address>>] = b
    BY <1>7, <2>3
  <2>5. b.count > RateLimit[name]
    BY <1>4, <2>1 DEF Refuses
  <2>6. ASSUME NEW k \in Keys \ {<<name, address>>}, after[k] # bs[k]
        PROVE  after[k].count <= RateLimit[k[1]]
    <3>1. k \in reached /\ after[k] = Counted(bs[k])
      BY <1>7, <2>6
    <3>2. PICK j \in 1..stop : k = <<Limiters[j], address>>
      BY <2>2, <3>1
    <3>3. j \in 1..(stop - 1)
      BY <1>1, <2>1, <3>2
    <3>4. ~(Counted(bs[k]).count > RateLimit[Limiters[j]]) /\ k[1] = Limiters[j]
      BY <1>4, <3>2, <3>3 DEF Refuses
    <3>5. Counted(bs[k]).count \in Nat /\ RateLimit[Limiters[j]] \in Nat
      BY <1>1, <1>3, <2>1, <3>3 DEF Bucket
    <3> QED
      BY <3>1, <3>4, <3>5
  <2> HIDE DEF after
  <2> QED
    BY <1>2, <1>5, <1>7, <1>8, <1>10, <2>3, <2>4, <2>5, <2>6 DEF bs
<1> QED
  BY <1>9, <1>10

-----------------------------------------------------------------------------
(* However addresses rotate, requests overlap and windows are swept, an inbox    *)
(* is sent no more than its allowance and the links inserted past each other's  *)
(* count, an address bursts to no more than twice its tightest limit, and each  *)
(* refusing window is reported once (magicLink.js issue, rateLimit.js).        *)
THEOREM MailIsLimited == OfficeSpec => []MailIsBounded
\* Bursts: time and arrivals keep every window within its limit.
<1>t. ASSUME MailTypeOK, Tallied,
             Tick \/ \E r \in Asks, address \in Addresses : Arrive(r, address)
      PROVE  Tallied'
  <2> USE <1>t
  <2> DEFINE n == Len(admitted)
             G(a, lo, hi) == Cardinality(Got(admitted, a, lo, hi))
  <2>t. /\ clock \in Nat /\ Window \in Nat /\ Window > 0
        /\ buckets \in [Keys -> Bucket]
        /\ n \in Nat /\ DOMAIN admitted = 1..n
        /\ \A i \in 1..n : admitted[i].at \in Nat /\ admitted[i].at <= clock
        /\ \A name \in Range(Limiters) : RateLimit[name] \in Nat
        /\ \A name \in Range(Limiters), a \in Addresses : <<name, a>> \in Keys
    <3>1. /\ n \in Nat /\ DOMAIN admitted = 1..n
          /\ \A i \in 1..n : admitted[i] \in Admission
      BY DEF MailTypeOK
    <3>2. \A name \in Range(Limiters) : RateLimit[name] \in Nat
      BY LimiterAssumption DEF Range
    <3>3. \A name \in Range(Limiters), a \in Addresses : <<name, a>> \in Keys
      BY DEF Keys
    <3>4. \A i \in 1..n : admitted[i].at \in Nat
      BY <3>1 DEF Admission
    <3>5. clock \in Nat /\ Window \in Nat /\ Window > 0 /\ buckets \in [Keys -> Bucket]
      BY LimiterAssumption DEF MailTypeOK
    <3>6. \A i \in 1..n : admitted[i].at <= clock
      BY <3>1 DEF Tallied
    <3> QED
      BY <3>1, <3>2, <3>3, <3>4, <3>5, <3>6
  <2>g. ASSUME NEW a, NEW lo \in Int, NEW hi \in Int
        PROVE  /\ G(a, lo, hi) \in Nat /\ IsFiniteSet(Got(admitted, a, lo, hi))
               /\ \A lo2, hi2 \in Int : lo <= lo2 /\ (hi2 <= hi \/ hi > clock)
                     => G(a, lo2, hi2) <= G(a, lo, hi)
    <3>1. Got(admitted, a, lo, hi) \in SUBSET (1..n)
      BY <2>t DEF Got
    <3>2. ASSUME NEW lo2 \in Int, NEW hi2 \in Int, lo <= lo2, hi2 <= hi \/ hi > clock
          PROVE  Got(admitted, a, lo2, hi2) \in SUBSET Got(admitted, a, lo, hi)
      BY <2>t, <3>2 DEF Got
    <3> QED
      BY <2>t, <3>1, <3>2, Positions
  <2>b. ASSUME NEW b \in Bucket PROVE b.count \in Nat /\ b.resetAt \in Nat
    BY DEF Bucket
  \* What was let through in the last window's length, and since a window began.
  <2>l. ASSUME NEW a
        PROVE  /\ G(a, clock - Window + 1, clock + 1) \in Nat
               /\ G(a, clock - Window + 1, clock) \in Nat
               /\ G(a, clock - Window + 1, clock) <= G(a, clock - Window + 1, clock + 1)
               /\ G(a, clock + 1 - Window + 1, clock + 1 + 1) \in Nat
               /\ G(a, clock + 1 - Window + 1, clock + 1 + 1) <= G(a, clock - Window + 1, clock + 1)
    BY <2>t, <2>g
  <2>w. ASSUME NEW a, NEW t \in Nat
        PROVE  /\ G(a, t - Window, clock + 1) \in Nat
               /\ G(a, t - Window, clock + 1 + 1) \in Nat
               /\ G(a, t - Window, clock + 1 + 1) <= G(a, t - Window, clock + 1)
               /\ t = clock + 1 => G(a, clock + 1 - Window + 1, clock + 1 + 1) <= G(a, t - Window, clock + 1)
    BY <2>t, <2>g
  <2>f. ASSUME NEW name \in Range(Limiters), NEW a \in Addresses
        PROVE  Fits(buckets[<<name, a>>], admitted, clock, a, RateLimit[name])
    BY DEF Tallied
  <2>1. CASE Tick
    <3>1. clock' = clock + 1 /\ UNCHANGED <<buckets, admitted>>
      BY <2>1 DEF Tick
    <3>2. ASSUME NEW name \in Range(Limiters), NEW a \in Addresses
          PROVE  Fits(buckets[<<name, a>>], admitted, clock + 1, a, RateLimit[name])
      <4> PICK b \in Bucket : b = buckets[<<name, a>>]
        BY <2>t
      <4> PICK limit \in Nat : limit = RateLimit[name]
        BY <2>t
      <4>1. b.count \in Nat /\ b.resetAt \in Nat
        BY <2>b
      <4>2. Fits(b, admitted, clock, a, limit)
        BY <2>f
      <4>3. Got(admitted, a, clock + 1, clock + 1 + 1) = {}
        BY <2>t DEF Got
      <4>4. b.resetAt <= clock + 1 + Window
        BY <2>t, <4>1, <4>2 DEF Fits
      <4>5. ASSUME b.resetAt > clock + 1
            PROVE  /\ G(a, b.resetAt - Window, clock + 1 + 1) <= b.count
                   /\ G(a, b.resetAt - Window, clock + 1 + 1) <= limit
                   /\ G(a, b.resetAt - 2 * Window + 1, b.resetAt - Window) <= limit
        <5>1. b.resetAt > clock
          BY <2>t, <4>1, <4>5
        <5>2. /\ G(a, b.resetAt - Window, clock + 1) <= b.count
              /\ G(a, b.resetAt - Window, clock + 1) <= limit
              /\ G(a, b.resetAt - 2 * Window + 1, b.resetAt - Window) <= limit
          BY <4>2, <5>1 DEF Fits
        <5>3. /\ G(a, b.resetAt - Window, clock + 1) \in Nat
              /\ G(a, b.resetAt - Window, clock + 1 + 1) \in Nat
              /\ G(a, b.resetAt - Window, clock + 1 + 1) <= G(a, b.resetAt - Window, clock + 1)
          BY <2>w, <4>1
        <5> HIDE DEF G
        <5> QED
          BY <4>1, <5>2, <5>3
      <4>6. ASSUME b.resetAt <= clock + 1
            PROVE  G(a, clock + 1 - Window + 1, clock + 1 + 1) <= limit
        <5>1. CASE b.resetAt = clock + 1
          <6>1. b.resetAt > clock
            BY <2>t, <5>1
          <6>2. G(a, b.resetAt - Window, clock + 1) <= limit
            BY <4>2, <6>1 DEF Fits
          <6>3. /\ G(a, b.resetAt - Window, clock + 1) \in Nat
                /\ G(a, clock + 1 - Window + 1, clock + 1 + 1) \in Nat
                /\ G(a, clock + 1 - Window + 1, clock + 1 + 1) <= G(a, b.resetAt - Window, clock + 1)
            BY <2>w, <2>l, <4>1, <5>1
          <6> HIDE DEF G
          <6> QED
            BY <6>2, <6>3
        <5>2. CASE b.resetAt <= clock
          <6>1. G(a, clock - Window + 1, clock + 1) <= limit
            BY <4>2, <5>2 DEF Fits
          <6> HIDE DEF G
          <6> QED
            BY <2>l, <6>1
        <5> QED
          BY <2>t, <4>1, <4>6, <5>1, <5>2
      <4>7. Fits(b, admitted, clock + 1, a, limit)
        <5>1. CASE b.resetAt > clock + 1
          <6>1. ~(b.resetAt <= clock + 1)
            BY <2>t, <4>1, <5>1
          <6> QED
            BY <4>4, <4>5, <5>1, <6>1 DEF Fits
        <5>2. CASE ~(b.resetAt > clock + 1)
          <6>1. b.resetAt <= clock + 1
            BY <2>t, <4>1, <5>2
          <6>2. Cardinality(Got(admitted, a, clock + 1 - Window + 1, clock + 1 + 1)) <= limit
            BY <4>6, <6>1
          <6>3. (clock + 1) - Window + 1 = clock + 1 - Window + 1
            BY <2>t
          <6> QED
            BY <4>3, <4>4, <5>2, <6>2, <6>3 DEF Fits
        <5> QED
          BY <5>1, <5>2
      <4> QED
        BY <4>7
    <3>3. \A i \in DOMAIN admitted' : admitted'[i].at <= clock'
      BY <2>t, <3>1
    <3> QED
      BY <3>1, <3>2, <3>3 DEF Tallied
  <2>2. ASSUME NEW r \in Asks, NEW address \in Addresses, Arrive(r, address)
        PROVE  Tallied'
    <3>1. UNCHANGED clock
      BY <2>2 DEF Arrive
    <3>2. /\ Swept \in [Keys -> Bucket]
          /\ \A k \in Keys : \/ Swept[k] = buckets[k]
                             \/ buckets[k].resetAt <= clock /\ Swept[k] = NoBucket
          /\ buckets' \in [Keys -> Bucket]
          /\ \A k \in Keys : buckets'[k] \in {Swept[k], Counted(Swept[k])}
      BY <2>2, Arrival
    <3>3. ASSUME NEW name \in Range(Limiters), NEW a \in Addresses
          PROVE  Fits(Swept[<<name, a>>], admitted, clock, a, RateLimit[name])
      <4> PICK b \in Bucket : b = buckets[<<name, a>>]
        BY <2>t
      <4>1. Fits(b, admitted, clock, a, RateLimit[name]) /\ b.resetAt \in Nat
        BY <2>f, <2>b
      <4>2. NoBucket.resetAt = 0
        BY DEF NoBucket
      <4>3. CASE b.resetAt <= clock /\ Swept[<<name, a>>] = NoBucket
        <5>1. ~(NoBucket.resetAt > clock) /\ NoBucket.resetAt <= clock + Window
          BY <2>t, <4>2
        <5>2. Fits(NoBucket, admitted, clock, a, RateLimit[name])
          BY <4>1, <4>3, <5>1 DEF Fits
        <5> QED
          BY <4>3, <5>2
      <4> QED
        BY <2>t, <3>2, <4>1, <4>3
    \* Counting an arrival, before it is known whether it is admitted.
    <3>4. ASSUME NEW name \in Range(Limiters), NEW a \in Addresses
          PROVE  Fits(Counted(Swept[<<name, a>>]), admitted, clock, a, RateLimit[name])
      <4> PICK b \in Bucket : b = Swept[<<name, a>>]
        BY <2>t, <3>2
      <4> PICK c : c = Counted(b)
        OBVIOUS
      <4> PICK limit \in Nat : limit = RateLimit[name]
        BY <2>t
      <4>1. b.count \in Nat /\ b.resetAt \in Nat /\ Fits(b, admitted, clock, a, limit)
        BY <2>b, <3>3
      <4>2. CASE b.resetAt <= clock
        <5>1. c.count = 1 /\ c.resetAt = clock + Window
          BY <4>2 DEF Counted
        <5>2. Got(admitted, a, clock, clock + 1) = {} /\ G(a, clock - Window + 1, clock + 1) <= limit
          BY <4>1, <4>2 DEF Fits
        <5>3. G(a, clock, clock + 1) = 0
          BY <5>2, FS_EmptySet
        <5>4. G(a, clock - Window + 1, clock) <= limit
          <6> HIDE DEF G
          <6> QED
            BY <2>l, <5>2
        <5>5. /\ c.resetAt - Window = clock /\ c.resetAt - 2 * Window + 1 = clock - Window + 1
              /\ ~(c.resetAt <= clock) /\ c.resetAt <= clock + Window
          BY <2>t, <5>1
        <5>6. /\ G(a, c.resetAt - Window, clock + 1) <= c.count
              /\ G(a, c.resetAt - Window, clock + 1) <= limit
              /\ G(a, c.resetAt - 2 * Window + 1, c.resetAt - Window) <= limit
          <6> HIDE DEF G
          <6> QED
            BY <5>1, <5>3, <5>4, <5>5
        <5>7. Fits(c, admitted, clock, a, limit)
          BY <5>5, <5>6 DEF Fits
        <5> QED
          BY <5>7
      <4>3. CASE b.resetAt > clock
        <5>1. c.count = b.count + 1 /\ c.resetAt = b.resetAt
          BY <2>t, <4>1, <4>3 DEF Counted, Bucket
        <5>2. G(a, b.resetAt - Window, clock + 1) <= b.count
          BY <4>1, <4>3 DEF Fits
        <5>3. G(a, b.resetAt - Window, clock + 1) <= b.count + 1
          <6>1. G(a, b.resetAt - Window, clock + 1) \in Nat
            BY <2>w, <4>1
          <6> HIDE DEF G
          <6> QED
            BY <4>1, <5>2, <6>1
        <5>4. ~(b.resetAt <= clock)
          BY <2>t, <4>1, <4>3
        <5>5. Fits(c, admitted, clock, a, limit)
          BY <4>1, <4>3, <5>1, <5>3, <5>4 DEF Fits
        <5> QED
          BY <5>5
      <4> QED
        BY <2>t, <4>1, <4>2, <4>3
    <3>5. CASE UNCHANGED admitted
      <4>1. ASSUME NEW name \in Range(Limiters), NEW a \in Addresses
            PROVE  Fits(buckets'[<<name, a>>], admitted, clock, a, RateLimit[name])
        BY <2>t, <3>2, <3>3, <3>4
      <4>2. \A i \in DOMAIN admitted' : admitted'[i].at <= clock'
        BY <2>t, <3>1, <3>5
      <4> QED
        BY <3>1, <3>5, <4>1, <4>2 DEF Tallied
    <3>6. CASE admitted' = Append(admitted, [address |-> address, at |-> clock])
      <4>1. /\ \A name \in Range(Limiters) :
                 /\ buckets'[<<name, address>>] = Counted(Swept[<<name, address>>])
                 /\ buckets'[<<name, address>>].count <= RateLimit[name]
            /\ \A k \in Keys : k[2] # address => buckets'[k] = Swept[k]
        <5>1. Len(admitted') = n + 1
          BY <2>t, <3>6 DEF MailTypeOK
        <5>2. admitted' # admitted
          BY <2>t, <5>1
        <5> QED
          BY <2>2, <5>2, Arrival
      <4>2. /\ DOMAIN admitted' = 1..(n + 1)
            /\ \A i \in 1..n : admitted'[i] = admitted[i]
            /\ admitted'[n + 1].address = address /\ admitted'[n + 1].at = clock
        BY <2>t, <3>6 DEF MailTypeOK
      <4>3. ASSUME NEW a, NEW lo \in Int, NEW hi \in Int, a # address \/ lo > clock \/ hi <= clock
            PROVE  Got(admitted', a, lo, hi) = Got(admitted, a, lo, hi)
        BY <2>t, <4>2, <4>3 DEF Got
      <4>4. ASSUME NEW lo \in Int, NEW hi \in Int, lo <= clock, hi > clock
            PROVE  Cardinality(Got(admitted', address, lo, hi)) = G(address, lo, hi) + 1
        <5>1. /\ Got(admitted', address, lo, hi) = Got(admitted, address, lo, hi) \cup {n + 1}
              /\ n + 1 \notin Got(admitted, address, lo, hi)
          BY <2>t, <4>2, <4>4 DEF Got
        <5> QED
          BY <2>g, <5>1, FS_AddElement
      <4>5. ASSUME NEW name \in Range(Limiters), NEW a \in Addresses
            PROVE  Fits(buckets'[<<name, a>>], admitted', clock, a, RateLimit[name])
        <5> PICK limit \in Nat : limit = RateLimit[name]
          BY <2>t
        <5> PICK b \in Bucket : b = Swept[<<name, a>>]
          BY <2>t, <3>2
        <5>1. b.count \in Nat /\ b.resetAt \in Nat /\ Fits(b, admitted, clock, a, limit)
          BY <2>b, <3>3
        <5>2. CASE a # address
          <6>1. buckets'[<<name, a>>] = b
            BY <2>t, <4>1, <5>2
          <6>2. /\ Got(admitted', a, b.resetAt - Window, clock + 1)
                     = Got(admitted, a, b.resetAt - Window, clock + 1)
                /\ Got(admitted', a, b.resetAt - 2 * Window + 1, b.resetAt - Window)
                     = Got(admitted, a, b.resetAt - 2 * Window + 1, b.resetAt - Window)
                /\ Got(admitted', a, clock, clock + 1) = Got(admitted, a, clock, clock + 1)
                /\ Got(admitted', a, clock - Window + 1, clock + 1)
                     = Got(admitted, a, clock - Window + 1, clock + 1)
            BY <2>t, <4>3, <5>1, <5>2
          <6>3. Fits(b, admitted', clock, a, limit)
            BY <5>1, <6>2 DEF Fits
          <6> QED
            BY <6>1, <6>3
        <5>3. CASE a = address
          <6> PICK c : c = Counted(b)
            OBVIOUS
          <6>1. buckets'[<<name, a>>] = c /\ c.count <= limit
            BY <4>1, <5>3
          <6>2. CASE b.resetAt <= clock
            <7>1. c.count = 1 /\ c.resetAt = clock + Window
              BY <6>2 DEF Counted
            <7>2. Got(admitted, a, clock, clock + 1) = {} /\ G(a, clock - Window + 1, clock + 1) <= limit
              BY <5>1, <6>2 DEF Fits
            <7>3. Cardinality(Got(admitted', a, clock, clock + 1)) = 1
              <8>1. G(a, clock, clock + 1) = 0
                BY <7>2, FS_EmptySet
              <8>2. Cardinality(Got(admitted', a, clock, clock + 1)) = G(a, clock, clock + 1) + 1
                BY <2>t, <4>4, <5>3
              <8> HIDE DEF G
              <8> QED
                BY <8>1, <8>2
            <7>4. Cardinality(Got(admitted', a, clock - Window + 1, clock)) <= limit
              <8>1. Got(admitted', a, clock - Window + 1, clock) = Got(admitted, a, clock - Window + 1, clock)
                BY <2>t, <4>3
              <8>2. G(a, clock - Window + 1, clock) <= limit
                <9> HIDE DEF G
                <9> QED
                  BY <2>l, <7>2
              <8> QED
                BY <8>1, <8>2
            <7>5. /\ c.resetAt - Window = clock /\ c.resetAt - 2 * Window + 1 = clock - Window + 1
                  /\ ~(c.resetAt <= clock) /\ c.resetAt <= clock + Window
              BY <2>t, <7>1
            <7>6. /\ Cardinality(Got(admitted', a, c.resetAt - Window, clock + 1)) <= c.count
                  /\ Cardinality(Got(admitted', a, c.resetAt - Window, clock + 1)) <= limit
                  /\ Cardinality(Got(admitted', a, c.resetAt - 2 * Window + 1, c.resetAt - Window)) <= limit
              BY <6>1, <7>1, <7>3, <7>4, <7>5
            <7>7. Fits(c, admitted', clock, a, limit)
              BY <7>5, <7>6 DEF Fits
            <7> QED
              BY <6>1, <7>7
          <6>3. CASE b.resetAt > clock
            <7>1. c.count = b.count + 1 /\ c.resetAt = b.resetAt
              BY <2>t, <5>1, <6>3 DEF Counted, Bucket
            <7>2. /\ b.resetAt <= clock + Window
                  /\ G(a, b.resetAt - Window, clock + 1) <= b.count
                  /\ G(a, b.resetAt - 2 * Window + 1, b.resetAt - Window) <= limit
              BY <5>1, <6>3 DEF Fits
            <7>3. /\ b.resetAt - Window <= clock /\ ~(b.resetAt <= clock)
                  /\ b.resetAt - Window \in Int /\ b.resetAt - 2 * Window + 1 \in Int
              <8> PICK t \in Nat : t = b.resetAt
                BY <5>1
              <8>1. t <= clock + Window /\ t > clock /\ clock \in Nat /\ Window \in Nat
                BY <2>t, <6>3, <7>2
              <8>2. t - Window <= clock /\ ~(t <= clock) /\ t - Window \in Int /\ t - 2 * Window + 1 \in Int
                BY <8>1
              <8> QED
                BY <8>2
            <7>4. /\ Cardinality(Got(admitted', a, b.resetAt - Window, clock + 1)) <= b.count + 1
                  /\ Cardinality(Got(admitted', a, b.resetAt - Window, clock + 1)) <= limit
              <8>1. Cardinality(Got(admitted', a, b.resetAt - Window, clock + 1))
                      = G(a, b.resetAt - Window, clock + 1) + 1
                BY <2>t, <4>4, <5>3, <7>3
              <8>2. G(a, b.resetAt - Window, clock + 1) \in Nat
                BY <2>w, <5>1
              <8> HIDE DEF G
              <8> QED
                BY <5>1, <6>1, <7>1, <7>2, <8>1, <8>2
            <7>5. Got(admitted', a, b.resetAt - 2 * Window + 1, b.resetAt - Window)
                    = Got(admitted, a, b.resetAt - 2 * Window + 1, b.resetAt - Window)
              BY <2>t, <4>3, <7>3
            <7>6. Fits(c, admitted', clock, a, limit)
              BY <7>1, <7>2, <7>3, <7>4, <7>5 DEF Fits
            <7> QED
              BY <6>1, <7>6
          <6> QED
            BY <2>t, <5>1, <6>2, <6>3
        <5> QED
          BY <5>2, <5>3
      <4>6. \A i \in DOMAIN admitted' : admitted'[i].at <= clock'
        BY <2>t, <3>1, <4>2
      <4> QED
        BY <3>1, <4>5, <4>6 DEF Tallied
    <3> QED
      BY <2>2, <3>5, <3>6, Arrival
  <2> QED
    BY <2>1, <2>2
\* Refusals: each window that begins to refuse is reported then, and only then.
<1>r. ASSUME MailTypeOK, Reported, NEW r \in Asks, NEW address \in Addresses, Arrive(r, address)
      PROVE  refusals' \subseteq Windows /\ events' \in Seq(Windows) /\ Reported'
  <2> USE <1>r
  <2>t. /\ clock \in Nat /\ clock' = clock /\ Window \in Nat /\ Window > 0
        /\ buckets \in [Keys -> Bucket] /\ buckets' \in [Keys -> Bucket]
        /\ Swept \in [Keys -> Bucket]
        /\ refusals \subseteq Windows /\ events \in Seq(Windows)
        /\ \A name \in Range(Limiters) : RateLimit[name] \in Nat
        /\ \A name \in Range(Limiters), a \in Addresses : <<name, a>> \in Keys
        /\ \A w \in Windows : /\ w[1] \in Range(Limiters) /\ w[2] \in Addresses /\ w[3] \in Nat
                              /\ w = <<w[1], w[2], w[3]>>
    <3>1. clock' = clock
      BY DEF Arrive
    <3>2. buckets' \in [Keys -> Bucket] /\ Swept \in [Keys -> Bucket]
      BY Arrival
    <3>3. \A name \in Range(Limiters) : RateLimit[name] \in Nat
      BY LimiterAssumption DEF Range
    <3>4. \A name \in Range(Limiters), a \in Addresses : <<name, a>> \in Keys
      BY DEF Keys
    <3>5. \A w \in Windows : /\ w[1] \in Range(Limiters) /\ w[2] \in Addresses /\ w[3] \in Nat
                              /\ w = <<w[1], w[2], w[3]>>
      BY DEF Windows
    <3> QED
      BY <3>1, <3>2, <3>3, <3>4, <3>5, LimiterAssumption DEF MailTypeOK
  \* Windows refuse exactly as before the sweep: what it drops no longer runs.
  <2>1. ASSUME NEW name \in Range(Limiters), NEW a \in Addresses
        PROVE  LET k == <<name, a>>
                   s == Swept[k]  c == Counted(s) IN
               /\ s.resetAt > clock => s = buckets[k]
               /\ buckets[k].resetAt > clock => s = buckets[k]
               /\ s.resetAt <= clock => c.count = 1 /\ c.resetAt = clock + Window
               /\ s.resetAt > clock => c.count = s.count + 1 /\ c.resetAt = s.resetAt
    <3>1. Swept[<<name, a>>] \in Bucket /\ <<name, a>> \in Keys
      BY <2>t
    <3>2. \/ Swept[<<name, a>>] = buckets[<<name, a>>]
          \/ buckets[<<name, a>>].resetAt <= clock /\ Swept[<<name, a>>] = NoBucket
      BY <3>1, Arrival
    <3>3. NoBucket.resetAt = 0
      BY DEF NoBucket
    <3>4. buckets[<<name, a>>].resetAt \in Nat /\ Swept[<<name, a>>].resetAt \in Nat
      BY <2>t, <3>1 DEF Bucket
    <3> QED
      BY <2>t, <3>1, <3>2, <3>3, <3>4 DEF Counted, Bucket
  \* A window keeps refusing if it did, and another begins to only by this one.
  <2>2. ASSUME NEW name \in Range(Limiters), NEW a \in Addresses, NEW b \in Bucket,
               b \in {Swept[<<name, a>>], Counted(Swept[<<name, a>>])}
        PROVE  /\ \A w \in refusals : w[1] = name /\ w[2] = a /\ w[3] > clock
                    => b.resetAt = w[3] /\ b.count > RateLimit[name]
               /\ b = Swept[<<name, a>>] /\ b.resetAt > clock /\ b.count > RateLimit[name]
                    => <<name, a, b.resetAt>> \in refusals
    <3> DEFINE o == buckets[<<name, a>>]
    <3>1. o \in Bucket /\ Swept[<<name, a>>] \in Bucket /\ RateLimit[name] \in Nat
      BY <2>t
    <3>2. ASSUME NEW w \in refusals, w[1] = name, w[2] = a, w[3] > clock
          PROVE  b.resetAt = w[3] /\ b.count > RateLimit[name]
      <4>1. o.resetAt = w[3] /\ o.count > RateLimit[name]
        BY <3>2 DEF Reported
      <4>2. Swept[<<name, a>>] = o
        BY <2>1, <3>2, <4>1
      <4> QED
        BY <2>t, <2>1, <2>2, <3>1, <3>2, <4>1, <4>2 DEF Bucket
    <3>3. ASSUME b = Swept[<<name, a>>], b.resetAt > clock, b.count > RateLimit[name]
          PROVE  <<name, a, b.resetAt>> \in refusals
      <4>1. b = o
        BY <2>1, <3>3
      <4> QED
        BY <3>3, <4>1 DEF Reported
    <3> QED
      BY <3>2, <3>3
  <2>3. \A name \in Range(Limiters), a \in Addresses :
          buckets'[<<name, a>>] \in Bucket
          /\ buckets'[<<name, a>>] \in {Swept[<<name, a>>], Counted(Swept[<<name, a>>])}
    BY <2>t, Arrival
  <2>4. \A w \in refusals : w[3] > clock =>
          LET b == buckets'[<<w[1], w[2]>>] IN b.resetAt = w[3] /\ b.count > RateLimit[w[1]]
    BY <2>t, <2>2, <2>3
  <2>5. CASE UNCHANGED <<refusals, events>>
             /\ \A name \in Range(Limiters), a \in Addresses :
                  \/ buckets'[<<name, a>>] = Swept[<<name, a>>]
                  \/ buckets'[<<name, a>>].count <= RateLimit[name]
    <3>1. ASSUME NEW name \in Range(Limiters), NEW a \in Addresses,
                 buckets'[<<name, a>>].resetAt > clock, buckets'[<<name, a>>].count > RateLimit[name]
          PROVE  <<name, a, buckets'[<<name, a>>].resetAt>> \in refusals
      <4>1. buckets'[<<name, a>>].count \in Nat /\ RateLimit[name] \in Nat
        BY <2>t, <2>3 DEF Bucket
      <4>2. buckets'[<<name, a>>] = Swept[<<name, a>>]
        BY <2>5, <3>1, <4>1
      <4> QED
        BY <2>2, <2>3, <3>1, <4>2
    <3> QED
      BY <2>t, <2>4, <2>5, <3>1 DEF Reported, RefusalsAreReportedOnce
  <2>6. ASSUME NEW name \in Range(Limiters),
               LET b == Counted(Swept[<<name, address>>])
                   window == <<name, address, b.resetAt>> IN
               /\ buckets'[<<name, address>>] = b /\ b.count > RateLimit[name]
               /\ \A k \in Keys \ {<<name, address>>} :
                    buckets'[k] = Swept[k] \/ buckets'[k].count <= RateLimit[k[1]]
               /\ refusals' = refusals \cup {window}
               /\ events' = IF b.count = RateLimit[name] + 1 THEN Append(events, window)
                            ELSE events
        PROVE  refusals' \subseteq Windows /\ events' \in Seq(Windows) /\ Reported'
    <3> DEFINE k0 == <<name, address>>
               b == Counted(Swept[k0])
               window == <<name, address, b.resetAt>>
    <3>1. /\ b \in Bucket /\ b.count \in Nat /\ b.resetAt \in Nat /\ RateLimit[name] \in Nat
          /\ b.resetAt > clock /\ Swept[k0].count \in Nat
      <4>1. b \in Bucket /\ Swept[k0] \in Bucket
        BY <2>t, <2>3, <2>6
      <4>2. b.count \in Nat /\ b.resetAt \in Nat /\ Swept[k0].count \in Nat /\ Swept[k0].resetAt \in Nat
        BY <4>1 DEF Bucket
      <4> HIDE DEF b
      <4> QED
        BY <2>t, <2>1, <4>1, <4>2 DEF b
    <3>2. window \in Windows
      BY <2>t, <3>1 DEF Windows
    <3>3. window \in refusals <=> ~(b.count = RateLimit[name] + 1)
      <4>1. CASE Swept[k0].resetAt <= clock
        <5>1. b.count = 1 /\ b.resetAt = clock + Window
          BY <2>1, <4>1
        <5>2. window \notin refusals
          <6>1. ASSUME window \in refusals PROVE FALSE
            <7>1. buckets[k0].resetAt = window[3] /\ window[3] > clock
              BY <3>1, <6>1 DEF Reported
            <7> QED
              BY <2>t, <2>1, <4>1, <7>1, <3>1
          <6> QED
            BY <6>1
        <5> HIDE DEF b
        <5> QED
          BY <2>6, <3>1, <5>1, <5>2 DEF b
      <4>2. CASE Swept[k0].resetAt > clock
        <5>1. /\ b.count = Swept[k0].count + 1 /\ b.resetAt = Swept[k0].resetAt
              /\ Swept[k0] = buckets[k0]
          BY <2>1, <4>2
        <5>2. Swept[k0].count > RateLimit[name] => window \in refusals
          BY <4>2, <5>1 DEF Reported
        <5>3. window \in refusals => Swept[k0].count > RateLimit[name]
          BY <3>1, <5>1 DEF Reported
        <5>4. b.count > RateLimit[name]
          BY <2>6
        <5> HIDE DEF b, window
        <5> QED
          BY <3>1, <5>1, <5>2, <5>3, <5>4
      <4> QED
        BY <2>t, <3>1, <4>1, <4>2 DEF Bucket
    <3>4. refusals' = refusals \cup {window} /\ buckets'[k0] = b /\ b.count > RateLimit[name]
      BY <2>6
    <3>5. /\ window \in refusals => events' = events
          /\ window \notin refusals => events' = Append(events, window)
      <4> HIDE DEF window
      <4> QED
        BY <2>6, <3>3 DEF window
    <3> HIDE DEF b, window
    <3>6. events' \in Seq(Windows) /\ RefusalsAreReportedOnce'
      <4>1. CASE window \in refusals
        BY <2>t, <3>4, <3>5, <4>1 DEF Reported, RefusalsAreReportedOnce
      <4>2. CASE window \notin refusals
        <5>1. /\ events' = Append(events, window) /\ events' \in Seq(Windows)
              /\ Range(events) = refusals /\ IsInjective(events)
          <6>1. events' = Append(events, window)
            BY <3>5, <4>2
          <6>2. events' \in Seq(Windows)
            BY <2>t, <3>2, <6>1
          <6>3. Range(events) = refusals /\ IsInjective(events)
            BY DEF Reported, RefusalsAreReportedOnce
          <6> QED
            BY <6>1, <6>2, <6>3
        <5>2. /\ Len(events) \in Nat /\ DOMAIN events = 1..Len(events)
              /\ DOMAIN events' = 1..(Len(events) + 1)
              /\ \A i \in 1..Len(events) : events'[i] = events[i]
              /\ events'[Len(events) + 1] = window
          BY <2>t, <5>1
        <5>3. Range(events') = refusals'
          BY <3>4, <5>1, <5>2 DEF Range
        <5>4. \A i \in 1..Len(events) : events[i] # window
          BY <4>2, <5>1, <5>2 DEF Range
        <5>5. IsInjective(events')
          BY <5>1, <5>2, <5>4 DEF IsInjective
        <5> QED
          BY <5>1, <5>3, <5>5 DEF RefusalsAreReportedOnce
      <4> QED
        BY <4>1, <4>2
    <3>7. \A w \in refusals' : w[3] > clock' =>
            LET o == buckets'[<<w[1], w[2]>>] IN o.resetAt = w[3] /\ o.count > RateLimit[w[1]]
      <4> SUFFICES ASSUME NEW w \in refusals', w[3] > clock
                   PROVE  LET o == buckets'[<<w[1], w[2]>>] IN o.resetAt = w[3] /\ o.count > RateLimit[w[1]]
        BY <2>t
      <4>1. CASE w \in refusals
        BY <2>4, <4>1
      <4>2. CASE w = window
        <5>1. w[1] = name /\ w[2] = address /\ w[3] = b.resetAt
          BY <4>2 DEF window
        <5> QED
          BY <3>4, <5>1
      <4> QED
        BY <3>4, <4>1, <4>2
    <3>8. ASSUME NEW m \in Range(Limiters), NEW a \in Addresses,
                 buckets'[<<m, a>>].resetAt > clock, buckets'[<<m, a>>].count > RateLimit[m]
          PROVE  <<m, a, buckets'[<<m, a>>].resetAt>> \in refusals'
      <4>1. CASE <<m, a>> = k0
        BY <3>4, <4>1 DEF window
      <4>2. CASE <<m, a>> # k0
        <5>1. buckets'[<<m, a>>].count \in Nat /\ RateLimit[m] \in Nat
          BY <2>t, <2>3 DEF Bucket
        <5>2. buckets'[<<m, a>>] = Swept[<<m, a>>]
          BY <2>t, <2>6, <3>8, <4>2, <5>1
        <5> QED
          BY <2>2, <2>3, <3>4, <3>8, <5>2
      <4> QED
        BY <4>1, <4>2
    <3> QED
      BY <2>t, <3>2, <3>4, <3>6, <3>7, <3>8 DEF Reported
  <2> QED
    <3>1. CASE /\ UNCHANGED <<refusals, events>>
               /\ \A name \in Range(Limiters) :
                    buckets'[<<name, address>>].count <= RateLimit[name]
               /\ \A k \in Keys : k[2] # address => buckets'[k] = Swept[k]
      <4>1. ASSUME NEW name \in Range(Limiters), NEW a \in Addresses
            PROVE  \/ buckets'[<<name, a>>] = Swept[<<name, a>>]
                   \/ buckets'[<<name, a>>].count <= RateLimit[name]
        <5>1. CASE a = address
          BY <3>1, <5>1
        <5>2. CASE a # address
          BY <2>t, <3>1, <5>2
        <5> QED
          BY <5>1, <5>2
      <4> QED
        BY <2>5, <3>1, <4>1, <2>t
    <3> QED
      BY <2>6, <3>1, Arrival
\* Links: a link is inserted with room in the hour, or past another one's insert.
<1>l. ASSUME MailTypeOK, LinksInv, MailNext
      PROVE  /\ clock' \in Nat /\ lastSweep' \in Nat /\ inbox' \in Nat
             /\ ask' \in [Asks -> Ask]
             /\ links' \in Seq(Link)
             /\ LinksInv'
  <2> USE <1>l
  <2> DEFINE n == Len(links)
             Kept == {i \in Recent : ~links[i].overtaken}
  <2>t. /\ clock \in Nat /\ lastSweep \in Nat /\ inbox \in Nat /\ ask \in [Asks -> Ask]
        /\ links \in Seq(Link) /\ n \in Nat /\ DOMAIN links = 1..n
        /\ PerHour \in Nat /\ Hour \in Nat /\ Hour > 0
        /\ \A i \in 1..n : links[i].at \in Nat
    <3>1. links \in Seq(Link) /\ n \in Nat /\ DOMAIN links = 1..n /\ \A i \in 1..n : links[i] \in Link
      BY DEF MailTypeOK
    <3>2. \A i \in 1..n : links[i].at \in Nat
      BY <3>1 DEF Link
    <3> HIDE DEF n
    <3> QED
      BY <3>1, <3>2, LimiterAssumption DEF MailTypeOK
  <2>i. /\ IsFiniteSet(Sending) /\ Cardinality(Sending) \in Nat
        /\ Cardinality(Sending) + inbox <= n
        /\ RoomIsKept /\ Cardinality(Kept) <= PerHour
    BY FS_CardinalityType DEF LinksInv, LinksAreBounded
  <2>r. Recent \in SUBSET (1..n) /\ Kept \in SUBSET Recent
    BY <2>t DEF Recent
  <2>c. /\ IsFiniteSet(Recent) /\ Cardinality(Recent) \in Nat
        /\ IsFiniteSet(Kept) /\ Cardinality(Kept) \in Nat /\ Cardinality(Kept) <= Cardinality(Recent)
    BY <2>t, <2>r, Positions
  \* A request moves on without touching the links.
  <2>m. ASSUME NEW r \in Asks, NEW a \in Ask, ask' = [ask EXCEPT ![r] = a],
               UNCHANGED <<clock, links>>, inbox' \in Nat,
               a.pc = "insert" => a.seen = n /\ Cardinality(Recent) < PerHour,
               \/ a.pc # "send" /\ ask[r].pc # "send" /\ inbox' = inbox
               \/ a.pc # "send" /\ ask[r].pc = "send" /\ inbox' \in {inbox, inbox + 1}
        PROVE  ask' \in [Asks -> Ask] /\ LinksInv'
    <3>1. /\ ask' \in [Asks -> Ask] /\ ask'[r] = a
          /\ \A o \in Asks \ {r} : ask'[o] = ask[o]
      BY <2>t, <2>m
    <3>2. Recent' = Recent /\ {i \in Recent' : ~links'[i].overtaken} = Kept
      BY <2>m DEF Recent
    <3>3. RoomIsKept'
      BY <2>i, <2>m, <2>t, <3>1, <3>2 DEF RoomIsKept
    <3>4. IsFiniteSet(Sending') /\ Cardinality(Sending') + inbox' <= n /\ Cardinality(Sending') \in Nat
      <4>1. CASE ask[r].pc # "send" /\ inbox' = inbox
        <5>1. Sending' = Sending
          BY <2>m, <3>1, <4>1 DEF Sending
        <5> QED
          BY <2>i, <4>1, <5>1
      <4>2. CASE ask[r].pc = "send" /\ inbox' \in {inbox, inbox + 1}
        <5>1. Sending' = Sending \ {r} /\ r \in Sending
          BY <2>m, <3>1, <4>2 DEF Sending
        <5>2. IsFiniteSet(Sending') /\ Cardinality(Sending') = Cardinality(Sending) - 1
          BY <2>i, <5>1, FS_RemoveElement
        <5>3. Cardinality(Sending') \in Nat
          BY <5>2, FS_CardinalityType
        <5> QED
          BY <2>i, <2>t, <4>2, <5>2, <5>3
      <4> QED
        BY <2>m, <4>1, <4>2
    <3>5. inbox' <= Len(links')
      BY <2>m, <2>t, <3>4
    <3> QED
      BY <2>i, <2>m, <3>1, <3>2, <3>3, <3>4, <3>5 DEF LinksInv, LinksAreBounded
  <2>p. ASSUME NEW r \in Asks, NEW pc \in AskPcs, Goto(r, pc)
        PROVE  \E a \in Ask : a.pc = pc /\ ask' = [ask EXCEPT ![r] = a]
    <3>1. ask[r] \in Ask
      BY <2>t
    <3>2. [ask[r] EXCEPT !.pc = pc] \in Ask /\ [ask[r] EXCEPT !.pc = pc].pc = pc
      BY <3>1 DEF Ask
    <3>3. ask' = [ask EXCEPT ![r] = [ask[r] EXCEPT !.pc = pc]]
      BY <2>p DEF Goto
    <3> QED
      BY <3>2, <3>3
  <2>q. {"policy", "count", "send", "done", "insert"} \subseteq AskPcs
    BY DEF AskPcs
  <2> DEFINE Goal == /\ clock' \in Nat /\ lastSweep' \in Nat /\ inbox' \in Nat
                     /\ ask' \in [Asks -> Ask]
                     /\ links' \in Seq(Link)
                     /\ LinksInv'
  <2>1. CASE Tick
    <3>1. clock' = clock + 1 /\ UNCHANGED <<lastSweep, ask, links, inbox>>
      BY <2>1 DEF Tick
    <3>2. Recent' \in SUBSET Recent /\ {i \in Recent' : ~links'[i].overtaken} \in SUBSET Kept
      BY <2>t, <3>1 DEF Recent
    <3>3. /\ Cardinality(Recent') <= Cardinality(Recent) /\ Cardinality(Recent') \in Nat
          /\ Cardinality({i \in Recent' : ~links'[i].overtaken}) <= Cardinality(Kept)
          /\ Cardinality({i \in Recent' : ~links'[i].overtaken}) \in Nat
      <4> HIDE DEF Kept
      <4> QED
        BY <2>c, <3>2, FS_Subset, FS_CardinalityType
    <3>4. Sending' = Sending
      BY <3>1 DEF Sending
    <3>5. RoomIsKept'
      BY <2>i, <2>t, <2>c, <3>1, <3>3 DEF RoomIsKept
    <3>6. Cardinality({i \in Recent' : ~links'[i].overtaken}) <= PerHour
      BY <2>i, <2>c, <2>t, <3>3
    <3> QED
      BY <2>i, <2>t, <3>1, <3>4, <3>5, <3>6 DEF LinksInv, LinksAreBounded
  <2>2. ASSUME NEW r \in Asks, NEW address \in Addresses, Arrive(r, address) PROVE Goal
    <3>1. /\ ask[r].pc = "new" /\ UNCHANGED <<clock, links, inbox>>
          /\ lastSweep' \in {clock, lastSweep}
      BY <2>2 DEF Arrive
    <3>2. Goto(r, "policy") \/ Goto(r, "done")
      BY <2>2, Arrival
    <3>3. PICK pc \in {"policy", "done"} : Goto(r, pc)
      BY <3>2
    <3>4. PICK a \in Ask : a.pc = pc /\ ask' = [ask EXCEPT ![r] = a]
      BY <2>p, <2>q, <3>3
    <3>5. a.pc # "insert" /\ a.pc # "send" /\ ask[r].pc # "send" /\ inbox' = inbox
      BY <3>1, <3>4
    <3>6. ask' \in [Asks -> Ask] /\ LinksInv'
      BY <2>m, <2>t, <3>1, <3>4, <3>5
    <3> QED
      BY <2>t, <3>1, <3>6
  <2>3. ASSUME NEW r \in Asks, Allow(r) PROVE Goal
    <3>1. ask[r].pc = "policy" /\ UNCHANGED <<clock, lastSweep, links, inbox>>
      BY <2>3 DEF Allow
    <3>2. PICK pc \in {"count", "done"} : Goto(r, pc)
      BY <2>3 DEF Allow
    <3>3. PICK a \in Ask : a.pc = pc /\ ask' = [ask EXCEPT ![r] = a]
      BY <2>p, <2>q, <3>2
    <3>4. a.pc # "insert" /\ a.pc # "send" /\ ask[r].pc # "send" /\ inbox' = inbox
      BY <3>1, <3>3
    <3>5. ask' \in [Asks -> Ask] /\ LinksInv'
      BY <2>m, <2>t, <3>1, <3>3, <3>4
    <3> QED
      BY <2>t, <3>1, <3>5
  <2>4. ASSUME NEW r \in Asks, CountLinks(r) PROVE Goal
    <3>1. ask[r].pc = "count" /\ UNCHANGED <<clock, lastSweep, links, inbox>>
      BY <2>4 DEF CountLinks
    <3>2. CASE Spent
      <4>1. Goto(r, "done")
        BY <2>4, <2>t, <3>2 DEF CountLinks, Goto
      <4>2. PICK a \in Ask : a.pc = "done" /\ ask' = [ask EXCEPT ![r] = a]
        BY <2>p, <2>q, <4>1
      <4>3. ask' \in [Asks -> Ask] /\ LinksInv'
        BY <2>m, <2>t, <3>1, <4>2
      <4> QED
        BY <2>t, <3>1, <4>3
    <3>3. CASE ~Spent
      <4> DEFINE a == [pc |-> "insert", seen |-> n]
      <4>1. ask' = [ask EXCEPT ![r] = a]
        BY <2>4, <3>3 DEF CountLinks
      <4>2. Cardinality(Recent) < PerHour
        BY <2>c, <2>t, <3>3 DEF Spent
      <4>3. a \in Ask /\ a.pc = "insert" /\ a.seen = n
        BY <2>t, <2>q DEF Ask
      <4> HIDE DEF a
      <4>4. ask' \in [Asks -> Ask] /\ LinksInv'
        BY <2>m, <2>t, <3>1, <4>1, <4>2, <4>3
      <4> QED
        BY <2>t, <3>1, <4>4
    <3> QED
      BY <3>2, <3>3
  <2>5. ASSUME NEW r \in Asks, InsertLink(r) PROVE Goal
    <3> DEFINE link == [at |-> clock, overtaken |-> ask[r].seen # n]
    <3>1. /\ ask[r].pc = "insert" /\ links' = Append(links, link)
          /\ UNCHANGED <<clock, lastSweep, inbox>>
      BY <2>5 DEF InsertLink
    <3>2. PICK a \in Ask : a.pc = "send" /\ ask' = [ask EXCEPT ![r] = a]
      BY <2>5, <2>p, <2>q DEF InsertLink
    <3>3. link \in Link
      BY <2>t DEF Link
    <3>4. /\ links' \in Seq(Link)
          /\ Len(links') = n + 1 /\ DOMAIN links' = 1..(n + 1) /\ links'[n + 1] = link
          /\ \A i \in 1..n : links'[i] = links[i]
      <4> HIDE DEF link
      <4> QED
        BY <2>t, <3>1, <3>3
    <3>5. /\ ask' \in [Asks -> Ask] /\ ask'[r] = a
          /\ \A o \in Asks \ {r} : ask'[o] = ask[o]
      BY <2>t, <3>2
    <3>6. link.at = clock /\ (link.overtaken <=> ask[r].seen # n)
      OBVIOUS
    <3> HIDE DEF link
    <3>7. Recent' = Recent \cup {n + 1}
      BY <2>t, <3>1, <3>4, <3>6 DEF Recent
    <3>8. {i \in Recent' : ~links'[i].overtaken} =
            IF ask[r].seen = n THEN Kept \cup {n + 1} ELSE Kept
      BY <2>t, <2>r, <3>4, <3>6, <3>7
    <3>9. Cardinality({i \in Recent' : ~links'[i].overtaken}) <= PerHour
      <4>1. CASE ask[r].seen = n
        <5>1. Cardinality(Recent) < PerHour
          BY <2>i, <3>1, <4>1 DEF RoomIsKept
        <5>2. n + 1 \notin Kept
          BY <2>t, <2>r
        <5>3. Cardinality(Kept \cup {n + 1}) = Cardinality(Kept) + 1
          <6> HIDE DEF Kept
          <6> QED
            BY <2>c, <5>2, FS_AddElement
        <5>5. {i \in Recent' : ~links'[i].overtaken} = Kept \cup {n + 1}
          BY <3>8, <4>1
        <5> HIDE DEF Kept
        <5> QED
          <6>1. Cardinality(Kept) + 1 <= PerHour
            BY <2>c, <2>t, <5>1
          <6> QED
            BY <5>3, <5>5, <6>1
      <4>2. CASE ask[r].seen # n
        BY <2>i, <3>8, <4>2
      <4> QED
        BY <4>1, <4>2
    <3>10. RoomIsKept'
      <4>1. ASSUME NEW o \in Asks, ask'[o].pc = "insert"
            PROVE  ask'[o].seen <= n /\ ask'[o].seen \in Nat
        <5>1. o # r /\ ask'[o] = ask[o]
          BY <3>2, <3>5, <4>1
        <5>2. ask[o].seen \in Nat
          BY <2>t DEF Ask
        <5> QED
          BY <2>i, <4>1, <5>1, <5>2 DEF RoomIsKept
      <4>2. \A o \in Asks : ask'[o].pc = "insert" => ask'[o].seen <= n + 1 /\ ask'[o].seen # n + 1
        BY <2>t, <4>1
      <4> QED
        BY <3>4, <4>2 DEF RoomIsKept
    <3>11. /\ IsFiniteSet(Sending') /\ Cardinality(Sending') + inbox' <= Len(links')
           /\ inbox' <= Len(links')
      <4>1. Sending' = Sending \cup {r} /\ r \notin Sending
        BY <3>1, <3>2, <3>5 DEF Sending
      <4>2. IsFiniteSet(Sending') /\ Cardinality(Sending') = Cardinality(Sending) + 1
        BY <2>i, <4>1, FS_AddElement
      <4> QED
        BY <2>i, <2>t, <3>1, <3>4, <4>2
    <3> QED
      BY <2>t, <3>1, <3>4, <3>5, <3>9, <3>10, <3>11 DEF LinksInv, LinksAreBounded
  <2>6. ASSUME NEW r \in Asks, Send(r) PROVE Goal
    <3>1. /\ ask[r].pc = "send" /\ UNCHANGED <<clock, lastSweep, links>>
          /\ inbox' \in {inbox, inbox + 1} /\ Goto(r, "done")
      BY <2>6 DEF Send
    <3>2. inbox' \in Nat
      BY <2>t, <3>1
    <3>3. PICK a \in Ask : a.pc = "done" /\ ask' = [ask EXCEPT ![r] = a]
      BY <2>p, <2>q, <3>1
    <3>4. ask' \in [Asks -> Ask] /\ LinksInv'
      BY <2>m, <2>t, <3>1, <3>2, <3>3
    <3> QED
      BY <2>t, <3>1, <3>2, <3>4
  <2> QED
    BY <2>1, <2>2, <2>3, <2>4, <2>5, <2>6 DEF MailNext
<1>1. OfficeInit => MailInv
  <2> SUFFICES ASSUME OfficeInit PROVE MailInv
    OBVIOUS
  <2>1. MailIdle
    BY DEF OfficeInit
  <2>2. NoBucket \in Bucket /\ NoBucket.resetAt = 0
        /\ Waiting \in Ask /\ Waiting.pc = "new"
    BY DEF NoBucket, Waiting, AskPcs, Bucket, Ask
  <2>3. MailTypeOK
    BY <2>1, <2>2 DEF MailIdle, MailTypeOK, Windows
  <2>4. LinksInv
    <3>1. Recent = {} /\ {i \in Recent : ~links[i].overtaken} = {} /\ Sending = {}
      BY <2>1, <2>2 DEF MailIdle, Recent, Sending
    <3> QED
      BY <2>1, <2>2, <3>1, FS_EmptySet, LimiterAssumption
         DEF MailIdle, LinksInv, RoomIsKept, LinksAreBounded
  <2>5. Tallied
    <3>1. \A a, lo, hi : Got(admitted, a, lo, hi) = {}
      BY <2>1 DEF MailIdle, Got
    <3>2. \A name \in Range(Limiters), a \in Addresses : <<name, a>> \in Keys /\ RateLimit[name] \in Nat
      BY LimiterAssumption DEF Keys, Range
    <3>3. ASSUME NEW name \in Range(Limiters), NEW a \in Addresses
          PROVE  Fits(NoBucket, admitted, 0, a, RateLimit[name])
      <4>1. \A lo, hi : Got(admitted, a, lo, hi) = {}
        BY <3>1
      <4>3. Cardinality({}) <= RateLimit[name]
        <5>1. RateLimit[name] \in Nat /\ Cardinality({}) = 0
          BY <3>2, FS_EmptySet
        <5> QED
          BY <5>1
      <4>2. NoBucket.resetAt <= 0 + Window /\ ~(NoBucket.resetAt > 0)
        BY <2>2, LimiterAssumption
      <4> QED
        BY <4>1, <4>2, <4>3 DEF Fits
    <3>4. \A name \in Range(Limiters), a \in Addresses : buckets[<<name, a>>] = NoBucket
      BY <2>1, <3>2 DEF MailIdle
    <3>5. clock = 0 /\ admitted = <<>>
      BY <2>1 DEF MailIdle
    <3> QED
      BY <3>3, <3>4, <3>5 DEF Tallied
  <2>6. Reported
    <3>1. \A name \in Range(Limiters), a \in Addresses : <<name, a>> \in Keys
      BY DEF Keys
    <3> QED
      BY <2>1, <2>2, <3>1 DEF MailIdle, Reported, RefusalsAreReportedOnce, Range, IsInjective
  <2> QED
    BY <2>3, <2>4, <2>5, <2>6 DEF MailInv
<1>2. MailInv /\ [OfficeNext]_officeVars => MailInv'
  <2> SUFFICES ASSUME MailInv, [OfficeNext]_officeVars PROVE MailInv'
    OBVIOUS
  <2> USE DEF MailInv
  <2>1. CASE UNCHANGED mailVars
    BY <2>1 DEF mailVars, MailTypeOK, LinksInv, RoomIsKept, LinksAreBounded, Sending, Recent,
                Tallied, Got, Reported, RefusalsAreReportedOnce
  <2>2. CASE MailNext
    <3>1. /\ clock' \in Nat /\ lastSweep' \in Nat /\ inbox' \in Nat
          /\ ask' \in [Asks -> Ask]
          /\ links' \in Seq(Link)
          /\ LinksInv'
      BY <2>2, <1>l
    <3>2. CASE UNCHANGED <<clock, buckets, admitted, refusals, events>>
      BY <3>1, <3>2 DEF MailTypeOK, Tallied, Got, Reported, RefusalsAreReportedOnce
    <3>3. CASE Tick
      <4>1. clock' = clock + 1 /\ UNCHANGED <<buckets, admitted, refusals, events>>
        BY <3>3 DEF Tick
      <4>2. Tallied'
        BY <3>3, <1>t
      <4>3. /\ \A w \in refusals : w[3] > clock + 1 => w[3] > clock
            /\ \A name \in Range(Limiters), a \in Addresses :
                 buckets[<<name, a>>].resetAt > clock + 1 => buckets[<<name, a>>].resetAt > clock
        <5>1. clock \in Nat /\ \A w \in refusals : w[3] \in Nat
          BY DEF MailTypeOK, Windows
        <5>2. \A name \in Range(Limiters), a \in Addresses : buckets[<<name, a>>].resetAt \in Nat
          BY DEF MailTypeOK, Keys, Bucket
        <5> QED
          BY <5>1, <5>2
      <4>4. Reported'
        BY <4>1, <4>3 DEF Reported, RefusalsAreReportedOnce
      <4> QED
        BY <3>1, <4>1, <4>2, <4>4 DEF MailTypeOK
    <3>4. ASSUME NEW r \in Asks, NEW address \in Addresses, Arrive(r, address) PROVE MailInv'
      <4>1. /\ Tallied' /\ Reported' /\ refusals' \subseteq Windows /\ events' \in Seq(Windows)
            /\ buckets' \in [Keys -> Bucket]
        BY <3>4, <1>t, <1>r, Arrival
      <4>2. admitted' \in Seq(Admission)
        <5>1. [address |-> address, at |-> clock] \in Admission
          BY DEF MailTypeOK, Admission
        <5>2. \/ admitted' = admitted
              \/ admitted' = Append(admitted, [address |-> address, at |-> clock])
          BY <3>4, Arrival
        <5> PICK e \in Admission : e = [address |-> address, at |-> clock]
          BY <5>1
        <5>3. admitted' = admitted \/ admitted' = Append(admitted, e)
          BY <5>2
        <5>4. admitted \in Seq(Admission)
          BY DEF MailTypeOK
        <5> QED
          BY <5>3, <5>4
      <4> QED
        BY <3>1, <4>1, <4>2 DEF MailTypeOK, Bucket
    <3> QED
      BY <2>2, <3>2, <3>3, <3>4 DEF MailNext, Allow, CountLinks, InsertLink, Send
  <2> QED
    BY <2>1, <2>2 DEF OfficeNext, officeVars, Administer, AskForLinks, AskForArchive
\* At most two windows of a limiter reach into the last one's length.
<1>3. MailInv => MailIsBounded
  <2> SUFFICES ASSUME MailInv PROVE MailIsBounded
    OBVIOUS
  <2>1. ASSUME NEW a \in Addresses, NEW name \in Range(Limiters)
        PROVE  Cardinality({i \in DOMAIN admitted : /\ admitted[i].address = a
                                                    /\ admitted[i].at > clock - Window})
                 <= 2 * RateLimit[name]
    <3> DEFINE n == Len(admitted)
               b == buckets[<<name, a>>]
               S == {i \in DOMAIN admitted : /\ admitted[i].address = a
                                             /\ admitted[i].at > clock - Window}
               L == RateLimit[name]
    <3>1. /\ n \in Nat /\ DOMAIN admitted = 1..n /\ clock \in Nat /\ Window \in Nat /\ Window > 0
          /\ \A i \in 1..n : admitted[i].at \in Nat /\ admitted[i].at <= clock
          /\ L \in Nat /\ b.resetAt \in Nat
      <4>1. n \in Nat /\ DOMAIN admitted = 1..n /\ \A i \in 1..n : admitted[i] \in Admission
        BY DEF MailInv, MailTypeOK
      <4>2. \A i \in 1..n : admitted[i].at \in Nat
        BY <4>1 DEF Admission
      <4>3. \A i \in 1..n : admitted[i].at <= clock
        BY <4>1 DEF MailInv, Tallied
      <4>4. L \in Nat
        BY LimiterAssumption DEF Range
      <4>5. b.resetAt \in Nat
        BY DEF MailInv, MailTypeOK, Keys, Bucket
      <4>6. clock \in Nat
        BY DEF MailInv, MailTypeOK
      <4>7. Window \in Nat /\ Window > 0
        BY LimiterAssumption
      <4> HIDE DEF n, b, L
      <4> QED
        BY <4>1, <4>2, <4>3, <4>4, <4>5, <4>6, <4>7
    <3>2. \A lo, hi : Got(admitted, a, lo, hi) \in SUBSET (1..n)
      BY <3>1 DEF Got
    <3>3. CASE b.resetAt <= clock
      <4>1. S = Got(admitted, a, clock - Window + 1, clock + 1)
        BY <3>1 DEF Got
      <4>2. Cardinality(S) <= L /\ Cardinality(S) \in Nat
        <5>1. Cardinality(Got(admitted, a, clock - Window + 1, clock + 1)) <= L
          BY <3>3 DEF MailInv, Tallied, Fits
        <5> HIDE DEF S
        <5> QED
          BY <3>1, <3>2, <4>1, <5>1, Positions
      <4> HIDE DEF S, L
      <4> QED
        BY <3>1, <4>2 DEF S, L
    <3>4. CASE b.resetAt > clock
      <4> DEFINE A == Got(admitted, a, b.resetAt - Window, clock + 1)
                 B == Got(admitted, a, b.resetAt - 2 * Window + 1, b.resetAt - Window)
      <4>1. Cardinality(A) <= L /\ Cardinality(B) <= L /\ b.resetAt <= clock + Window
        BY <3>4 DEF MailInv, Tallied, Fits
      <4>2. S \in SUBSET (A \cup B) /\ A \cup B \in SUBSET (1..n) /\ A \cap B \in SUBSET (1..n)
        <5>1. ASSUME NEW i \in S PROVE i \in A \/ i \in B
          <6>1. /\ i \in DOMAIN admitted /\ admitted[i].address = a /\ admitted[i].at > clock - Window
                /\ admitted[i].at \in Nat /\ admitted[i].at < clock + 1
            BY <3>1
          <6>2. CASE b.resetAt - Window <= admitted[i].at
            BY <6>1, <6>2 DEF Got
          <6>3. CASE ~(b.resetAt - Window <= admitted[i].at)
            <7>1. admitted[i].at < b.resetAt - Window /\ b.resetAt - 2 * Window + 1 <= admitted[i].at
              <8> PICK t \in Nat : t = b.resetAt
                BY <3>1
              <8>1. t <= clock + Window /\ clock \in Nat /\ Window \in Nat
                BY <3>1, <4>1
              <8> QED
                BY <6>1, <6>3, <8>1
            <7> QED
              BY <6>1, <7>1 DEF Got
          <6> QED
            BY <6>2, <6>3
        <5>2. A \in SUBSET (1..n) /\ B \in SUBSET (1..n)
          BY <3>2
        <5> HIDE DEF A, B, S
        <5> QED
          BY <5>1, <5>2
      <4> HIDE DEF A, B, S, L
      <4>3. A \in SUBSET (1..n) /\ B \in SUBSET (1..n)
        BY <4>2
      <4>4. /\ IsFiniteSet(A) /\ IsFiniteSet(B) /\ Cardinality(A) \in Nat /\ Cardinality(B) \in Nat
            /\ Cardinality(A \cap B) \in Nat
        BY <3>1, <4>2, <4>3, Positions
      <4>5. Cardinality(A \cup B) = Cardinality(A) + Cardinality(B) - Cardinality(A \cap B)
        BY <4>4, FS_Union
      <4>6. Cardinality(S) <= Cardinality(A \cup B) /\ Cardinality(S) \in Nat
            /\ Cardinality(A \cup B) \in Nat
        BY <3>1, <4>2, Positions
      <4> QED
        BY <3>1, <4>1, <4>4, <4>5, <4>6 DEF S, L
    <3> QED
      BY <3>1, <3>3, <3>4
  <2> QED
    BY <2>1 DEF MailInv, LinksInv, Reported, MailIsBounded, BurstsAreBounded
<1> QED
  BY <1>1, <1>2, <1>3, PTL DEF OfficeSpec, officeVars

-----------------------------------------------------------------------------
(* The archive.                                                             *)

(* Whatever others write, delete, seal, purge or erase between the cursors'     *)
(* snapshots and their batches, and wherever the request breaks off, what was   *)
(* disclosed is on record and an archive called complete is whole (export.js). *)
THEOREM ArchiveIsHonest == OfficeSpec => []ExportIsHonest
\* What a cursor on deals reads is the rows of its snapshot, in their order.
<1>ro. ASSUME ExportTypeOK, RowsStand
       PROVE  /\ Rows \in Seq(DealRow) /\ InOrder(Rows)
              /\ \A i \in DOMAIN Rows : /\ Rows[i].id \in Present(deals)
                                        /\ Rows[i].author = deals[Rows[i].id].author
  <2> USE <1>ro
  <2> DEFINE T == Present(deals)
             m == Cardinality(T)
             at(i) == CHOOSE x \in T : Cardinality({y \in T : y < x}) = i - 1
             row(i) == [id |-> at(i), author |-> deals[at(i)].author, sealed |-> deals[at(i)].sealed]
  <2>1. /\ T \subseteq DealIds /\ T \subseteq Int /\ IsFiniteSet(T) /\ m \in Nat
        /\ \A d \in T : deals[d].author \in People /\ deals[d].sealed \in BOOLEAN
    <3>1. T \subseteq DealIds
      BY DEF Present
    <3>2. \A d \in T : deals[d].author \in People /\ deals[d].sealed \in BOOLEAN
      BY <3>1 DEF ExportTypeOK, StoredRow, RowsStand
    <3> HIDE DEF T
    <3>3. IsFiniteSet(T)
      BY <3>1, FS_Subset, ExportAssumption
    <3>4. DealIds \subseteq Int
      BY ExportAssumption
    <3> QED
      BY <3>1, <3>2, <3>3, <3>4, FS_CardinalityType
  <2>p. /\ \A i \in 1..Cardinality(T) : \E x \in T : Cardinality({y \in T : y < x}) = i - 1
        /\ \A x, z \in T :
             Cardinality({y \in T : y < x}) < Cardinality({y \in T : y < z}) => x < z
    <3> HIDE DEF T
    <3> QED
      BY <2>1, Places
  <2>2. ASSUME NEW i \in 1..m
        PROVE  at(i) \in T /\ Cardinality({y \in T : y < at(i)}) = i - 1
    <3> HIDE DEF T
    <3>1. \E x \in T : Cardinality({y \in T : y < x}) = i - 1
      BY <2>p
    <3> QED
      BY <3>1
  <2>3. Rows = [i \in 1..m |-> row(i)]
    BY DEF Rows
  <2> HIDE DEF T, at
  <2>4. ASSUME NEW i \in 1..m
        PROVE  row(i) \in DealRow /\ row(i).id = at(i) /\ row(i).author = deals[at(i)].author
    BY <2>1, <2>2 DEF DealRow
  <2> HIDE DEF row
  <2>5. /\ Rows \in [1..m -> DealRow] /\ DOMAIN Rows = 1..m
        /\ \A i \in 1..m : Rows[i] = row(i)
    BY <2>3, <2>4
  <2>6. Rows \in Seq(DealRow)
    BY <2>1, <2>5, SeqDef
  <2>7. ASSUME NEW i \in 1..m, NEW j \in 1..m, i < j PROVE at(i) < at(j)
    <3>1. i - 1 < j - 1
      BY <2>1, <2>7
    <3> QED
      BY <2>p, <2>2, <3>1
  <2>8. InOrder(Rows)
    BY <2>4, <2>5, <2>7 DEF InOrder
  <2>9. \A i \in 1..m : Rows[i].id \in T /\ Rows[i].author = deals[Rows[i].id].author
    BY <2>2, <2>4, <2>5
  <2> QED
    BY <2>5, <2>6, <2>8, <2>9 DEF T
\* Each of the others' steps and of the request's keeps the invariant.
<1>s. ASSUME ExportInv, ExportNext
      PROVE  ExportInv'
  <2> USE <1>s
  <2>t. /\ erased \in BOOLEAN /\ exposed \in BOOLEAN /\ deals \in [DealIds -> StoredRow]
        /\ users \subseteq People /\ log \subseteq DealIds \cup {Exported}
        /\ export \in Reading /\ archive \in Archived
    BY DEF ExportInv, ExportTypeOK
  <2>i. RowsStand /\ CursorsAgree /\ SentInOrder /\ DisclosureIsRecorded
    BY DEF ExportInv
  <2>e. /\ export.pc \in ExportPcs /\ export.section \in 1..3 /\ export.key \in KeyStates
        /\ export.deals \in Seq(DealRow)
        /\ export.users \subseteq People /\ export.log \subseteq DealIds \cup {Exported}
    BY <2>t DEF Reading
  <2>a. /\ archive.deals \in Seq(SentRow) /\ archive.users \subseteq People
        /\ archive.log \subseteq DealIds \cup {Exported} /\ archive.complete \in BOOLEAN
    BY <2>t DEF Archived
  <2>z. NoDeal \in StoredRow
    BY DEF NoDeal, StoredRow
  \* What others do meanwhile takes nothing from the trail, and nobody from the
  \* users of a firm that is not erased.
  <2>w. ASSUME UNCHANGED <<export, archive, exposed>>, log \subseteq log', erased' \in BOOLEAN,
               erased => erased', users \subseteq users' \/ erased'
        PROVE  CursorsAgree' /\ SentInOrder' /\ DisclosureIsRecorded'
    <3>1. CursorsAgree'
      BY <2>w, <2>i DEF CursorsAgree
    <3>2. SentInOrder'
      BY <2>w, <2>i DEF SentInOrder, Excused
    <3>3. DisclosureIsRecorded'
      BY <2>w, <2>i DEF DisclosureIsRecorded
    <3> QED
      BY <3>1, <3>2, <3>3
  <2>1. ASSUME NEW p \in People, Join(p) PROVE ExportInv'
    <3>1. users' = users \cup {p} /\ UNCHANGED <<deals, log, erased, export, archive, exposed>>
      BY <2>1 DEF Join
    <3>2. ExportTypeOK'
      BY <2>t, <3>1 DEF ExportTypeOK
    <3>3. RowsStand'
      BY <2>i, <3>1 DEF RowsStand, Present
    <3> QED
      BY <2>t, <2>w, <3>1, <3>2, <3>3 DEF ExportInv
  <2>2. ASSUME NEW d \in DealIds, NEW p \in People, Create(d, p) PROVE ExportInv'
    <3> DEFINE row == [author |-> p, sealed |-> TRUE, deleted |-> FALSE]
    <3>1. /\ p \in users /\ deals' = [deals EXCEPT ![d] = row] /\ log' = log \cup {d}
          /\ UNCHANGED <<users, erased, export, archive, exposed>>
      BY <2>2 DEF Create
    <3>2. row \in StoredRow /\ row.author = p
      BY DEF StoredRow
    <3> HIDE DEF row
    <3>3. deals' \in [DealIds -> StoredRow] /\ deals'[d] = row /\ \A e \in DealIds \ {d} : deals'[e] = deals[e]
      BY <2>t, <3>1, <3>2
    <3>4. ExportTypeOK'
      BY <2>t, <3>1, <3>3 DEF ExportTypeOK
    <3>5. RowsStand'
      BY <2>i, <3>1, <3>2, <3>3 DEF RowsStand, Present
    <3> QED
      BY <2>t, <2>w, <3>1, <3>4, <3>5 DEF ExportInv
  <2>3. ASSUME NEW d \in DealIds, SoftDelete(d) \/ Seal(d) \/ Purge(d) PROVE ExportInv'
    <3>1. UNCHANGED <<users, log, erased, export, archive, exposed>>
      BY <2>3 DEF SoftDelete, Seal, Purge
    <3>2. PICK row \in StoredRow :
            /\ deals' = [deals EXCEPT ![d] = row]
            /\ row = NoDeal \/ (deals[d] # NoDeal /\ row.author = deals[d].author)
      <4>1. deals[d] \in StoredRow
        BY <2>t
      <4>2. CASE SoftDelete(d)
        <5>1. [deals[d] EXCEPT !.deleted = TRUE] \in StoredRow
              /\ [deals[d] EXCEPT !.deleted = TRUE].author = deals[d].author
          BY <4>1 DEF StoredRow
        <5> QED
          BY <4>2, <5>1 DEF SoftDelete
      <4>3. CASE Seal(d)
        <5>1. [deals[d] EXCEPT !.sealed = TRUE] \in StoredRow
              /\ [deals[d] EXCEPT !.sealed = TRUE].author = deals[d].author
          BY <4>1 DEF StoredRow
        <5> QED
          BY <4>3, <5>1 DEF Seal
      <4>4. CASE Purge(d)
        BY <2>z, <4>4 DEF Purge
      <4> QED
        BY <2>3, <4>2, <4>3, <4>4
    <3>3. deals' \in [DealIds -> StoredRow] /\ deals'[d] = row /\ \A e \in DealIds \ {d} : deals'[e] = deals[e]
      BY <2>t, <3>2
    <3>4. ExportTypeOK'
      BY <2>t, <3>1, <3>3 DEF ExportTypeOK
    <3>5. RowsStand'
      BY <2>i, <3>1, <3>2, <3>3 DEF RowsStand, Present
    <3> QED
      BY <2>t, <2>w, <3>1, <3>4, <3>5 DEF ExportInv
  <2>4. ASSUME Offboard PROVE ExportInv'
    <3>1. /\ deals' = [d \in DealIds |-> NoDeal] /\ users' = {} /\ erased' = TRUE
          /\ UNCHANGED <<log, export, archive, exposed>>
      BY <2>4 DEF Offboard
    <3>2. ExportTypeOK'
      BY <2>t, <2>z, <3>1 DEF ExportTypeOK
    <3>3. RowsStand'
      BY <3>1 DEF RowsStand, Present
    <3> QED
      BY <2>t, <2>w, <3>1, <3>2, <3>3 DEF ExportInv
  \* The request changes only what it has read and sent, after its record.
  <2>r. ASSUME UNCHANGED <<deals, users, erased>>, log \subseteq log', log' \subseteq DealIds \cup {Exported},
               exposed' \in BOOLEAN, export' \in Reading, archive' \in Archived,
               CursorsAgree', SentInOrder', DisclosureIsRecorded'
        PROVE  ExportInv'
    <3>1. ExportTypeOK'
      BY <2>t, <2>r DEF ExportTypeOK
    <3>2. RowsStand'
      BY <2>i, <2>r DEF RowsStand, Present
    <3> QED
      BY <2>r, <3>1, <3>2 DEF ExportInv
  <2>5. ASSUME Record PROVE ExportInv'
    <3>1. /\ export.pc = "idle" /\ log' = log \cup {Exported} /\ export' = [export EXCEPT !.pc = "declare"]
          /\ UNCHANGED <<deals, users, erased, archive, exposed>>
      BY <2>5 DEF Record
    <3>2. export.deals = <<>> /\ export.section = 1 /\ export.key = "unasked" /\ archive.deals = <<>>
          /\ archive.complete = FALSE
      BY <2>a, <2>i, <3>1 DEF CursorsAgree, SentInOrder, Excused, NotStarted
    <3>3. /\ export' \in Reading /\ export'.pc = "declare" /\ export'.deals = <<>>
          /\ export'.section = 1 /\ export'.key = "unasked"
      BY <2>t, <3>1, <3>2 DEF Reading, ExportPcs
    <3>4. CursorsAgree'
      BY <3>1, <3>3 DEF CursorsAgree
    <3>5. SentInOrder'
      BY <3>1, <3>2, <3>3 DEF SentInOrder, Excused, InOrder
    <3> QED
      BY <2>i, <2>r, <2>t, <3>1, <3>3, <3>4, <3>5 DEF DisclosureIsRecorded
  \* Opening a cursor.
  <2>6. ASSUME Declare PROVE ExportInv'
    <3>1. export.pc = "declare" /\ UNCHANGED <<deals, users, log, erased, archive, exposed>>
      BY <2>6 DEF Declare
    <3>2. archive.deals = <<>> /\ archive.complete = FALSE /\ Exported \in log
          /\ (export.key = "destroyed" => erased)
      BY <2>a, <2>i, <3>1 DEF CursorsAgree, SentInOrder, Excused
    <3>3. DisclosureIsRecorded'
      BY <2>i, <3>1 DEF DisclosureIsRecorded
    <3>4. CASE export.section = 1
      <4>1. export' = [export EXCEPT !.deals = Rows, !.section = 2]
        BY <2>6, <3>4 DEF Declare
      <4>2. /\ Rows \in Seq(DealRow) /\ InOrder(Rows)
            /\ \A i \in DOMAIN Rows : /\ Rows[i].id \in Present(deals)
                                      /\ Rows[i].author = deals[Rows[i].id].author
        BY <1>ro DEF ExportInv
      <4>3. /\ export' \in Reading /\ export'.pc = "declare" /\ export'.section = 2
            /\ export'.deals = Rows /\ export'.key = export.key
        <5> DEFINE e == [export EXCEPT !.deals = Rows]
        <5>1. /\ e \in Reading /\ e.pc = "declare" /\ e.deals = Rows /\ e.key = export.key
          BY <2>t, <3>1, <4>2 DEF Reading
        <5>2. export' = [e EXCEPT !.section = 2]
          BY <2>t, <4>1 DEF Reading
        <5> HIDE DEF e
        <5>3. export' \in Reading
          BY <5>1, <5>2 DEF Reading
        <5> QED
          BY <5>1, <5>2, <5>3 DEF Reading
      <4>4. CursorsAgree'
        BY <2>i, <3>1, <3>2, <4>2, <4>3 DEF CursorsAgree, RowsStand
      <4>5. SentInOrder'
        BY <3>1, <3>2, <4>2, <4>3 DEF SentInOrder, Excused, InOrder
      <4> QED
        BY <2>r, <2>t, <3>1, <3>3, <4>3, <4>4, <4>5
    <3>5. CASE export.section = 2
      <4>1. export' = [export EXCEPT !.users = users, !.section = 3]
        BY <2>6, <3>5 DEF Declare
      <4>2. /\ export' \in Reading /\ export'.pc = "declare" /\ export'.section = 3
            /\ export'.deals = export.deals /\ export'.key = export.key /\ export'.users = users
        <5> DEFINE e == [export EXCEPT !.users = users]
        <5>1. /\ e \in Reading /\ e.pc = "declare" /\ e.deals = export.deals /\ e.key = export.key
              /\ e.users = users
          BY <2>t, <3>1 DEF Reading
        <5>2. export' = [e EXCEPT !.section = 3]
          BY <2>t, <4>1 DEF Reading
        <5> HIDE DEF e
        <5>3. export' \in Reading
          BY <5>1, <5>2 DEF Reading
        <5> QED
          BY <5>1, <5>2, <5>3 DEF Reading
      <4>3. CursorsAgree'
        BY <2>i, <3>1, <3>2, <3>5, <4>2 DEF CursorsAgree
      <4>4. SentInOrder'
        BY <2>i, <3>1, <3>2, <4>2 DEF SentInOrder, Excused, InOrder
      <4> QED
        BY <2>r, <2>t, <3>1, <3>3, <4>2, <4>3, <4>4
    <3>6. CASE export.section = 3
      <4>1. export' = [export EXCEPT !.log = log, !.section = 1, !.pc = "stream"]
        BY <2>6, <3>6 DEF Declare
      <4>2. /\ export' \in Reading /\ export'.pc = "stream" /\ export'.section = 1
            /\ export'.deals = export.deals /\ export'.key = export.key /\ export'.users = export.users
            /\ export'.log = log
        <5> DEFINE e == [export EXCEPT !.log = log]
                   f == [e EXCEPT !.section = 1]
        <5>1. /\ e \in Reading /\ e.deals = export.deals /\ e.key = export.key
              /\ e.users = export.users /\ e.log = log
          BY <2>t DEF Reading
        <5>3. export' = [f EXCEPT !.pc = "stream"]
          BY <2>t, <4>1 DEF Reading
        <5> HIDE DEF e
        <5>4. f \in Reading
          BY <5>1 DEF Reading
        <5>2. /\ f \in Reading /\ f.deals = export.deals /\ f.key = export.key
              /\ f.users = export.users /\ f.log = log /\ f.section = 1
          BY <5>1, <5>4 DEF Reading
        <5> HIDE DEF f
        <5> QED
          BY <5>2, <5>3 DEF Reading, ExportPcs
      <4>3. CursorsAgree'
        BY <2>i, <3>1, <3>2, <3>6, <4>2 DEF CursorsAgree
      <4>4. SentInOrder'
        BY <2>i, <3>1, <3>2, <4>2 DEF SentInOrder, Excused, InOrder
      <4> QED
        BY <2>r, <2>t, <3>1, <3>3, <4>2, <4>3, <4>4
    <3> QED
      BY <2>e, <3>4, <3>5, <3>6
  <2>s. \A k \in 1..3 : /\ Sections[k] = "deals" => k = 1
                        /\ Sections[k] = "users" => k = 2
                        /\ Sections[k] = "auditLog" => k = 3
    BY DEF Sections
  <2>7. ASSUME StreamDeals PROVE ExportInv'
    <3> DEFINE m == Len(export.deals)
               h == Len(archive.deals)
               n == IF m < Batch THEN m ELSE Batch
               batch == SubSeq(export.deals, 1, n)
    <3>1. /\ export.pc = "stream" /\ export.section = 1 /\ UNCHANGED <<deals, users, log, erased>>
      BY <2>7, <2>e, <2>s DEF StreamDeals
    <3>2. /\ m \in Nat /\ DOMAIN export.deals = 1..m /\ \A i \in 1..m : export.deals[i] \in DealRow
          /\ h \in Nat /\ DOMAIN archive.deals = 1..h
          /\ n \in Nat /\ n <= m /\ Exported \in log /\ archive.complete = FALSE
      BY <2>a, <2>e, <2>i, <3>1, ExportAssumption DEF CursorsAgree, SentInOrder, Excused
    <3>3. CASE n = 0
      <4>1. export' = [export EXCEPT !.section = 2] /\ UNCHANGED <<archive, exposed>>
        BY <2>7, <3>3 DEF StreamDeals
      <4>2. /\ export' \in Reading /\ export'.pc = "stream" /\ export'.section = 2
            /\ export'.deals = export.deals /\ export'.key = export.key /\ export'.users = export.users
            /\ export'.log = export.log
        BY <2>t, <3>1, <4>1 DEF Reading
      <4>3. CursorsAgree'
        BY <2>i, <3>1, <4>2 DEF CursorsAgree
      <4>4. SentInOrder'
        BY <2>i, <3>1, <3>2, <4>1, <4>2 DEF SentInOrder, Excused
      <4>5. DisclosureIsRecorded'
        BY <2>i, <3>1, <4>1 DEF DisclosureIsRecorded
      <4> QED
        BY <2>r, <2>t, <3>1, <4>1, <4>2, <4>3, <4>4, <4>5
    <3>4. CASE n # 0
      <4>1. PICK key \in AskForKey(batch) :
              /\ export' = [export EXCEPT !.key = key, !.deals = SubSeq(export.deals, n + 1, m)]
              /\ archive' = [archive EXCEPT !.deals =
                    archive.deals \o [i \in 1..n |-> DealRecord(batch[i], key)]]
              /\ exposed' = TRUE
        BY <2>7, <2>t, <3>4 DEF StreamDeals
      <4> DEFINE rest == SubSeq(export.deals, n + 1, m)
                 new == [i \in 1..n |-> DealRecord(batch[i], key)]
                 sent == archive.deals \o new
      <4>2. n \in 1..m /\ \A i \in 1..n : batch[i] = export.deals[i]
        BY <2>e, <3>2, <3>4
      <4>3. /\ rest \in Seq(DealRow) /\ Len(rest) = m - n /\ DOMAIN rest = 1..(m - n)
            /\ \A j \in 1..(m - n) : rest[j] = export.deals[n + j] /\ n + j \in 1..m /\ n + j > n
        <5>1. n + 1 \in Int /\ m \in Int /\ m - (n + 1) + 1 = m - n /\ (n + 1 <= m => m - n = m - (n + 1) + 1)
              /\ (~(n + 1 <= m) => m - n = 0)
          BY <3>2, <4>2
        <5>2. \A i \in (n + 1)..m : export.deals[i] \in DealRow
          BY <3>2, <4>2
        <5>3. /\ rest \in Seq(DealRow) /\ Len(rest) = IF n + 1 <= m THEN m - (n + 1) + 1 ELSE 0
              /\ \A j \in 1..(m - (n + 1) + 1) : rest[j] = export.deals[n + 1 + j - 1]
          <6> HIDE DEF m, n
          <6> QED
            BY <5>1, <5>2, SubSeqProperties
        <5>4. \A j \in 1..(m - n) : n + 1 + j - 1 = n + j /\ n + j \in 1..m /\ n + j > n
          BY <3>2, <4>2
        <5> HIDE DEF rest, m, n
        <5>5. Len(rest) = m - n /\ DOMAIN rest = 1..(m - n)
          BY <5>1, <5>3
        <5> QED
          BY <5>1, <5>3, <5>4, <5>5
      <4>4. /\ key \in KeyStates /\ (key = "destroyed" => erased)
            /\ (export.key = "unavailable" => key = "unavailable")
            /\ \A i \in 1..n : batch[i].sealed => key # "unasked"
        <5>1. export.key = "destroyed" => erased
          BY <2>i DEF SentInOrder, Excused
        <5>2. DOMAIN batch = 1..n
          BY <2>e, <3>2, <4>2
        <5>3. CASE export.key = "unasked" /\ \E i \in DOMAIN batch : batch[i].sealed
          BY <4>1, <5>3 DEF AskForKey, KeyAnswers, KeyStates
        <5>4. CASE ~(export.key = "unasked" /\ \E i \in DOMAIN batch : batch[i].sealed)
          <6>1. key = export.key
            BY <4>1, <5>4 DEF AskForKey
          <6> HIDE DEF batch, n
          <6> QED
            BY <2>e, <5>1, <5>2, <5>4, <6>1
        <5> QED
          BY <5>3, <5>4
      <4> HIDE DEF m, h, n, batch
      <4> DEFINE Reasoned(d) == /\ d.payloadError = "key_destroyed" => erased
                                /\ d.payloadError = "decrypt_failed" => d.id \in Spoilt
                                /\ d.payloadError = "key_unavailable" => key = "unavailable"
      <4>5. ASSUME NEW i \in 1..n
            PROVE  /\ new[i] \in SentRow /\ new[i].id = export.deals[i].id
                   /\ new[i].author = export.deals[i].author
                   /\ Reasoned(new[i])
        <5> PICK row \in DealRow : row = export.deals[i]
          BY <3>2, <4>2
        <5>1. row.id \in DealIds /\ row.author \in People /\ row.sealed \in BOOLEAN
          BY DEF DealRow
        <5>2. new[i] = DealRecord(row, key)
          BY <4>2
        <5>3. row.sealed => key # "unasked"
          BY <4>2, <4>4
        <5> HIDE DEF new
        <5>4. /\ new[i].id = row.id /\ new[i].author = row.author
              /\ new[i].payloadError = PayloadError(row, key)
          BY <5>2 DEF DealRecord
        <5>5. PayloadError(row, key) \in Reasons
          BY <5>1 DEF PayloadError, Reasons
        <5>6. new[i] \in SentRow
          BY <5>1, <5>2, <5>5 DEF DealRecord, SentRow
        <5>7. /\ PayloadError(row, key) = "key_destroyed" => key = "destroyed"
              /\ PayloadError(row, key) = "decrypt_failed" => row.id \in Spoilt
              /\ PayloadError(row, key) = "key_unavailable" => key = "unavailable"
          BY <4>4, <5>1, <5>3 DEF PayloadError, KeyStates
        <5> QED
          BY <4>4, <5>4, <5>6, <5>7
      <4>6. new \in Seq(SentRow) /\ Len(new) = n
        <5>1. new \in [1..n -> SentRow] /\ DOMAIN new = 1..n
          BY <4>5
        <5> HIDE DEF new
        <5>2. new \in Seq(SentRow)
          BY <3>2, <5>1, SeqDef
        <5> QED
          BY <3>2, <5>1, <5>2
      <4> HIDE DEF new
      <4>7. /\ sent \in Seq(SentRow) /\ DOMAIN sent = 1..(h + n)
            /\ \A i \in 1..h : sent[i] = archive.deals[i]
            /\ \A i \in 1..(h + n) : i > h => sent[i] = new[i - h] /\ i - h \in 1..n
        <5>1. /\ sent \in Seq(SentRow) /\ Len(sent) = h + n
              /\ \A i \in 1..(h + n) : sent[i] = IF i <= h THEN archive.deals[i] ELSE new[i - h]
          BY <2>a, <4>6, ConcatProperties DEF h
        <5> HIDE DEF sent
        <5>2. \A i \in 1..h : i \in 1..(h + n) /\ i <= h
          BY <3>2
        <5>3. \A i \in 1..(h + n) : i > h => ~(i <= h) /\ i - h \in 1..n
          BY <3>2
        <5>4. DOMAIN sent = 1..(h + n)
          BY <5>1
        <5> QED
          BY <5>1, <5>2, <5>3, <5>4
      <4>8. /\ export' \in Reading /\ export'.pc = "stream" /\ export'.section = 1
            /\ export'.deals = rest /\ export'.key = key /\ export'.users = export.users
            /\ export'.log = export.log
        <5> HIDE DEF rest
        <5> QED
          BY <2>t, <3>1, <4>1, <4>3, <4>4 DEF Reading, rest
      <4>9. /\ archive' \in Archived /\ archive'.deals = sent
            /\ archive'.complete = FALSE
        <5>1. archive' = [archive EXCEPT !.deals = sent]
          BY <4>1 DEF new, batch
        <5> HIDE DEF sent
        <5> QED
          BY <2>t, <3>2, <4>7, <5>1 DEF Archived
      <4> HIDE DEF rest, sent
      <4>10. \A i \in 1..m : LET d == export.deals[i] IN
               /\ d.id \in log /\ d.id \in export.log /\ (d.author \in export.users \/ erased)
               /\ d.id \in Nat
        <5>1. \A i \in 1..m : export.deals[i].id \in Nat
          BY <3>2, ExportAssumption DEF DealRow
        <5> QED
          BY <2>i, <3>1, <3>2, <5>1 DEF CursorsAgree
      <4>11. CursorsAgree'
        BY <3>1, <3>2, <4>3, <4>8, <4>10, <2>i DEF CursorsAgree
      <4>12. InOrder(rest)
        <5>1. ASSUME NEW i \in 1..(m - n), NEW j \in 1..(m - n), i < j PROVE rest[i].id < rest[j].id
          <6>1. n + i \in 1..m /\ n + j \in 1..m /\ n + i < n + j
            BY <3>2, <4>3, <5>1
          <6> QED
            BY <2>i, <3>2, <4>3, <6>1 DEF SentInOrder, Excused, InOrder
        <5> QED
          BY <4>3, <5>1 DEF InOrder
      \* Each of what has been sent was sent before, or is of this batch.
      <4>13. ASSUME NEW i \in 1..(h + n)
             PROVE  \/ i \in 1..h /\ sent[i] = archive.deals[i]
                    \/ i > h /\ i - h \in 1..n /\ i - h \in 1..m /\ sent[i] = new[i - h]
        BY <3>2, <4>2, <4>7
      <4>o. /\ \A i, j \in 1..m : i < j => export.deals[i].id < export.deals[j].id
            /\ \A i, j \in 1..h : i < j => archive.deals[i].id < archive.deals[j].id
            /\ \A i \in 1..h, j \in 1..m : archive.deals[i].id < export.deals[j].id
        BY <2>i, <3>2 DEF SentInOrder, Excused, InOrder
      <4>14. InOrder(sent)
        <5>1. ASSUME NEW i \in 1..(h + n), NEW j \in 1..(h + n), i < j PROVE sent[i].id < sent[j].id
          <6>1. CASE i \in 1..h /\ j \in 1..h
            BY <4>o, <4>7, <5>1, <6>1
          <6>2. CASE i \in 1..h /\ ~(j \in 1..h)
            <7>1. sent[i] = archive.deals[i] /\ j - h \in 1..n /\ j - h \in 1..m /\ sent[j] = new[j - h]
              BY <4>7, <4>13, <6>2
            <7> QED
              BY <4>o, <4>5, <6>2, <7>1
          <6>3. CASE ~(i \in 1..h)
            <7>1. /\ i - h \in 1..n /\ i - h \in 1..m /\ sent[i] = new[i - h]
                  /\ j - h \in 1..n /\ j - h \in 1..m /\ sent[j] = new[j - h] /\ i - h < j - h
              BY <3>2, <4>13, <5>1, <6>3
            <7> QED
              BY <4>o, <4>5, <7>1
          <6> QED
            BY <6>1, <6>2, <6>3
        <5> QED
          BY <4>7, <5>1 DEF InOrder
      <4>15. ASSUME NEW i \in 1..(h + n), NEW j \in 1..(m - n) PROVE sent[i].id < rest[j].id
        <5>1. rest[j] = export.deals[n + j] /\ n + j \in 1..m
          BY <4>3
        <5>2. CASE i \in 1..h
          BY <4>o, <4>7, <5>1, <5>2
        <5>3. CASE ~(i \in 1..h)
          <6>1. /\ i - h \in 1..n /\ i - h \in 1..m /\ sent[i] = new[i - h] /\ i - h < n + j
            BY <3>2, <4>3, <4>13, <5>3
          <6> QED
            BY <4>o, <4>5, <5>1, <6>1
        <5> QED
          BY <5>2, <5>3
      <4>16. ASSUME NEW i \in 1..(h + n)
             PROVE  /\ Reasoned(sent[i])
                    /\ sent[i].id \in export.log /\ (sent[i].author \in export.users \/ erased)
        <5>1. CASE i \in 1..h
          BY <2>i, <3>2, <4>4, <4>7, <5>1 DEF SentInOrder, Excused
        <5>2. CASE ~(i \in 1..h)
          <6>1. i - h \in 1..n /\ i - h \in 1..m /\ sent[i] = new[i - h]
            BY <4>13, <5>2
          <6> PICK k \in 1..n : k = i - h
            BY <6>1
          <6>2. /\ k \in 1..m /\ sent[i] = new[k] /\ new[k].id = export.deals[k].id
                /\ new[k].author = export.deals[k].author
                /\ Reasoned(new[k])
            BY <4>5, <6>1
          <6> QED
            BY <4>10, <6>2
        <5> QED
          BY <5>1, <5>2
      <4>17. SentInOrder'
        BY <3>1, <4>3, <4>4, <4>7, <4>8, <4>9, <4>12, <4>14, <4>15, <4>16 DEF SentInOrder, Excused
      <4>18. DisclosureIsRecorded'
        BY <3>1, <3>2 DEF DisclosureIsRecorded
      <4>19. exposed' \in BOOLEAN
        BY <4>1
      <4> QED
        BY <2>r, <2>t, <3>1, <4>8, <4>9, <4>11, <4>17, <4>18, <4>19
    <3> QED
      BY <3>3, <3>4
  <2>8. ASSUME StreamUsers PROVE ExportInv'
    <3>1. /\ export.pc = "stream" /\ export.section = 2 /\ UNCHANGED <<deals, users, log, erased>>
          /\ archive' = [archive EXCEPT !.users = export.users]
          /\ export' = [export EXCEPT !.section = 3]
          /\ exposed' = (exposed \/ export.users # {})
      BY <2>8, <2>e, <2>s DEF StreamUsers
    <3>2. /\ export' \in Reading /\ export'.pc = "stream" /\ export'.section = 3
          /\ export'.deals = export.deals /\ export'.key = export.key /\ export'.users = export.users
          /\ export'.log = export.log
      BY <2>t, <3>1 DEF Reading
    <3>3. archive.complete = FALSE /\ Exported \in log
      BY <2>a, <2>i, <3>1 DEF SentInOrder, Excused, CursorsAgree
    <3>4. /\ archive' \in Archived /\ archive'.deals = archive.deals /\ archive'.users = export.users
          /\ archive'.complete = FALSE
      BY <2>t, <2>e, <3>1, <3>3 DEF Archived
    <3>5. CursorsAgree'
      BY <2>i, <3>1, <3>2 DEF CursorsAgree
    <3>6. SentInOrder'
      BY <2>i, <3>1, <3>2, <3>4 DEF SentInOrder, Excused
    <3>7. DisclosureIsRecorded' /\ exposed' \in BOOLEAN
      BY <3>1, <3>3 DEF DisclosureIsRecorded
    <3> QED
      BY <2>r, <2>t, <3>1, <3>2, <3>4, <3>5, <3>6, <3>7
  <2>9. ASSUME StreamLog PROVE ExportInv'
    <3>1. /\ export.pc = "stream" /\ export.section = 3 /\ UNCHANGED <<deals, users, log, erased>>
          /\ archive' = [archive EXCEPT !.log = export.log, !.complete = TRUE]
          /\ export' = [export EXCEPT !.pc = "done"]
          /\ exposed' = (exposed \/ export.log # {})
      BY <2>9, <2>e, <2>s DEF StreamLog
    <3>2. /\ export' \in Reading /\ export'.pc = "done"
          /\ export'.deals = export.deals /\ export'.key = export.key /\ export'.users = export.users
          /\ export'.log = export.log
      BY <2>t, <3>1 DEF Reading, ExportPcs
    <3>3. /\ archive' \in Archived /\ archive'.deals = archive.deals /\ archive'.users = archive.users
          /\ archive'.log = export.log
      BY <2>t, <2>e, <3>1 DEF Archived
    <3>4. Exported \in log /\ Exported \in export.log /\ archive.users = export.users
      BY <2>i, <3>1 DEF CursorsAgree, SentInOrder, Excused
    <3>5. CursorsAgree'
      BY <2>i, <3>1, <3>2, <3>4 DEF CursorsAgree
    <3>6. SentInOrder'
      BY <2>i, <3>1, <3>2, <3>3, <3>4 DEF SentInOrder, Excused
    <3>7. DisclosureIsRecorded' /\ exposed' \in BOOLEAN
      BY <3>1, <3>4 DEF DisclosureIsRecorded
    <3> QED
      BY <2>r, <2>t, <3>1, <3>2, <3>3, <3>5, <3>6, <3>7
  <2>10. ASSUME Break PROVE ExportInv'
    <3>1. /\ export.pc \in {"declare", "stream"} /\ export' = [export EXCEPT !.pc = "done"]
          /\ UNCHANGED <<deals, users, log, erased, archive, exposed>>
      BY <2>10 DEF Break
    <3>2. /\ export' \in Reading /\ export'.pc = "done"
          /\ export'.deals = export.deals /\ export'.key = export.key /\ export'.users = export.users
          /\ export'.log = export.log
      BY <2>t, <3>1 DEF Reading, ExportPcs
    <3>3. archive.complete = FALSE /\ Exported \in log
      BY <2>a, <2>i, <3>1 DEF SentInOrder, Excused, CursorsAgree
    <3>4. CursorsAgree'
      BY <2>i, <3>1, <3>2, <3>3 DEF CursorsAgree
    <3>5. SentInOrder'
      BY <2>i, <3>1, <3>2, <3>3 DEF SentInOrder, Excused
    <3>6. DisclosureIsRecorded'
      BY <2>i, <3>1 DEF DisclosureIsRecorded
    <3> QED
      BY <2>r, <2>t, <3>1, <3>2, <3>4, <3>5, <3>6
  <2> QED
    BY <2>1, <2>2, <2>3, <2>4, <2>5, <2>6, <2>7, <2>8, <2>9, <2>10 DEF ExportNext
<1>1. OfficeInit => ExportInv
  <2> SUFFICES ASSUME OfficeInit PROVE ExportInv
    OBVIOUS
  <2>1. /\ export = NotStarted /\ archive = NoArchive /\ exposed = FALSE /\ erased = FALSE
        /\ users \subseteq People /\ deals \in [DealIds -> StoredRow]
        /\ log \subseteq DealIds \cup {Exported} /\ RowsStand
    <3>1. CASE ExportInit
      <4>1. PICK p \in users, sealed \in [DealIds -> {"none", "plain", "sealed"}] :
              /\ deals = [d \in DealIds |->
                    IF sealed[d] = "none" THEN NoDeal
                    ELSE [author |-> p, sealed |-> sealed[d] = "sealed", deleted |-> FALSE]]
              /\ log = Present(deals)
        BY <3>1 DEF ExportInit
      <4>2. users \subseteq People
        BY <3>1 DEF ExportInit
      <4>3. ASSUME NEW d \in DealIds
            PROVE  deals[d] \in StoredRow /\ (deals[d] # NoDeal => deals[d].author = p)
        BY <4>1, <4>2 DEF NoDeal, StoredRow
      <4>4. deals \in [DealIds -> StoredRow]
        BY <4>1, <4>3
      <4>5. RowsStand /\ log \subseteq DealIds
        BY <4>1, <4>3 DEF RowsStand, Present
      <4> QED
        BY <3>1, <4>2, <4>4, <4>5 DEF ExportInit
    <3>2. CASE ExportIdle
      BY <3>2 DEF ExportIdle, RowsStand, Present, NoDeal, StoredRow
    <3> QED
      BY <3>1, <3>2 DEF OfficeInit
  <2>2. /\ export.pc = "idle" /\ export.section = 1 /\ export.deals = <<>> /\ export.key = "unasked"
        /\ archive.deals = <<>> /\ archive.complete = FALSE
        /\ export \in Reading /\ archive \in Archived
    BY <2>1 DEF NotStarted, NoArchive, Reading, Archived, ExportPcs, KeyStates
  <2>3. ExportTypeOK
    BY <2>1, <2>2 DEF ExportTypeOK
  <2>4. CursorsAgree /\ SentInOrder /\ DisclosureIsRecorded
    BY <2>1, <2>2 DEF CursorsAgree, SentInOrder, Excused, InOrder, DisclosureIsRecorded
  <2> QED
    BY <2>1, <2>3, <2>4 DEF ExportInv
<1>2. ExportInv /\ [OfficeNext]_officeVars => ExportInv'
  <2> SUFFICES ASSUME ExportInv, [OfficeNext]_officeVars PROVE ExportInv'
    OBVIOUS
  <2>1. CASE ExportNext
    BY <2>1, <1>s
  <2>2. CASE UNCHANGED exportVars
    <3>1. UNCHANGED <<deals, users, log, erased, export, archive, exposed>>
      BY <2>2 DEF exportVars
    <3>2. ExportTypeOK' /\ RowsStand'
      BY <3>1 DEF ExportInv, ExportTypeOK, RowsStand, Present
    <3>3. CursorsAgree' /\ SentInOrder' /\ DisclosureIsRecorded'
      BY <3>1 DEF ExportInv, CursorsAgree, SentInOrder, Excused, DisclosureIsRecorded
    <3> QED
      BY <3>2, <3>3 DEF ExportInv
  <2> QED
    BY <2>1, <2>2 DEF OfficeNext, officeVars, Administer, AskForLinks, AskForArchive
<1>3. ExportInv => ExportIsHonest
  <2> SUFFICES ASSUME ExportInv PROVE ExportIsHonest
    OBVIOUS
  <2> QED
    BY DEF ExportInv, SentInOrder, Excused, InOrder, ExportIsHonest, ArchiveIsWhole
<1> QED
  BY <1>1, <1>2, <1>3, PTL DEF OfficeSpec, officeVars
=============================================================================
