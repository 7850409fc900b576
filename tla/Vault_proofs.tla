--------------------------- MODULE Vault_proofs ---------------------------
(***************************************************************************)
(* A sealed payload of Vault can be opened until its firm is erased, and   *)
(* never after; a deal holds the last write acknowledged until its         *)
(* destruction, which a committed record names.                            *)
(***************************************************************************)
EXTENDS Vault, TLAPS

Keyed == Reqs \cup {"backfill"}
Sealing(a) ==
  \/ tx[a].pc = "present"
  \/ tx[a].pc = "write" /\ (a = "backfill" \/ tx[a].kind # "DELETE")
Converting == tx["backfill"].pc \in {"key", "lock", "create", "write"}
Erasing == tx["offboard"].pc \in {"users", "shred", "material", "record"}

\* A key in hand is the committed one, or one its holder has inserted, and then
\* there is no committed one and no second holder.
KeyInv ==
  /\ \A a \in Actors : tx[a].key \in Keys =>
       tx[a].made = tx[a].key \/ tenantKey \in {tx[a].key, Destroyed}
  /\ \A a \in Actors : tx[a].made # NoKey =>
       /\ a \in Keyed /\ tx[a].pc \in {"write", "present", "commit"}
       /\ tx[a].made = tx[a].key /\ tenantKey = NoKey
  /\ \A a, b \in Actors : tx[a].made # NoKey /\ tx[b].made # NoKey => a = b
  /\ \A a \in Keyed : Sealing(a) => tx[a].key \in Keys
  /\ tx["offboard"].key \in Keys => tenantKey = tx["offboard"].key

\* Row locks: a locked row is there, no two transactions hold one, and what a
\* tool works on stays locked until its transaction ends.
LockInv ==
  /\ \A a \in Actors : \A d \in tx[a].locked : Exists(d)
  /\ \A a, b \in Actors : a # b => tx[a].locked \cap tx[b].locked = {}
  /\ tx["purge"].pc = "record" => tx["purge"].deal \subseteq tx["purge"].locked
  /\ Converting => DOMAIN batch = tx["backfill"].locked /\ DOMAIN batch # {}
  /\ Erasing => tx["offboard"].deal \subseteq tx["offboard"].locked

\* What offboarding has established after each of its statements.
EraseInv ==
  /\ tx["offboard"].pc \notin {"idle", "done"} => tenant = "live"
  /\ tenantKey = Destroyed => tenant = "offboarded"
  /\ \A r \in Reqs : tx[r].pc = "open" => tenantKey # NoKey
  /\ Erasing => \A d \in Deals : Exists(d) /\ deal[d].key = Plain => d \in tx["offboard"].deal
  /\ UsersLocked =>
       /\ \A d \in Deals : Exists(d) => d \in tx["offboard"].locked
       /\ \A r \in Reqs : ~SharesUser(r)
  /\ tx["offboard"].pc \in {"material", "record"} /\ tx["offboard"].key \notin Keys =>
       /\ \A d \in Deals : Exists(d) => deal[d].key = Plain
       /\ \A r \in Reqs : tx[r].pc # "open"
  /\ tenant = "offboarded" =>
       /\ NothingOpensAfterErasure
       /\ tenantKey = Destroyed \/ \A r \in Reqs : tx[r].pc # "open"
       /\ \A r \in Reqs : ~SharesUser(r)
       /\ ~Converting

----------------------------------------------------------------------------
(* What a step does to the transactions: one of them goes on, or starts     *)
(* afresh, and the others stay.                                             *)

Moves(a, pc, kind, ds, key, made, locked) ==
  /\ tx' \in [Actors -> Tx]
  /\ \A b \in Actors \ {a} : tx'[b] = tx[b]
  /\ tx'[a].pc = pc /\ tx'[a].kind = kind /\ tx'[a].deal = ds
  /\ tx'[a].key = key /\ tx'[a].made = made /\ tx'[a].locked = locked

ShredKey == IF tenantKey \in Keys THEN tenantKey ELSE NoKey

\* Goes on at pc, with a key and with rows.
Proceeds(a, pc, ds, key, locked) ==
  Moves(a, pc, tx[a].kind, ds, key, tx[a].made, locked)
Stays(a, pc) == Proceeds(a, pc, tx[a].deal, tx[a].key, tx[a].locked)
Renews(a, pc, key) == Moves(a, pc, "none", {}, key, NoKey, {})

LEMMA Moved ==
  ASSUME TypeOK, NEW a \in Actors, NEW t \in Tx, tx' = [tx EXCEPT ![a] = t]
  PROVE  Moves(a, t.pc, t.kind, t.deal, t.key, t.made, t.locked)
BY DEF TypeOK, Moves

There(r) == \A d \in tx[r].deal : Live(d)
Finds(r) == tx[r].kind = "POST" \/ There(r)

LEMMA Effects ==
  ASSUME TypeOK
  PROVE  /\ \A a \in Keyed : SelectKey(a) =>
              \/ Stays(a, "lock")
              \/ KeyRow(a) \in Keys /\ Proceeds(a, "write", tx[a].deal, KeyRow(a), tx[a].locked)
         /\ \A a \in Keyed : LockKey(a) =>
              \/ Stays(a, "create")
              \/ KeyRow(a) \in Keys /\ Proceeds(a, "write", tx[a].deal, KeyRow(a), tx[a].locked)
         /\ \A a \in Keyed : CreateKey(a) =>
              \E k \in Keys : Moves(a, "write", tx[a].kind, tx[a].deal, k, k, tx[a].locked)
         /\ \A r \in Reqs : Arrive(r) =>
              \E kind \in {"GET", "POST", "PUT", "DELETE"}, d \in Deals :
               Moves(r, FirstStep[kind], kind, {d}, NoKey, NoKey, {})
         /\ \A r \in Reqs : Write(r) =>
              Proceeds(r, IF Finds(r) /\ tx[r].kind # "DELETE" THEN "present" ELSE "commit",
                          tx[r].deal, tx[r].key, IF There(r) THEN tx[r].deal ELSE {})
         /\ \A r \in Reqs : Present(r) \/ CommitQuiet(r) =>
              Renews(r, "done", NoKey)
         /\ \A r \in Reqs : List(r) =>
              \/ Renews(r, "done", NoKey)
              \/ Stays(r, "open")
         /\ \A r \in Reqs : Open(r) =>
              KeyRow(r) \in Keys /\ Renews(r, "done", KeyRow(r))
         /\ \A a \in Actors : Abort(a) =>
              Renews(a, "done", NoKey)
         /\ Backfill =>
              Stays("backfill", "select")
         /\ SelectPlain =>
              Proceeds("backfill", "key", tx["backfill"].deal, tx["backfill"].key, PlainRows)
         /\ ConvertBatch =>
              Renews("backfill", "select", NoKey)
         /\ FinishBackfill =>
              Renews("backfill", "done", NoKey)
         /\ Purge =>
              Proceeds("purge", "record", DueRows, tx["purge"].key, DueRows)
         /\ \A w \in BOOLEAN : RecordPurge(w) =>
              Renews("purge", "done", NoKey)
         /\ Offboard =>
              Stays("offboard", "deals")
         /\ DeleteDeals =>
              Proceeds("offboard", "users", Rows, tx["offboard"].key, Rows)
         /\ DeleteUsers =>
              Proceeds("offboard", "shred", tx["offboard"].deal, tx["offboard"].key, Rows)
         /\ Shred =>
              Proceeds("offboard", "material", tx["offboard"].deal, ShredKey, tx["offboard"].locked)
         /\ DestroyMaterial =>
              Stays("offboard", "record")
         /\ \A w \in BOOLEAN : RecordOffboard(w) =>
              Renews("offboard", "done", NoKey)
<1> USE DEF Proceeds, Stays, Renews
<1>1. ASSUME NEW a \in Actors
      PROVE  tx[a] \in Tx /\ NewTx \in Tx
  BY DEF TypeOK, NewTx, Tx, Procs
<1>2. /\ {"backfill", "purge", "offboard"} \subseteq Actors
      /\ Keyed \subseteq Actors /\ Reqs \subseteq Actors
  BY DEF Actors, Tools, Keyed
<1>3. ASSUME NEW a \in Actors, NEW pc \in {"lock", "open", "select", "deals", "record"},
             Goto(a, pc)
      PROVE  Stays(a, pc)
  <2> DEFINE t == [tx[a] EXCEPT !.pc = pc]
  <2>1. t \in Tx /\ tx' = [tx EXCEPT ![a] = t]
    BY <1>1, <1>3 DEF Tx, Goto
  <2>2. /\ t.pc = pc /\ t.kind = tx[a].kind /\ t.deal = tx[a].deal
        /\ t.key = tx[a].key /\ t.made = tx[a].made /\ t.locked = tx[a].locked
    BY <1>1 DEF Tx
  <2> HIDE DEF t
  <2> QED
    BY <2>1, <2>2, Moved
<1>4. ASSUME NEW a \in Actors, End(a)
      PROVE  Renews(a, "done", NoKey)
  <2> DEFINE t == [NewTx EXCEPT !.pc = "done", !.opened = tx[a].opened]
  <2>1. t \in Tx /\ tx' = [tx EXCEPT ![a] = t]
    BY <1>1, <1>4 DEF Tx, End, NewTx, Procs
  <2>2. /\ t.pc = "done" /\ t.kind = "none" /\ t.deal = {}
        /\ t.key = NoKey /\ t.made = NoKey /\ t.locked = {}
    BY DEF NewTx
  <2> HIDE DEF t
  <2> QED
    BY <2>1, <2>2, Moved
<1>5. ASSUME NEW a \in Actors, NEW u \in Tx, Unwrap(a, u)
      PROVE  KeyRow(a) \in Keys /\ Moves(a, u.pc, u.kind, u.deal, KeyRow(a), u.made, u.locked)
  <2> DEFINE t == [u EXCEPT !.key = KeyRow(a)]
  <2>1. KeyRow(a) \in Keys /\ t \in Tx /\ tx' = [tx EXCEPT ![a] = t]
    BY <1>5 DEF Unwrap, UnwrapCached, Tx
  <2>2. /\ t.pc = u.pc /\ t.kind = u.kind /\ t.deal = u.deal
        /\ t.key = KeyRow(a) /\ t.made = u.made /\ t.locked = u.locked
    BY DEF Tx
  <2> HIDE DEF t
  <2> QED
    BY <2>1, <2>2, Moved
<1>6. ASSUME NEW a \in Keyed, SelectKey(a)
      PROVE  \/ Stays(a, "lock")
             \/ KeyRow(a) \in Keys /\ Proceeds(a, "write", tx[a].deal, KeyRow(a), tx[a].locked)
  <2> DEFINE u == [tx[a] EXCEPT !.pc = "write"]
  <2>1. /\ u \in Tx
        /\ u.pc = "write" /\ u.kind = tx[a].kind /\ u.deal = tx[a].deal
        /\ u.made = tx[a].made /\ u.locked = tx[a].locked
    BY <1>1, <1>2 DEF Tx
  <2>2. CASE Goto(a, "lock")
    BY <1>2, <1>3, <2>2
  <2>3. CASE Unwrap(a, u)
    <3> HIDE DEF u
    <3> QED
      BY <1>2, <1>5, <2>1, <2>3
  <2> QED
    BY <1>6, <2>2, <2>3 DEF SelectKey
<1>7. ASSUME NEW a \in Keyed, LockKey(a)
      PROVE  \/ Stays(a, "create")
             \/ KeyRow(a) \in Keys /\ Proceeds(a, "write", tx[a].deal, KeyRow(a), tx[a].locked)
  <2> DEFINE e == [tx[a] EXCEPT !.lock = TRUE]
             v == [e EXCEPT !.pc = "create"]
             u == [e EXCEPT !.pc = "write"]
  <2>3. tx' = [tx EXCEPT ![a] = v] \/ Unwrap(a, u)
    BY <1>7 DEF LockKey
  <2>a. tx[a] \in Tx
    BY <1>1, <1>2
  <2>b. e \in Tx
    BY ONLY <2>a DEF Tx
  <2>0. /\ e \in Tx
        /\ e.kind = tx[a].kind /\ e.deal = tx[a].deal /\ e.key = tx[a].key
        /\ e.made = tx[a].made /\ e.locked = tx[a].locked
    BY ONLY <2>a, <2>b DEF Tx
  <2> HIDE DEF e
  <2>1. /\ u \in Tx
        /\ u.pc = "write" /\ u.kind = tx[a].kind /\ u.deal = tx[a].deal
        /\ u.made = tx[a].made /\ u.locked = tx[a].locked
    BY <2>0 DEF Tx
  <2>2. /\ v \in Tx
        /\ v.pc = "create" /\ v.kind = tx[a].kind /\ v.deal = tx[a].deal /\ v.key = tx[a].key
        /\ v.made = tx[a].made /\ v.locked = tx[a].locked
    BY <2>0 DEF Tx
  <2> HIDE DEF u, v
  <2>4. CASE tx' = [tx EXCEPT ![a] = v]
    BY <1>2, <2>2, <2>4, Moved
  <2>5. CASE Unwrap(a, u)
    BY <1>2, <1>5, <2>1, <2>5
  <2> QED
    BY <2>3, <2>4, <2>5
<1>8. ASSUME NEW a \in Keyed, CreateKey(a)
      PROVE  \E k \in Keys : Moves(a, "write", tx[a].kind, tx[a].deal, k, k, tx[a].locked)
  <2>1. PICK k \in Keys : tx' = [tx EXCEPT ![a].pc = "write", ![a].key = k, ![a].made = k]
    BY <1>8 DEF CreateKey
  <2> DEFINE t == [tx[a] EXCEPT !.pc = "write", !.key = k, !.made = k]
  <2>5. tx[a] \in Tx
    BY <1>1, <1>2
  <2>2. t \in Tx
    BY <2>5 DEF Tx
  <2>4. tx' = [tx EXCEPT ![a] = t]
    BY <2>1
  <2>3. /\ t.pc = "write" /\ t.kind = tx[a].kind /\ t.deal = tx[a].deal
        /\ t.key = k /\ t.made = k /\ t.locked = tx[a].locked
    BY <1>1, <1>2 DEF Tx
  <2> HIDE DEF t
  <2> QED
    BY <1>2, <2>2, <2>3, <2>4, Moved
<1>9. ASSUME NEW r \in Reqs, Arrive(r)
      PROVE  \E kind \in {"GET", "POST", "PUT", "DELETE"}, d \in Deals :
               Moves(r, FirstStep[kind], kind, {d}, NoKey, NoKey, {})
  <2>1. PICK kind \in {"GET", "POST", "PUT", "DELETE"}, d \in Deals, p \in Servers :
          tx' = [tx EXCEPT ![r] = [NewTx EXCEPT !.pc = FirstStep[kind], !.kind = kind,
                                     !.deal = {d}, !.proc = p]]
    BY <1>9 DEF Arrive
  <2> DEFINE t == [NewTx EXCEPT !.pc = FirstStep[kind], !.kind = kind, !.deal = {d}, !.proc = p]
  <2>2. FirstStep[kind] \in {"list", "key", "write"}
    BY DEF FirstStep
  <2>3. t \in Tx
    BY <2>2 DEF Tx, NewTx, Procs
  <2>4. /\ t.pc = FirstStep[kind] /\ t.kind = kind /\ t.deal = {d}
        /\ t.key = NoKey /\ t.made = NoKey /\ t.locked = {}
    BY DEF NewTx
  <2>5. tx' = [tx EXCEPT ![r] = t]
    BY <2>1
  <2> HIDE DEF t
  <2>6. Moves(r, t.pc, t.kind, t.deal, t.key, t.made, t.locked)
    BY <1>2, <2>3, <2>5, Moved
  <2>7. Moves(r, FirstStep[kind], kind, {d}, NoKey, NoKey, {})
    BY <2>4, <2>6
  <2> QED
    BY <2>7
<1>10. ASSUME NEW r \in Reqs, Write(r)
       PROVE  Proceeds(r, IF Finds(r) /\ tx[r].kind # "DELETE" THEN "present" ELSE "commit",
                       tx[r].deal, tx[r].key, IF There(r) THEN tx[r].deal ELSE {})
  <2> DEFINE pc == IF Finds(r) /\ tx[r].kind # "DELETE" THEN "present" ELSE "commit"
             S == IF There(r) THEN tx[r].deal ELSE {}
             t == [tx[r] EXCEPT !.pc = pc, !.locked = S]
  <2>2. tx' = [tx EXCEPT ![r] = t]
    BY <1>10 DEF Write, Finds, There
  <2>5. /\ tx[r] \in Tx
        /\ pc \in {"present", "commit"}
        /\ S \in SUBSET Deals
    BY <1>1, <1>2 DEF Tx
  <2> HIDE DEF pc, S
  <2>1. t \in Tx
    BY <2>5 DEF Tx
  <2>3. /\ t.pc = pc /\ t.kind = tx[r].kind /\ t.deal = tx[r].deal
        /\ t.key = tx[r].key /\ t.made = tx[r].made /\ t.locked = S
    BY <2>5 DEF Tx
  <2> HIDE DEF t
  <2>4. Moves(r, pc, tx[r].kind, tx[r].deal, tx[r].key, tx[r].made, S)
    BY <1>2, <2>1, <2>2, <2>3, Moved
  <2> QED
    BY <2>4 DEF pc, S
<1>11. ASSUME NEW r \in Reqs, Present(r) \/ CommitQuiet(r)
       PROVE  Renews(r, "done", NoKey)
  BY <1>2, <1>4, <1>11 DEF Present, CommitQuiet
<1>12. ASSUME NEW r \in Reqs, List(r)
       PROVE  Renews(r, "done", NoKey) \/ Stays(r, "open")
  <2>1. End(r) \/ Goto(r, "open")
    BY <1>12 DEF List
  <2> QED
    BY <1>2, <1>3, <1>4, <2>1
<1>13. ASSUME NEW r \in Reqs, Open(r)
       PROVE  KeyRow(r) \in Keys /\ Renews(r, "done", KeyRow(r))
  <2> DEFINE u == [NewTx EXCEPT !.pc = "done", !.proc = tx[r].proc, !.opened = TRUE]
  <2>1. u \in Tx /\ Unwrap(r, u)
    BY <1>13, <1>1, <1>2 DEF Open, Tx, NewTx
  <2>2. /\ u.pc = "done" /\ u.kind = "none" /\ u.deal = {}
        /\ u.made = NoKey /\ u.locked = {}
    BY DEF NewTx
  <2> HIDE DEF u
  <2> QED
    BY <1>2, <1>5, <2>1, <2>2
<1>14. ASSUME NEW a \in Actors, Abort(a)
       PROVE  Renews(a, "done", NoKey)
  BY <1>4, <1>14 DEF Abort
<1>15. ASSUME NEW a \in Actors, NEW pc \in {"key", "record", "users", "shred", "material"},
              NEW ds \in SUBSET Deals, NEW key \in Keys \cup {NoKey}, NEW S \in SUBSET Deals,
              tx' = [tx EXCEPT ![a] = [tx[a] EXCEPT !.pc = pc, !.deal = ds, !.key = key, !.locked = S]]
       PROVE  Proceeds(a, pc, ds, key, S)
  <2> DEFINE t == [tx[a] EXCEPT !.pc = pc, !.deal = ds, !.key = key, !.locked = S]
  <2>1. t \in Tx
    BY <1>1 DEF Tx
  <2>2. /\ t.pc = pc /\ t.kind = tx[a].kind /\ t.deal = ds
        /\ t.key = key /\ t.made = tx[a].made /\ t.locked = S
    BY <1>1 DEF Tx
  <2>3. tx' = [tx EXCEPT ![a] = t]
    BY <1>15
  <2> HIDE DEF t
  <2> QED
    BY <2>1, <2>2, <2>3, Moved
<1>16. ASSUME SelectPlain
       PROVE  Proceeds("backfill", "key", tx["backfill"].deal, tx["backfill"].key, PlainRows)
  <2>1. tx' = [tx EXCEPT !["backfill"] = [tx["backfill"] EXCEPT !.pc = "key",
                 !.deal = tx["backfill"].deal, !.key = tx["backfill"].key, !.locked = PlainRows]]
    BY <1>1, <1>2, <1>16 DEF SelectPlain, Tx
  <2>2. PlainRows \in SUBSET Deals /\ tx["backfill"] \in Tx
    BY <1>1, <1>2 DEF PlainRows
  <2> QED
    BY <1>2, <1>15, <2>1, <2>2 DEF Tx
<1>17. ASSUME Purge
       PROVE  Proceeds("purge", "record", DueRows, tx["purge"].key, DueRows)
  <2>1. tx' = [tx EXCEPT !["purge"] = [tx["purge"] EXCEPT !.pc = "record",
                 !.deal = DueRows, !.key = tx["purge"].key, !.locked = DueRows]]
    BY <1>1, <1>2, <1>17 DEF Purge, Tx
  <2>2. DueRows \in SUBSET Deals /\ tx["purge"] \in Tx
    BY <1>1, <1>2 DEF DueRows
  <2> QED
    BY <1>2, <1>15, <2>1, <2>2 DEF Tx
<1>18. /\ DeleteDeals => Proceeds("offboard", "users", Rows, tx["offboard"].key, Rows)
       /\ DeleteUsers => Proceeds("offboard", "shred", tx["offboard"].deal, tx["offboard"].key, Rows)
       /\ Shred => Proceeds("offboard", "material", tx["offboard"].deal, ShredKey,
                             tx["offboard"].locked)
  <2> DEFINE t == tx["offboard"]
  <2>1. Rows \in SUBSET Deals /\ t \in Tx /\ ShredKey \in Keys \cup {NoKey}
    BY <1>1, <1>2 DEF Rows, ShredKey
  <2>2. ASSUME DeleteDeals
        PROVE  tx' = [tx EXCEPT !["offboard"] = [t EXCEPT !.pc = "users",
                        !.deal = Rows, !.key = t.key, !.locked = Rows]]
    BY <2>1, <2>2 DEF DeleteDeals, Tx
  <2>3. ASSUME DeleteUsers
        PROVE  tx' = [tx EXCEPT !["offboard"] = [t EXCEPT !.pc = "shred",
                        !.deal = t.deal, !.key = t.key, !.locked = Rows]]
    BY <2>1, <2>3 DEF DeleteUsers, Tx
  <2>4. ASSUME Shred
        PROVE  tx' = [tx EXCEPT !["offboard"] = [t EXCEPT !.pc = "material",
                        !.deal = t.deal, !.key = ShredKey, !.locked = t.locked]]
    BY <2>1, <2>4 DEF Shred, ShredKey, Tx
  <2>5. t.deal \in SUBSET Deals /\ t.locked \in SUBSET Deals /\ t.key \in Keys \cup {NoKey}
    BY <2>1 DEF Tx
  <2> QED
    BY <1>2, <1>15, <2>1, <2>2, <2>3, <2>4, <2>5
<1>19. ASSUME ConvertBatch
       PROVE  Renews("backfill", "select", NoKey)
  <2> DEFINE t == [NewTx EXCEPT !.pc = "select"]
  <2>1. t \in Tx /\ tx' = [tx EXCEPT !["backfill"] = t]
    BY <1>19 DEF ConvertBatch, Tx, NewTx, Procs
  <2>2. /\ t.pc = "select" /\ t.kind = "none" /\ t.deal = {}
        /\ t.key = NoKey /\ t.made = NoKey /\ t.locked = {}
    BY DEF NewTx
  <2> HIDE DEF t
  <2> QED
    BY <1>2, <2>1, <2>2, Moved
<1>20. /\ FinishBackfill => Renews("backfill", "done", NoKey)
       /\ \A w \in BOOLEAN : RecordPurge(w) => Renews("purge", "done", NoKey)
       /\ \A w \in BOOLEAN : RecordOffboard(w) => Renews("offboard", "done", NoKey)
  BY <1>2, <1>4 DEF FinishBackfill, RecordPurge, RecordOffboard
<1>21. /\ Backfill => Stays("backfill", "select")
       /\ Offboard => Stays("offboard", "deals")
       /\ DestroyMaterial => Stays("offboard", "record")
  BY <1>2, <1>3 DEF Backfill, Offboard, DestroyMaterial
<1> HIDE DEF Proceeds, Stays, Renews
<1> QED
  BY <1>6, <1>7, <1>8, <1>9, <1>10, <1>11, <1>12, <1>13, <1>14, <1>16, <1>17, <1>18, <1>19,
     <1>20, <1>21

VaultInv == TypeOK /\ KeyInv /\ LockInv /\ SealedUnderTheFirmsKey /\ EraseInv

LEMMA VaultInvariant == Spec => []VaultInv
<1> USE KeyAssumption, ReqAssumption
<1>1. Init => VaultInv
  <2> SUFFICES ASSUME Init
               PROVE  VaultInv
    OBVIOUS
  <2>1. /\ \A a \in Actors : tx[a] = NewTx
        /\ {"backfill", "purge", "offboard"} \subseteq Actors /\ Keyed \subseteq Actors /\ Reqs \subseteq Actors
    BY DEF Init, Actors, Tools, Keyed
  <2>2. TypeOK
    BY DEF Init, TypeOK, Tx, NewTx, NoBatch, Procs, Row, Writers, Absent
  <2>3. KeyInv /\ LockInv
    BY <2>1 DEF KeyInv, LockInv, NewTx, Sealing, Converting, Erasing
  <2>4. SealedUnderTheFirmsKey
    BY DEF Init, SealedUnderTheFirmsKey, Exists, Row, Absent
  <2>5. EraseInv
    BY <2>1 DEF Init, EraseInv, NewTx, Erasing, UsersLocked
  <2> QED
    BY <2>2, <2>3, <2>4, <2>5 DEF VaultInv
<1>2. VaultInv /\ [Next]_vars => VaultInv'
  \* Every step keeps the types: rows are written with a key in hand (KeyInv),
  \* and only rows that are there are rewritten (LockInv).
  <2>1. ASSUME TypeOK, KeyInv, LockInv, [Next]_vars
       PROVE  TypeOK'
    <3> USE <2>1
    <3> DEFINE Rest == /\ deal \in [Deals -> Row \cup {Absent, Gone}]
                       /\ tenantKey \in Keys \cup {NoKey, Destroyed}
                       /\ tenant \in {"live", "offboarded"}
                       /\ material \in BOOLEAN
                       /\ generated \subseteq Keys
                       /\ cache \in [Procs -> SUBSET Keys]
                       /\ DOMAIN batch \subseteq Deals /\ \A d \in DOMAIN batch : batch[d] \in Writers
                       /\ latest \in [Deals -> Writers]
                       /\ trail \subseteq Deals
                       /\ told \in [Tools -> {"nothing", "done", "failed"}]
               Typed == tx' \in [Actors -> Tx]
    <3>1. Rest /\ tx \in [Actors -> Tx]
      BY DEF TypeOK
    <3>2. ASSUME NEW a \in Actors
          PROVE  /\ tx[a].key \in Keys \cup {NoKey} /\ tx[a].made \in Keys \cup {NoKey}
                 /\ tx[a].proc \in Procs /\ tx[a].deal \subseteq Deals /\ tx[a].locked \subseteq Deals
      BY <3>1 DEF Tx
    <3>3. Reqs \subseteq Actors /\ Keyed \subseteq Actors /\ {"backfill", "purge", "offboard"} \subseteq Actors
      BY DEF Actors, Keyed, Tools
    <3> USE DEF Row, Absent, Gone, Exists, Writers
    <3>4. ASSUME NEW a \in Keyed, SelectKey(a) \/ LockKey(a) \/ CreateKey(a)
          PROVE  Rest' /\ Typed
      <4>1. Typed
        BY <3>4, Effects DEF Moves, Proceeds, Stays
      <4> DEFINE Keeps == \/ UNCHANGED cache
                          \/ \E k \in Keys, p \in Procs : cache' = [cache EXCEPT ![p] = @ \cup {k}]
      <4>2. /\ tx[a] \in Tx
            /\ [tx[a] EXCEPT !.pc = "write"].proc \in Procs
            /\ [[tx[a] EXCEPT !.lock = TRUE] EXCEPT !.pc = "write"].proc \in Procs
        BY <3>1, <3>3 DEF Tx
      <4>3. ASSUME NEW t, t.proc \in Procs, Unwrap(a, t)
            PROVE  Keeps
        BY <4>3 DEF Unwrap, UnwrapCached
      <4>4. SelectKey(a) => Keeps
        BY <4>2, <4>3 DEF SelectKey
      <4>5. LockKey(a) => Keeps
        BY <4>2, <4>3 DEF LockKey
      <4>6. CreateKey(a) => Keeps
        BY <3>2, <3>3 DEF CreateKey
      <4>7. Keeps
        BY <3>4, <4>4, <4>5, <4>6
      <4>8. cache' \in [Procs -> SUBSET Keys]
        BY <3>1, <4>7
      <4> HIDE DEF Keeps
      <4>9. generated' \subseteq Keys
        <5>1. generated \subseteq Keys
          BY <3>1
        <5>2. SelectKey(a) => generated' = generated
          BY DEF SelectKey
        <5>3. LockKey(a) => generated' = generated
          BY DEF LockKey
        <5>4. CreateKey(a) => generated' \subseteq Keys
          BY <5>1 DEF CreateKey
        <5> QED
          BY <3>4, <5>1, <5>2, <5>3, <5>4
      <4> QED
        BY <3>1, <3>4, <4>1, <4>8, <4>9 DEF SelectKey, LockKey, CreateKey
    <3>5. ASSUME NEW r \in Reqs, Arrive(r) \/ Write(r) \/ List(r)
          PROVE  Rest' /\ Typed
      <4>1. Typed
        BY <3>5, Effects DEF Moves, Proceeds, Stays, Renews
      <4> QED
        BY <3>1, <3>5, <4>1 DEF Arrive, Write, List
    <3>6. ASSUME NEW r \in Reqs, Present(r)
          PROVE  Rest' /\ Typed
      <4>1. Typed
        BY <3>6, Effects DEF Moves, Renews
      <4>2. tx[r].key \in Keys
        BY <3>6 DEF Present, KeyInv, Sealing, Keyed
      <4>3. KeyRow(r) \in Keys \cup {NoKey, Destroyed} /\ tx[r].proc \in Procs
        BY <3>1, <3>2, <3>3 DEF KeyRow
      <4>4. cache' \in [Procs -> SUBSET Keys]
        BY <3>1, <3>6, <4>3 DEF Present, UnwrapCached
      <4>5. deal' \in [Deals -> Row \cup {Absent, Gone}]
        BY <3>1, <3>6, <4>2 DEF Present
      <4>6. latest' \in [Deals -> Writers] /\ tenantKey' \in Keys \cup {NoKey, Destroyed}
        BY <3>1, <3>2, <3>3, <3>6 DEF Present, Publish
      <4> QED
        BY <3>1, <3>6, <4>1, <4>4, <4>5, <4>6 DEF Present
    <3>7. ASSUME NEW r \in Reqs, CommitQuiet(r)
          PROVE  Rest' /\ Typed
      <4>1. Typed
        BY <3>7, Effects DEF Moves, Renews
      <4>2. \A d \in tx[r].locked : deal[d] \in Row
        BY <3>3 DEF LockInv
      <4>3. deal' \in [Deals -> Row \cup {Absent, Gone}]
        BY <3>1, <3>7, <4>2 DEF CommitQuiet
      <4>4. tenantKey' \in Keys \cup {NoKey, Destroyed}
        BY <3>1, <3>2, <3>3, <3>7 DEF CommitQuiet, Publish
      <4> QED
        BY <3>1, <3>7, <4>1, <4>3, <4>4 DEF CommitQuiet
    <3>8. ASSUME NEW r \in Reqs, Open(r)
          PROVE  Rest' /\ Typed
      <4>1. Typed
        BY <3>8, Effects DEF Moves, Renews
      <4>2. tx[r].proc \in Procs /\ KeyRow(r) \in Keys
        BY <3>2, <3>3, <3>8, Effects
      <4>3. cache' = [cache EXCEPT ![tx[r].proc] = @ \cup {KeyRow(r)}]
        BY <3>8 DEF Open, Unwrap, UnwrapCached
      <4> QED
        BY <3>1, <3>8, <4>1, <4>2, <4>3 DEF Open
    <3>9. ASSUME NEW a \in Actors, Abort(a)
          PROVE  Rest' /\ Typed
      <4>1. Typed
        BY <3>9, Effects DEF Moves, Renews
      <4> QED
        BY <3>1, <3>9, <4>1 DEF Abort, NoBatch, Tools
    <3>10. ASSUME NEW d \in Deals, Age(d)
           PROVE  Rest' /\ Typed
      BY <3>1, <3>10 DEF Age
    <3>11. ASSUME NEW p \in Procs, Expire(p)
           PROVE  Rest' /\ Typed
      BY <3>1, <3>11 DEF Expire
    <3>12. ASSUME SelectPlain \/ Backfill \/ FinishBackfill \/ Purge
           PROVE  Rest' /\ Typed
      <4>1. Typed
        BY <3>12, Effects DEF Moves, Proceeds, Stays, Renews
      <4> QED
        BY <3>1, <3>12, <4>1 DEF SelectPlain, PlainRows, Backfill, FinishBackfill, Purge, Tools, Procs
    <3>13. ASSUME ConvertBatch
           PROVE  Rest' /\ Typed
      <4>1. Typed
        BY <3>13, Effects DEF Moves, Renews
      <4>2. tx["backfill"].key \in Keys
        BY <3>13 DEF ConvertBatch, KeyInv, Sealing, Keyed
      <4>3. deal' \in [Deals -> Row \cup {Absent, Gone}]
        BY <3>1, <3>13, <4>2 DEF ConvertBatch
      <4>4. tenantKey' \in Keys \cup {NoKey, Destroyed}
        BY <3>1, <3>2, <3>3, <3>13 DEF ConvertBatch, Publish
      <4> QED
        BY <3>1, <3>13, <4>1, <4>3, <4>4 DEF ConvertBatch, NoBatch
    <3>14. ASSUME NEW w \in BOOLEAN, RecordPurge(w) \/ RecordOffboard(w)
           PROVE  Rest' /\ Typed
      <4>1. Typed
        BY <3>14, Effects DEF Moves, Renews
      <4>2. deal' \in [Deals -> Row \cup {Absent, Gone}]
        BY <3>1, <3>14 DEF RecordPurge, RecordOffboard, Erase
      <4>3. trail' \subseteq Deals
        BY <3>1, <3>2, <3>3, <3>14 DEF RecordPurge, RecordOffboard
      <4>4. told' \in [Tools -> {"nothing", "done", "failed"}]
        BY <3>1, <3>14 DEF RecordPurge, RecordOffboard, AuditOrFail, Tools
      <4> QED
        BY <3>1, <3>14, <4>1, <4>2, <4>3, <4>4 DEF RecordPurge, RecordOffboard
    <3>15. ASSUME Offboard \/ DeleteDeals \/ DeleteUsers \/ Shred \/ DestroyMaterial
           PROVE  Rest' /\ Typed
      <4>1. Typed
        BY <3>15, Effects DEF Moves, Proceeds, Stays
      <4> QED
        BY <3>1, <3>15, <4>1 DEF Offboard, DeleteDeals, DeleteUsers, Shred, DestroyMaterial
    <3>16. ASSUME UNCHANGED vars
           PROVE  Rest' /\ Typed
      BY <3>1, <3>16 DEF vars

    <3>17. Rest' /\ Typed
      BY <3>4, <3>5, <3>6, <3>7, <3>8, <3>9, <3>10, <3>11, <3>12, <3>13, <3>14, <3>15, <3>16
         DEF Next, KeyStep, Request, BackfillStep, OffboardStep, Keyed
    <3> QED
      BY <3>17, SMTT(60) DEF TypeOK
  \* Every step keeps the keys in hand and the sealed rows in line with the
  \* committed key.  A transaction that publishes a key found none committed, and
  \* then nothing was sealed and nobody else had one.
  <2>2. ASSUME TypeOK, KeyInv, [Next]_vars
       PROVE  KeyInv'
    <3> USE <2>2
    <3> USE KeyAssumption, ReqAssumption
    <3>1. Reqs \subseteq Keyed /\ Keyed \subseteq Actors /\ {"backfill", "purge", "offboard"} \subseteq Actors
      BY DEF Actors, Keyed, Tools
    <3>2. ASSUME NEW a \in Actors
          PROVE  /\ tx[a].made \in Keys \cup {NoKey} /\ tx[a].key \in Keys \cup {NoKey}
                 /\ tx[a].locked \subseteq Deals
      BY DEF TypeOK, Tx
    <3>3. ASSUME NEW a \in Actors, UNCHANGED tenantKey,
                 NEW pc, NEW kind, NEW ds, NEW key, NEW made, NEW locked,
                 Moves(a, pc, kind, ds, key, made, locked),
                 key \in Keys => made = key \/ tenantKey \in {key, Destroyed},
                 made # NoKey => /\ a \in Keyed /\ pc \in {"write", "present", "commit"}
                                 /\ made = key /\ tenantKey = NoKey
                                 /\ \A b \in Actors \ {a} : tx[b].made = NoKey,
                 a \in Keyed /\ (pc = "present" \/ (pc = "write" /\ (a = "backfill" \/ kind # "DELETE")))
                   => key \in Keys,
                 a = "offboard" /\ key \in Keys => tenantKey = key
          PROVE  KeyInv'
      <4>1. \A b \in Actors : b = a \/ tx'[b] = tx[b]
        BY <3>3 DEF Moves
      <4>2. tx'[a].pc = pc /\ tx'[a].kind = kind /\ tx'[a].key = key /\ tx'[a].made = made
        BY <3>3 DEF Moves
      <4>3. \A b \in Actors : tx'[b].key \in Keys =>
              tx'[b].made = tx'[b].key \/ tenantKey' \in {tx'[b].key, Destroyed}
        BY <3>3, <4>1, <4>2 DEF KeyInv
      <4>4. \A b \in Actors : tx'[b].made # NoKey =>
              /\ b \in Keyed /\ tx'[b].pc \in {"write", "present", "commit"}
              /\ tx'[b].made = tx'[b].key /\ tenantKey' = NoKey
        BY <3>3, <4>1, <4>2 DEF KeyInv
      <4>5. \A b, c \in Actors : tx'[b].made # NoKey /\ tx'[c].made # NoKey => b = c
        BY <3>3, <4>1, <4>2 DEF KeyInv
      <4>6. ASSUME NEW b \in Keyed, Sealing(b)'
            PROVE  tx'[b].key \in Keys
        <5>1. CASE b = a
          <6>1. pc = "present" \/ (pc = "write" /\ (a = "backfill" \/ kind # "DELETE"))
            BY <4>2, <4>6, <5>1 DEF Sealing
          <6> QED
            BY <3>3, <4>2, <5>1, <6>1
        <5>2. CASE b # a
          BY <3>1, <4>1, <4>6, <5>2 DEF Sealing, KeyInv
        <5> QED
          BY <5>1, <5>2
      <4>7. tx'["offboard"].key \in Keys => tenantKey' = tx'["offboard"].key
        BY <3>1, <3>3, <4>1, <4>2 DEF KeyInv
      <4> QED
        BY <4>3, <4>4, <4>5, <4>6, <4>7 DEF KeyInv
    <3>4. ASSUME NEW a \in Keyed, NEW pc \in {"done", "select"}, Publish(a), Renews(a, pc, NoKey)
          PROVE  KeyInv'
      <4>1. \A b \in Actors : b = a \/ tx'[b] = tx[b]
        BY <3>4 DEF Moves, Renews
      <4>2. tx'[a].pc = pc /\ tx'[a].kind = "none" /\ tx'[a].key = NoKey /\ tx'[a].made = NoKey
        BY <3>4 DEF Moves, Renews
      <4>3. tenantKey' = IF tx[a].made = NoKey THEN tenantKey ELSE tx[a].made
        BY <3>4 DEF Publish
      <4>4. tx[a].made # NoKey =>
              /\ tenantKey = NoKey
              /\ \A b \in Actors \ {a} : tx[b].made = NoKey /\ tx[b].key \notin Keys
        BY <3>1, <3>2 DEF KeyInv
      <4>5. \A b \in Actors : tx'[b].key \in Keys =>
              tx'[b].made = tx'[b].key \/ tenantKey' \in {tx'[b].key, Destroyed}
        BY <4>1, <4>2, <4>3, <4>4 DEF KeyInv
      <4>6. \A b \in Actors : tx'[b].made # NoKey =>
              /\ b \in Keyed /\ tx'[b].pc \in {"write", "present", "commit"}
              /\ tx'[b].made = tx'[b].key /\ tenantKey' = NoKey
        BY <4>1, <4>2, <4>3, <4>4 DEF KeyInv
      <4>7. \A b, c \in Actors : tx'[b].made # NoKey /\ tx'[c].made # NoKey => b = c
        BY <4>1, <4>2 DEF KeyInv
      <4>8. \A b \in Keyed : Sealing(b)' => tx'[b].key \in Keys
        BY <3>1, <4>1, <4>2 DEF KeyInv, Sealing
      <4>9. tx'["offboard"].key \in Keys => tenantKey' = tx'["offboard"].key
        BY <3>1, <4>1, <4>2, <4>3, <4>4 DEF KeyInv
      <4> QED
        BY <4>5, <4>6, <4>7, <4>8, <4>9 DEF KeyInv
    <3>5. ASSUME NEW a \in Actors, NEW pc \in {"done", "select"}, UNCHANGED tenantKey, Renews(a, pc, NoKey)
          PROVE  KeyInv'
      BY <3>3, <3>5 DEF Renews
    <3>6. ASSUME NEW a \in Actors, NEW pc, NEW ds, NEW locked, UNCHANGED tenantKey,
                 Proceeds(a, pc, ds, tx[a].key, locked),
                 pc \notin {"present", "write"} \/ (a \in Keyed /\ Sealing(a)),
                 tx[a].made = NoKey \/ pc \in {"write", "present", "commit"}
          PROVE  KeyInv'
      <4>1. /\ tx[a].key \in Keys => tx[a].made = tx[a].key \/ tenantKey \in {tx[a].key, Destroyed}
            /\ tx[a].made # NoKey => /\ a \in Keyed /\ tx[a].made = tx[a].key /\ tenantKey = NoKey
                                     /\ \A b \in Actors \ {a} : tx[b].made = NoKey
            /\ a \in Keyed /\ Sealing(a) => tx[a].key \in Keys
            /\ a = "offboard" /\ tx[a].key \in Keys => tenantKey = tx[a].key
        BY DEF KeyInv
      <4> QED
        BY <3>3, <3>6, <4>1 DEF Proceeds
    <3>7. ASSUME NEW a \in Keyed, SelectKey(a) \/ LockKey(a)
          PROVE  KeyInv'
      <4>1. UNCHANGED tenantKey
        BY <3>7 DEF SelectKey, LockKey
      <4>2. tx[a].made = NoKey
        BY <3>1, <3>7 DEF KeyInv, SelectKey, LockKey
      <4>3. CASE Stays(a, "lock")
        BY <3>1, <3>6, <4>1, <4>3, <4>2 DEF Stays
      <4>4. CASE Stays(a, "create")
        BY <3>1, <3>6, <4>1, <4>4, <4>2 DEF Stays
      <4>5. CASE KeyRow(a) \in Keys /\ Proceeds(a, "write", tx[a].deal, KeyRow(a), tx[a].locked)
        <5>1. a # "offboard"
          BY DEF Keyed
        <5>2. KeyRow(a) = tenantKey
          BY <4>2 DEF KeyRow
        <5>3. Moves(a, "write", tx[a].kind, tx[a].deal, tenantKey, NoKey, tx[a].locked)
          BY <4>5, <4>2, <5>2 DEF Proceeds
        <5> QED
          BY <3>1, <3>3, <4>1, <4>5, <5>1, <5>2, <5>3
      <4> QED
        BY <3>7, <4>3, <4>5, <4>4, Effects
    <3>8. ASSUME NEW a \in Keyed, CreateKey(a)
          PROVE  KeyInv'
      <4>1. UNCHANGED tenantKey /\ tenantKey = NoKey /\ \A b \in Actors \ {a} : tx[b].made = NoKey
        BY <3>8 DEF CreateKey
      <4>2. PICK k \in Keys : Moves(a, "write", tx[a].kind, tx[a].deal, k, k, tx[a].locked)
        BY <3>8, Effects
      <4>3. a # "offboard"
        BY DEF Keyed
      <4> QED
        BY <3>1, <3>3, <4>1, <4>2, <4>3
    <3>9. ASSUME NEW r \in Reqs, Request(r)
          PROVE  KeyInv'
      <4>1. CASE Arrive(r)
        <5>1. PICK kind \in {"GET", "POST", "PUT", "DELETE"}, d \in Deals :
                Moves(r, FirstStep[kind], kind, {d}, NoKey, NoKey, {})
          BY <4>1, Effects
        <5>2. r # "backfill" /\ (FirstStep[kind] = "write" => kind = "DELETE") /\ FirstStep[kind] # "present"
          BY DEF FirstStep
        <5> QED
          BY <3>1, <3>3, <4>1, <5>1, <5>2 DEF Arrive
      <4>2. CASE Write(r)
        <5> DEFINE pc == IF Finds(r) /\ tx[r].kind # "DELETE" THEN "present" ELSE "commit"
        <5>1. /\ Proceeds(r, pc, tx[r].deal, tx[r].key, IF There(r) THEN tx[r].deal ELSE {})
              /\ UNCHANGED tenantKey
          BY <4>2, Effects DEF Write
        <5>2. (pc = "commit" \/ Sealing(r)) /\ pc \in {"present", "commit"}
          BY <4>2 DEF Write, Sealing
        <5> HIDE DEF pc
        <5> QED
          BY <3>1, <3>6, <5>1, <5>2
      <4>3. CASE Present(r) \/ CommitQuiet(r)
        <5>1. Publish(r) /\ Renews(r, "done", NoKey)
          BY <4>3, Effects DEF Present, CommitQuiet
        <5> QED
          BY <3>1, <3>4, <5>1
      <4>4. CASE List(r)
        <5>1. /\ UNCHANGED tenantKey /\ (Renews(r, "done", NoKey) \/ Stays(r, "open"))
              /\ tx[r].made = NoKey
          BY <3>1, <4>4, Effects DEF List, KeyInv
        <5> QED
          BY <3>1, <3>5, <3>6, <5>1 DEF Stays
      <4>5. CASE Open(r)
        <5>1. KeyRow(r) \in Keys /\ Renews(r, "done", KeyRow(r)) /\ UNCHANGED tenantKey
          BY <4>5, Effects DEF Open
        <5>2. tx[r].made = NoKey
          BY <3>1, <4>5 DEF Open, KeyInv
        <5>3. Moves(r, "done", "none", {}, tenantKey, NoKey, {}) /\ tenantKey \in Keys
          BY <5>1, <5>2 DEF KeyRow, Renews
        <5>4. r # "offboard"
          OBVIOUS
        <5> QED
          BY <3>1, <3>3, <5>1, <5>3, <5>4
      <4> QED
        BY <3>9, <4>1, <4>2, <4>3, <4>4, <4>5 DEF Request
    <3>10. ASSUME BackfillStep
           PROVE  KeyInv'
      <4>1. tx["backfill"].pc \in {"idle", "select"} => tx["backfill"].made = NoKey
        BY <3>1 DEF KeyInv
      <4>2. CASE Backfill \/ SelectPlain \/ FinishBackfill
        <5>1. UNCHANGED tenantKey /\ tx["backfill"].made = NoKey
          BY <4>1, <4>2 DEF Backfill, SelectPlain, FinishBackfill
        <5>2. \/ Stays("backfill", "select") \/ Renews("backfill", "done", NoKey)
              \/ Proceeds("backfill", "key", tx["backfill"].deal, tx["backfill"].key, PlainRows)
          BY <4>2, Effects
        <5> QED
          BY <3>1, <3>5, <3>6, <5>1, <5>2 DEF Stays
      <4>3. CASE ConvertBatch
        <5>1. Publish("backfill") /\ Renews("backfill", "select", NoKey)
          BY <4>3, Effects DEF ConvertBatch
        <5> QED
          BY <3>4, <5>1 DEF Keyed
      <4> QED
        BY <3>10, <4>2, <4>3 DEF BackfillStep
    <3>11. ASSUME Purge \/ Offboard \/ DeleteDeals \/ DeleteUsers \/ DestroyMaterial
           PROVE  KeyInv'
      <4>1. UNCHANGED tenantKey
        BY <3>11 DEF Purge, Offboard, DeleteDeals, DeleteUsers, DestroyMaterial
      <4>2. tx["purge"].made = NoKey /\ tx["offboard"].made = NoKey
        BY <3>1 DEF KeyInv, Keyed
      <4>3. \E a \in {"purge", "offboard"}, ds, locked \in SUBSET Deals,
               pc \in {"deals", "users", "shred", "record"} : Proceeds(a, pc, ds, tx[a].key, locked)
        <5>1. /\ Rows \subseteq Deals /\ DueRows \subseteq Deals
              /\ \A a \in Actors : tx[a].deal \subseteq Deals /\ tx[a].locked \subseteq Deals
          BY DEF Rows, DueRows, TypeOK, Tx
        <5> QED
          BY <3>1, <3>11, <5>1, Effects DEF Stays
      <4> QED
        BY <3>1, <3>6, <4>1, <4>2, <4>3
    <3>12. ASSUME Shred
           PROVE  KeyInv'
      <4>1. /\ UNCHANGED tenantKey /\ tx["offboard"].made = NoKey
            /\ Moves("offboard", "material", tx["offboard"].kind, tx["offboard"].deal, ShredKey,
                     tx["offboard"].made, tx["offboard"].locked)
        BY <3>1, <3>12, Effects DEF Shred, Proceeds, KeyInv, Keyed
      <4> QED
        BY <3>1, <3>3, <4>1 DEF ShredKey
    <3>13. ASSUME NEW a \in Actors, Abort(a)
           PROVE  KeyInv'
      <4>1. UNCHANGED tenantKey /\ Renews(a, "done", NoKey)
        BY <3>13, Effects DEF Abort
      <4> QED
        BY <3>5, <4>1
    <3>14. ASSUME NEW w \in BOOLEAN, RecordPurge(w)
           PROVE  KeyInv'
      <4>1. UNCHANGED tenantKey /\ Renews("purge", "done", NoKey)
        BY <3>14, Effects DEF RecordPurge
      <4> QED
        BY <3>1, <3>5, <4>1
    <3>15. ASSUME NEW w \in BOOLEAN, RecordOffboard(w)
           PROVE  KeyInv'
      <4>1. Renews("offboard", "done", NoKey)
        BY <3>15, Effects
      <4>2. CASE UNCHANGED tenantKey
        BY <3>1, <3>5, <4>1, <4>2
      <4>3. CASE tx["offboard"].key \in Keys /\ tenantKey' = Destroyed
        <5>1. \A b \in Actors : b = "offboard" \/ tx'[b] = tx[b]
          BY <4>1 DEF Moves, Renews
        <5>2. tx'["offboard"].key = NoKey /\ tx'["offboard"].made = NoKey
          BY <4>1 DEF Moves, Renews
        <5>3. \A b \in Actors : tx[b].made = NoKey
          BY <3>1, <4>3 DEF KeyInv
        <5>4. \A b \in Keyed : b # "offboard"
          BY DEF Keyed
        <5> QED
          BY <3>1, <4>3, <5>1, <5>2, <5>3, <5>4 DEF KeyInv, Sealing
      <4> QED
        BY <3>15, <4>2, <4>3 DEF RecordOffboard
    <3>16. ASSUME UNCHANGED vars \/ \E d \in Deals : Age(d)
           PROVE  KeyInv'
      BY <3>16 DEF vars, Age, KeyInv, Sealing
    <3>17. ASSUME NEW p \in Procs, Expire(p)
           PROVE  KeyInv'
      BY <3>17 DEF Expire, KeyInv, Sealing
    <3> QED
      BY <3>7, <3>8, <3>9, <3>10, <3>11, <3>12, <3>13, <3>14, <3>15, <3>16, <3>17
         DEF Next, KeyStep, OffboardStep, Keyed
  \* A row is sealed with a key in hand, and a key is published only when no row
  \* is sealed yet or by the transaction that seals the first one.
  <2>3. ASSUME TypeOK, KeyInv, SealedUnderTheFirmsKey, [Next]_vars
       PROVE  SealedUnderTheFirmsKey'
    <3> USE <2>3
    <3> USE KeyAssumption
    <3>1. ASSUME tenantKey' \in {tenantKey, Destroyed},
                 \A d \in Deals : Exists(d)' => Exists(d) /\ deal'[d].key = deal[d].key
          PROVE  SealedUnderTheFirmsKey'
      BY <3>1 DEF SealedUnderTheFirmsKey
    <3>2. Reqs \subseteq Keyed /\ "backfill" \in Keyed /\ Keyed \subseteq Actors
      BY DEF Actors, Keyed, Tools
    <3>3. ASSUME NEW a \in Keyed, Publish(a),
                 \A d \in Deals : Exists(d)' /\ deal'[d].key # Plain =>
                   \/ Exists(d) /\ deal'[d].key = deal[d].key
                   \/ deal'[d].key = tx[a].key /\ tx[a].key \in Keys
          PROVE  SealedUnderTheFirmsKey'
      <4>1. /\ tx[a].key \in Keys => tx[a].made = tx[a].key \/ tenantKey \in {tx[a].key, Destroyed}
            /\ tx[a].made # NoKey => tx[a].made = tx[a].key /\ tenantKey = NoKey
        BY <3>2 DEF KeyInv
      <4>2. \A d \in Deals : Exists(d) /\ deal[d].key # Plain =>
                               deal[d].key \in Keys /\ tenantKey \in {deal[d].key, Destroyed}
        BY DEF Exists, Row, SealedUnderTheFirmsKey
      <4>3. tenantKey' = IF tx[a].made = NoKey THEN tenantKey ELSE tx[a].made
        BY <3>3 DEF Publish
      <4> QED
        BY <3>3, <4>1, <4>2, <4>3 DEF SealedUnderTheFirmsKey
    <3>4. ASSUME NEW r \in Reqs, Present(r)
          PROVE  SealedUnderTheFirmsKey'
      <4>1. tx[r].key \in Keys
        BY <3>2, <3>4 DEF Present, KeyInv, Sealing
      <4>2. \A d \in Deals : deal'[d] = deal[d] \/ deal'[d].key = tx[r].key
        BY <3>4 DEF Present
      <4> QED
        BY <3>2, <3>3, <3>4, <4>1, <4>2 DEF Present, Exists, Row
    <3>5. ASSUME NEW r \in Reqs, CommitQuiet(r)
          PROVE  SealedUnderTheFirmsKey'
      <4>1. \A d \in Deals : Exists(d)' => Exists(d) /\ deal'[d].key = deal[d].key
        BY <3>5 DEF CommitQuiet, Exists, TypeOK, Row, Absent, Gone
      <4> QED
        BY <3>2, <3>3, <3>5, <4>1 DEF CommitQuiet
    <3>6. ASSUME ConvertBatch
          PROVE  SealedUnderTheFirmsKey'
      <4>1. tx["backfill"].key \in Keys
        BY <3>2, <3>6 DEF ConvertBatch, KeyInv, Sealing
      <4>2. \A d \in Deals : deal'[d] = deal[d] \/ deal'[d].key = tx["backfill"].key
        BY <3>6 DEF ConvertBatch, Exists, Row
      <4> QED
        BY <3>2, <3>3, <3>6, <4>1, <4>2 DEF ConvertBatch, Exists
    <3>7. ASSUME NEW w \in BOOLEAN, RecordPurge(w) \/ RecordOffboard(w)
          PROVE  SealedUnderTheFirmsKey'
      <4>1. \A d \in Deals : deal'[d] = deal[d] \/ deal'[d] = Gone
        BY <3>7 DEF RecordPurge, RecordOffboard, Erase
      <4>2. ~ Gone \in Row
        BY DEF Gone, Row
      <4>3. tenantKey' \in {tenantKey, Destroyed}
        BY <3>7 DEF RecordPurge, RecordOffboard
      <4> QED
        BY <3>1, <4>1, <4>2, <4>3 DEF Exists
    <3>8. ASSUME NEW d \in Deals, Age(d)
          PROVE  SealedUnderTheFirmsKey'
      <4>1. \A e \in Deals : Exists(e)' => Exists(e) /\ deal'[e].key = deal[e].key
        BY <3>8 DEF Age, Exists, TypeOK, Row
      <4> QED
        BY <3>1, <3>8, <4>1 DEF Age
    <3>9. UNCHANGED <<deal, tenantKey>> => SealedUnderTheFirmsKey'
      BY <3>1 DEF Exists
    <3>10. ASSUME NEW a, SelectKey(a) \/ LockKey(a) \/ CreateKey(a) \/ Abort(a)
                         \/ Arrive(a) \/ Write(a) \/ List(a) \/ Open(a) \/ Expire(a)
           PROVE  UNCHANGED <<deal, tenantKey>>
      BY <3>10 DEF SelectKey, LockKey, CreateKey, Abort, Arrive, Write, List, Open, Expire
    <3>11. ASSUME \/ UNCHANGED vars \/ Backfill \/ SelectPlain \/ FinishBackfill \/ Purge
                  \/ Offboard \/ DeleteDeals \/ DeleteUsers \/ Shred \/ DestroyMaterial
           PROVE  UNCHANGED <<deal, tenantKey>>
      BY <3>11 DEF vars, Backfill, SelectPlain, FinishBackfill, Purge,
           Offboard, DeleteDeals, DeleteUsers, Shred, DestroyMaterial
    <3> QED
      BY <3>4, <3>5, <3>6, <3>7, <3>8, <3>9, <3>10, <3>11
         DEF Next, KeyStep, Request, BackfillStep, OffboardStep
  \* Every step keeps the row locks: a lock is taken on rows that are there and
  \* free, and rows disappear only with the transaction that holds them.
  <2>4. ASSUME TypeOK, KeyInv, LockInv, [Next]_vars
       PROVE  LockInv'
    <3> USE <2>4
    <3> USE KeyAssumption, ReqAssumption
    <3>1. Reqs \subseteq Actors /\ Keyed \subseteq Actors /\ {"backfill", "purge", "offboard"} \subseteq Actors
      BY DEF Actors, Keyed, Tools
    <3>2. ASSUME NEW a \in Actors
          PROVE  /\ tx[a].locked \subseteq Deals /\ tx[a].deal \subseteq Deals
                 /\ RowsFree(a, tx[a].locked) /\ RowsFree(a, {})
      BY DEF TypeOK, Tx, LockInv, RowsFree
    <3> DEFINE Fits(a, pc, ds, locked) ==
                 /\ a = "purge" /\ pc = "record" => ds \subseteq locked
                 /\ a = "offboard" /\ pc \in {"users", "shred", "material", "record"} => ds \subseteq locked
                 /\ a = "backfill" /\ pc \in {"key", "lock", "create", "write"} =>
                      DOMAIN batch' = locked /\ DOMAIN batch' # {}
                 /\ a # "backfill" => UNCHANGED batch
    <3>3. ASSUME NEW a \in Actors, NEW pc, NEW kind, NEW ds, NEW key, NEW made, NEW locked,
                 Moves(a, pc, kind, ds, key, made, locked),
                 \A d \in locked : Exists(d)',
                 \A b \in Actors \ {a} : \A d \in tx[b].locked : Exists(d)',
                 RowsFree(a, locked), Fits(a, pc, ds, locked)
          PROVE  LockInv'
      <4>1. \A b \in Actors : b = a \/ tx'[b] = tx[b]
        BY <3>3 DEF Moves
      <4>2. tx'[a].pc = pc /\ tx'[a].deal = ds /\ tx'[a].locked = locked
        BY <3>3 DEF Moves
      <4>3. \A b \in Actors : \A d \in tx'[b].locked : Exists(d)'
        BY <3>3, <4>1, <4>2
      <4>4. \A b, c \in Actors : b # c => tx'[b].locked \cap tx'[c].locked = {}
        BY <3>3, <4>1, <4>2 DEF LockInv, RowsFree
      <4>5. tx'["purge"].pc = "record" => tx'["purge"].deal \subseteq tx'["purge"].locked
        BY <3>1, <3>3, <4>1, <4>2 DEF LockInv
      <4>6. Converting' => DOMAIN batch' = tx'["backfill"].locked /\ DOMAIN batch' # {}
        BY <3>1, <3>3, <4>1, <4>2 DEF LockInv, Converting
      <4>7. Erasing' => tx'["offboard"].deal \subseteq tx'["offboard"].locked
        BY <3>1, <3>3, <4>1, <4>2 DEF LockInv, Erasing
      <4> QED
        BY <4>3, <4>4, <4>5, <4>6, <4>7 DEF LockInv
    <3>4. UNCHANGED deal => \A b \in Actors : \A d \in tx[b].locked : Exists(d)'
      BY DEF LockInv, Exists
    <3>5. ASSUME NEW a \in Actors, NEW pc \in {"done", "select"}, NEW key, Renews(a, pc, key),
                 a # "backfill" => UNCHANGED batch,
                 \A b \in Actors \ {a} : \A d \in tx[b].locked : Exists(d)'
          PROVE  LockInv'
      <4>1. Fits(a, pc, {}, {})
        BY <3>5
      <4> HIDE DEF Fits
      <4> QED
        BY <3>2, <3>3, <3>5, <4>1 DEF Renews
    <3>6. ASSUME NEW a \in Actors, NEW pc, NEW ds, NEW key, NEW locked, Proceeds(a, pc, ds, key, locked),
                 UNCHANGED deal, RowsFree(a, locked), Fits(a, pc, ds, locked), \A d \in locked : Exists(d)
          PROVE  LockInv'
      <4>1. \A d \in locked : Exists(d)'
        BY <3>6 DEF Exists
      <4> HIDE DEF Fits
      <4> QED
        BY <3>3, <3>4, <3>6, <4>1 DEF Proceeds
    <3>7. ASSUME NEW a \in Keyed, SelectKey(a) \/ LockKey(a) \/ CreateKey(a)
          PROVE  LockInv'
      <4>1. \E key, made : \E pc \in {"lock", "create", "write"} :
               Moves(a, pc, tx[a].kind, tx[a].deal, key, made, tx[a].locked)
        BY <3>7, Effects DEF Stays, Proceeds
      <4>2. UNCHANGED <<deal, batch>> /\ (a = "backfill" => Converting)
        BY <3>7 DEF SelectKey, LockKey, CreateKey, Converting
      <4>3. \A pc \in {"lock", "create", "write"} : Fits(a, pc, tx[a].deal, tx[a].locked)
        BY <4>2 DEF LockInv, Keyed
      <4>4. \A d \in tx[a].locked : Exists(d)'
        BY <3>1, <3>4, <4>2
      <4> HIDE DEF Fits
      <4> QED
        BY <3>1, <3>2, <3>3, <3>4, <4>1, <4>2, <4>3, <4>4
    <3>8. ASSUME NEW r \in Reqs, Arrive(r) \/ Write(r) \/ List(r) \/ Open(r)
          PROVE  LockInv'
      <4>1. /\ UNCHANGED <<deal, batch>> /\ r \notin {"backfill", "purge", "offboard"}
            /\ \A d \in tx[r].locked : Exists(d)
        BY <3>1, <3>8 DEF Arrive, Write, List, Open, LockInv
      <4>2. CASE Arrive(r)
        <5>1. PICK kind \in {"GET", "POST", "PUT", "DELETE"}, d \in Deals :
                Moves(r, FirstStep[kind], kind, {d}, NoKey, NoKey, {})
          BY <4>2, Effects
        <5>2. Fits(r, FirstStep[kind], {d}, {})
          BY <4>1
        <5> HIDE DEF Fits
        <5> QED
          BY <3>1, <3>2, <3>3, <3>4, <4>1, <5>1, <5>2
      <4>3. CASE Write(r)
        <5> DEFINE pc == IF Finds(r) /\ tx[r].kind # "DELETE" THEN "present" ELSE "commit"
                   locked == IF There(r) THEN tx[r].deal ELSE {}
        <5>1. Proceeds(r, pc, tx[r].deal, tx[r].key, locked)
          BY <4>3, Effects
        <5>2. /\ RowsFree(r, locked) /\ \A d \in locked : Exists(d)
              /\ Fits(r, pc, tx[r].deal, locked)
          BY <4>1, <4>3 DEF Write, RowsFree, There, Live
        <5> HIDE DEF pc, locked, Fits
        <5> QED
          BY <3>1, <3>6, <4>1, <5>1, <5>2
      <4>4. CASE List(r)
        <5>1. Fits(r, "open", tx[r].deal, tx[r].locked)
          BY <4>1
        <5>2. Renews(r, "done", NoKey) \/ Stays(r, "open")
          BY <4>4, Effects
        <5> HIDE DEF Fits
        <5> QED
          BY <3>1, <3>2, <3>4, <3>5, <3>6, <4>1, <5>1, <5>2 DEF Stays
      <4>5. CASE Open(r)
        BY <3>1, <3>4, <3>5, <4>1, <4>5, Effects
      <4> QED
        BY <3>8, <4>2, <4>3, <4>4, <4>5
    <3>9. ASSUME NEW r \in Reqs, Present(r) \/ CommitQuiet(r)
          PROVE  LockInv'
      <4>1. Renews(r, "done", NoKey) /\ UNCHANGED batch
        BY <3>9, Effects DEF Present, CommitQuiet
      <4>2. \A d \in Deals : Exists(d) => Exists(d)'
        <5>1. CASE Present(r)
          <6>1. tx[r].key \in Keys
            BY <5>1 DEF Present, KeyInv, Sealing, Keyed
          <6> QED
            BY <5>1, <6>1 DEF Present, Exists, Row, Writers
        <5>2. CASE CommitQuiet(r)
          BY <5>2 DEF CommitQuiet, Exists, Row
        <5> QED
          BY <3>9, <5>1, <5>2
      <4> QED
        BY <3>1, <3>2, <3>5, <4>1, <4>2 DEF LockInv
    <3>10. ASSUME NEW a \in Actors, Abort(a)
           PROVE  LockInv'
      BY <3>4, <3>5, <3>10, Effects DEF Abort
    <3>11. ASSUME NEW d \in Deals, Age(d)
           PROVE  LockInv'
      <4>1. \A e \in Deals : Exists(e) => Exists(e)'
        BY <3>11 DEF Age, Exists, Row, TypeOK
      <4> QED
        BY <3>1, <3>2, <3>11, <4>1 DEF Age, LockInv, Converting, Erasing
    <3>12. ASSUME BackfillStep
           PROVE  LockInv'
      <4>1. CASE Backfill
        <5>1. UNCHANGED <<deal, batch>> /\ Fits("backfill", "select", tx["backfill"].deal, tx["backfill"].locked)
          BY <4>1 DEF Backfill
        <5>2. \A d \in tx["backfill"].locked : Exists(d)
          BY <3>1 DEF LockInv
        <5> HIDE DEF Fits
        <5> QED
          BY <3>1, <3>2, <3>6, <4>1, <5>1, <5>2, Effects DEF Stays
      <4>2. CASE SelectPlain
        <5>1. /\ UNCHANGED deal /\ RowsFree("backfill", PlainRows)
              /\ DOMAIN batch' = PlainRows /\ PlainRows # {}
          BY <4>2 DEF SelectPlain
        <5>2. Fits("backfill", "key", tx["backfill"].deal, PlainRows) /\ \A d \in PlainRows : Exists(d)
          BY <5>1 DEF PlainRows
        <5> HIDE DEF Fits
        <5> QED
          BY <3>1, <3>6, <4>2, <5>1, <5>2, Effects
      <4>3. CASE ConvertBatch
        <5>1. tx["backfill"].key \in Keys
          BY <4>3 DEF ConvertBatch, KeyInv, Sealing, Keyed
        <5>2. \A d \in Deals : Exists(d) => Exists(d)'
          BY <4>3, <5>1 DEF ConvertBatch, Exists, Row, TypeOK
        <5> QED
          BY <3>1, <3>2, <3>5, <4>3, <5>2, Effects DEF LockInv
      <4>4. CASE FinishBackfill
        BY <3>1, <3>4, <3>5, <4>4, Effects DEF FinishBackfill
      <4> QED
        BY <3>12, <4>1, <4>2, <4>3, <4>4 DEF BackfillStep
    <3>13. ASSUME Purge
           PROVE  LockInv'
      <4>1. /\ UNCHANGED <<deal, batch>> /\ RowsFree("purge", DueRows)
            /\ \A d \in DueRows : Exists(d)
        BY <3>13 DEF Purge, DueRows
      <4>2. Fits("purge", "record", DueRows, DueRows)
        BY <4>1
      <4> HIDE DEF Fits
      <4> QED
        BY <3>1, <3>6, <3>13, <4>1, <4>2, Effects
    <3>14. ASSUME NEW w \in BOOLEAN, NEW a \in {"purge", "offboard"}, tx[a].pc = "record",
                  (RecordPurge(w) /\ a = "purge") \/ (RecordOffboard(w) /\ a = "offboard")
           PROVE  LockInv'
      <4>1. Renews(a, "done", NoKey) /\ UNCHANGED batch
        BY <3>14, Effects DEF RecordPurge, RecordOffboard
      <4>2. tx[a].deal \subseteq tx[a].locked
        BY <3>14 DEF LockInv, Erasing
      <4>3. \A d \in Deals : Exists(d) /\ d \notin tx[a].deal => Exists(d)'
        BY <3>14 DEF RecordPurge, RecordOffboard, Erase, Exists
      <4>4. \A b \in Actors \ {a} : \A d \in tx[b].locked : d \in Deals /\ Exists(d) /\ d \notin tx[a].deal
        BY <3>1, <3>2, <4>2 DEF LockInv
      <4> QED
        BY <3>1, <3>5, <4>1, <4>3, <4>4
    <3>15. ASSUME Offboard \/ DeleteDeals \/ DeleteUsers \/ Shred \/ DestroyMaterial
           PROVE  LockInv'
      <4>1. /\ UNCHANGED <<deal, batch>> /\ \A d \in Rows \cup tx["offboard"].locked : Exists(d)
            /\ tx["offboard"].locked \subseteq Rows
        BY <3>1, <3>2, <3>15 DEF Offboard, DeleteDeals, DeleteUsers, Shred, DestroyMaterial, Rows, LockInv
      <4>2. CASE Offboard
        <5>1. Fits("offboard", "deals", tx["offboard"].deal, tx["offboard"].locked)
          BY <4>1
        <5> HIDE DEF Fits
        <5> QED
          BY <3>1, <3>2, <3>6, <4>1, <4>2, <5>1, Effects DEF Stays
      <4>3. CASE DeleteDeals
        <5>1. Fits("offboard", "users", Rows, Rows) /\ RowsFree("offboard", Rows)
          BY <4>1, <4>3 DEF DeleteDeals
        <5> HIDE DEF Fits
        <5> QED
          BY <3>1, <3>6, <4>1, <4>3, <5>1, Effects
      <4>4. CASE DeleteUsers
        <5>1. tx["offboard"].deal \subseteq tx["offboard"].locked
          BY <4>4 DEF DeleteUsers, LockInv, Erasing
        <5>2. Fits("offboard", "shred", tx["offboard"].deal, Rows) /\ RowsFree("offboard", Rows)
          BY <4>1, <4>4, <5>1 DEF DeleteUsers
        <5> HIDE DEF Fits
        <5> QED
          BY <3>1, <3>6, <4>1, <4>4, <5>2, Effects
      <4>5. CASE Shred \/ DestroyMaterial
        <5>1. tx["offboard"].deal \subseteq tx["offboard"].locked
          BY <4>5 DEF Shred, DestroyMaterial, LockInv, Erasing
        <5>2. \A pc \in {"material", "record"} : Fits("offboard", pc, tx["offboard"].deal, tx["offboard"].locked)
          BY <4>1, <5>1
        <5>3. \E pc \in {"material", "record"}, key \in {ShredKey, tx["offboard"].key} :
                 Proceeds("offboard", pc, tx["offboard"].deal, key, tx["offboard"].locked)
          BY <4>5, Effects DEF Stays
        <5> HIDE DEF Fits
        <5> QED
          BY <3>1, <3>2, <3>6, <4>1, <5>2, <5>3
      <4> QED
        BY <3>15, <4>2, <4>3, <4>4, <4>5
    <3>16. ASSUME UNCHANGED vars \/ \E p \in Procs : Expire(p)
           PROVE  LockInv'
      BY <3>16 DEF vars, Expire, LockInv, Exists, Converting, Erasing
    <3>17. ASSUME NEW w \in BOOLEAN, RecordPurge(w) \/ RecordOffboard(w)
           PROVE  LockInv'
      <4>1. CASE RecordPurge(w)
        <5>1. tx["purge"].pc = "record"
          BY <4>1 DEF RecordPurge
        <5> QED
          BY <3>14, <4>1, <5>1
      <4>2. CASE RecordOffboard(w)
        <5>1. tx["offboard"].pc = "record"
          BY <4>2 DEF RecordOffboard
        <5> QED
          BY <3>14, <4>2, <5>1
      <4> QED
        BY <3>17, <4>1, <4>2
    <3> HIDE DEF Fits
    <3> QED
      BY <3>7, <3>8, <3>9, <3>10, <3>11, <3>12, <3>13, <3>15, <3>16, <3>17
         DEF Next, KeyStep, Request, OffboardStep, Keyed
  \* Every step keeps what offboarding has established.  Once the users are
  \* deleted no request can write a deal and no batch can be converted, so the
  \* rows are the ones the shredded key sealed.
  <2>5. ASSUME TypeOK, KeyInv, LockInv, SealedUnderTheFirmsKey, EraseInv, [Next]_vars
       PROVE  EraseInv'
    <3> USE <2>5
    <3> USE KeyAssumption, ReqAssumption
    <3>1. /\ Reqs \subseteq Keyed /\ Keyed \subseteq Actors
          /\ {"backfill", "purge", "offboard"} \subseteq Actors
          /\ "backfill" \in Keyed /\ "offboard" \notin Keyed /\ "purge" \notin Keyed
      BY DEF Actors, Keyed, Tools
    <3> DEFINE Sealed(d) == Exists(d) /\ deal[d].key # Plain
               Unlocked == ~UsersLocked /\ tenant = "live"
               KeepsRow(d) == Exists(d) /\ deal'[d].key = deal[d].key
    <3>2. \A d \in Deals : Sealed(d) => deal[d].key \in Keys /\ tenantKey \in {deal[d].key, Destroyed}
      BY DEF Exists, Row, SealedUnderTheFirmsKey
    <3>3. tenant \in {"live", "offboarded"}
      BY DEF TypeOK
    <3>4. Converting => Unlocked
      <4>1. Converting => tenant = "live"
        BY <3>3 DEF EraseInv
      <4>2. Converting /\ UsersLocked => FALSE
        <5>1. ASSUME Converting, UsersLocked
              PROVE  FALSE
          <6>1. PICK d \in tx["backfill"].locked : TRUE
            BY <5>1 DEF LockInv
          <6>2. d \in Deals /\ Exists(d)
            BY <3>1, <6>1 DEF LockInv, TypeOK, Tx
          <6>3. d \in tx["offboard"].locked
            BY <5>1, <6>2 DEF EraseInv
          <6> QED
            BY <3>1, <6>1, <6>3 DEF LockInv
        <5> QED
          BY <5>1
      <4> QED
        BY <4>1, <4>2
    <3>5. \A r \in Reqs : SharesUser(r) => Unlocked
      BY <3>3 DEF EraseInv
    <3>6. ASSUME NEW a \in Actors \ {"offboard"}, NEW pc, NEW locked, UNCHANGED <<tenantKey, tenant>>,
                 \A b \in Actors \ {a} : tx'[b] = tx[b],
                 tx'[a].pc = pc, tx'[a].locked = locked,
                 \A d \in Deals : Exists(d)' => KeepsRow(d),
                 a \in Reqs /\ pc = "open" => tx[a].pc = "open" \/ \E d \in Deals : Sealed(d),
                 a \in Reqs /\ (pc = "present" \/ (pc = "commit" /\ locked # {})) => Unlocked,
                 a = "backfill" /\ pc \in {"key", "lock", "create", "write"} => Converting \/ PlainRows # {}
          PROVE  EraseInv'
      <4>1. tx'["offboard"] = tx["offboard"]
        BY <3>1, <3>6
      <4>2. \A r \in Reqs : SharesUser(r)' => Unlocked
        BY <3>1, <3>5, <3>6 DEF SharesUser
      <4>3. \A r \in Reqs : tx'[r].pc = "open" => tx[r].pc = "open" \/ \E d \in Deals : Sealed(d)
        BY <3>1, <3>6
      <4>4. Converting' => Converting \/ PlainRows # {}
        BY <3>1, <3>6 DEF Converting
      <4>5. /\ tx'["offboard"].pc \notin {"idle", "done"} => tenant' = "live"
            /\ tenantKey' = Destroyed => tenant' = "offboarded"
        BY <3>6, <4>1 DEF EraseInv
      <4>6. \A r \in Reqs : tx'[r].pc = "open" => tenantKey' # NoKey
        BY <3>2, <3>6, <4>3 DEF EraseInv
      <4>7. Erasing' => \A d \in Deals : Exists(d)' /\ deal'[d].key = Plain => d \in tx'["offboard"].deal
        BY <3>6, <4>1 DEF EraseInv, Erasing
      <4>8. UsersLocked' => /\ \A d \in Deals : Exists(d)' => d \in tx'["offboard"].locked
                            /\ \A r \in Reqs : ~SharesUser(r)'
        BY <3>6, <4>1, <4>2 DEF EraseInv, UsersLocked
      <4>9. tx'["offboard"].pc \in {"material", "record"} /\ tx'["offboard"].key \notin Keys =>
              /\ \A d \in Deals : Exists(d)' => deal'[d].key = Plain
              /\ \A r \in Reqs : tx'[r].pc # "open"
        BY <3>6, <4>1, <4>3 DEF EraseInv
      <4>10. ASSUME tenant' = "offboarded"
             PROVE  /\ NothingOpensAfterErasure'
                    /\ tenantKey' = Destroyed \/ \A r \in Reqs : tx'[r].pc # "open"
                    /\ \A r \in Reqs : ~SharesUser(r)'
                    /\ ~Converting'
        <5>1. \A d \in Deals : Exists(d) => Sealed(d) /\ tenantKey = Destroyed
          BY <3>6, <4>10 DEF EraseInv, NothingOpensAfterErasure
        <5>2. NothingOpensAfterErasure'
          BY <3>6, <5>1 DEF NothingOpensAfterErasure
        <5>3. tenantKey' = Destroyed \/ \A r \in Reqs : tx'[r].pc # "open"
          BY <3>6, <4>3, <4>10, <5>1 DEF EraseInv
        <5>4. ~Converting'
          BY <3>6, <4>4, <4>10, <5>1 DEF EraseInv, PlainRows
        <5> QED
          BY <3>6, <4>2, <4>10, <5>2, <5>3, <5>4
      <4> HIDE DEF Sealed, Unlocked, KeepsRow
      <4> QED
        BY <4>5, <4>6, <4>7, <4>8, <4>9, <4>10 DEF EraseInv
    <3>7. ASSUME NEW a \in Keyed, NEW pc \in {"done", "select"}, Publish(a), Renews(a, pc, NoKey),
                 UNCHANGED tenant,
                 \A d \in Deals : Exists(d)' => KeepsRow(d) \/ (deal'[d].key # Plain /\ Unlocked)
          PROVE  EraseInv'
      <4>1. /\ tx'["offboard"] = tx["offboard"]
            /\ \A r \in Reqs : tx'[r] = tx[r] \/ tx'[r].pc = pc
            /\ tx'["backfill"] = tx["backfill"] \/ tx'["backfill"].pc = pc
        BY <3>1, <3>7 DEF Renews, Moves
      <4>2. /\ tx[a].made # NoKey => tenantKey = NoKey /\ tx[a].made \in Keys
            /\ tenantKey' = IF tx[a].made = NoKey THEN tenantKey ELSE tx[a].made
        BY <3>1, <3>7 DEF KeyInv, Publish, TypeOK, Tx
      <4>3. \A r \in Reqs : SharesUser(r)' => SharesUser(r)
        BY <4>1 DEF SharesUser
      <4>4. Converting' => Converting
        BY <4>1 DEF Converting
      <4>5. /\ tx'["offboard"].pc \notin {"idle", "done"} => tenant' = "live"
            /\ tenantKey' = Destroyed => tenant' = "offboarded"
        BY <3>7, <4>1, <4>2 DEF EraseInv
      <4>6. \A r \in Reqs : tx'[r].pc = "open" => tx[r].pc = "open" /\ tenantKey' # NoKey
        BY <4>1, <4>2 DEF EraseInv
      <4>7. Erasing' => \A d \in Deals : Exists(d)' /\ deal'[d].key = Plain => d \in tx'["offboard"].deal
        BY <3>7, <4>1 DEF EraseInv, Erasing
      <4>8. UsersLocked' => /\ \A d \in Deals : Exists(d)' => d \in tx'["offboard"].locked
                            /\ \A r \in Reqs : ~SharesUser(r)'
        BY <3>7, <4>1, <4>3 DEF EraseInv, UsersLocked
      <4>9. tx'["offboard"].pc \in {"material", "record"} /\ tx'["offboard"].key \notin Keys =>
              /\ \A d \in Deals : Exists(d)' => deal'[d].key = Plain
              /\ \A r \in Reqs : tx'[r].pc # "open"
        BY <3>7, <4>1, <4>6 DEF EraseInv, UsersLocked
      <4>10. ASSUME tenant' = "offboarded"
             PROVE  /\ NothingOpensAfterErasure'
                    /\ tenantKey' = Destroyed \/ \A r \in Reqs : tx'[r].pc # "open"
                    /\ \A r \in Reqs : ~SharesUser(r)'
                    /\ ~Converting'
        <5>1. \A d \in Deals : Exists(d) => Sealed(d) /\ tenantKey = Destroyed
          BY <3>7, <4>10 DEF EraseInv, NothingOpensAfterErasure
        <5>2. NothingOpensAfterErasure'
          BY <3>7, <4>2, <4>10, <5>1 DEF NothingOpensAfterErasure
        <5>3. tenantKey' = Destroyed \/ \A r \in Reqs : tx'[r].pc # "open"
          BY <3>7, <4>2, <4>6, <4>10 DEF EraseInv
        <5> QED
          BY <3>7, <4>3, <4>4, <4>10, <5>2, <5>3 DEF EraseInv
      <4> HIDE DEF Sealed, Unlocked, KeepsRow
      <4> QED
        BY <4>5, <4>6, <4>7, <4>8, <4>9, <4>10 DEF EraseInv
    <3>8. UNCHANGED deal => \A d \in Deals : Exists(d)' => KeepsRow(d)
      BY DEF Exists
    <3>9. ASSUME NEW a \in Keyed, SelectKey(a) \/ LockKey(a) \/ CreateKey(a)
          PROVE  EraseInv'
      <4>1. /\ UNCHANGED <<deal, tenantKey, tenant>>
            /\ a = "backfill" => Converting
        BY <3>9 DEF SelectKey, LockKey, CreateKey, Converting
      <4>2. /\ \A b \in Actors \ {a} : tx'[b] = tx[b]
            /\ tx'[a].pc \in {"lock", "create", "write"}
        BY <3>9, Effects DEF Stays, Proceeds, Moves
      <4> HIDE DEF Sealed, Unlocked, KeepsRow
      <4> QED
        BY <3>1, <3>6, <3>8, <4>1, <4>2
    <3>10. ASSUME NEW r \in Reqs, Arrive(r) \/ List(r) \/ Open(r) \/ Write(r)
           PROVE  EraseInv'
      <4>1. UNCHANGED <<deal, tenantKey, tenant>> /\ r \notin {"backfill", "purge", "offboard"}
        BY <3>10 DEF Arrive, List, Open, Write
      <4>2. \A b \in Actors \ {r} : tx'[b] = tx[b]
        BY <3>1, <3>10, Effects DEF Stays, Proceeds, Renews, Moves
      <4>3. tx'[r].pc = "open" => \E d \in Deals : Sealed(d)
        <5>1. CASE List(r)
          <6>1. CASE {d \in Deals : Live(d) /\ deal[d].key # Plain} = {}
            <7>1. End(r)
              BY <5>1, <6>1 DEF List
            <7>2. tx'[r].pc = "done"
              BY <3>1, <7>1 DEF End, NewTx, TypeOK
            <7> QED
              BY <7>2
          <6>2. CASE {d \in Deals : Live(d) /\ deal[d].key # Plain} # {}
            BY <6>2 DEF Live
          <6> QED
            BY <6>1, <6>2
        <5>2. CASE Arrive(r)
          BY <5>2, Effects DEF Moves, FirstStep
        <5>3. CASE Open(r) \/ Write(r)
          BY <5>3, Effects DEF Moves, Renews, Proceeds
        <5> QED
          BY <3>10, <5>1, <5>2, <5>3
      <4>4. tx'[r].pc = "present" \/ (tx'[r].pc = "commit" /\ tx'[r].locked # {}) => Unlocked
        <5>1. CASE Write(r)
          <6>1. /\ tx'[r].pc = IF Finds(r) /\ tx[r].kind # "DELETE" THEN "present" ELSE "commit"
                /\ tx'[r].locked = IF There(r) THEN tx[r].deal ELSE {}
            BY <5>1, Effects DEF Proceeds, Moves
          <6>2. Finds(r) => Unlocked
            BY <5>1 DEF Write, Finds, There
          <6> QED
            BY <6>1, <6>2 DEF Finds
        <5>2. CASE Arrive(r)
          BY <5>2, Effects DEF Moves, FirstStep
        <5>3. CASE Open(r) \/ List(r)
          BY <5>3, Effects DEF Moves, Renews, Stays, Proceeds
        <5> QED
          BY <3>10, <5>1, <5>2, <5>3
      <4> HIDE DEF Sealed, Unlocked, KeepsRow
      <4> QED
        BY <3>1, <3>6, <3>8, <4>1, <4>2, <4>3, <4>4
    <3>11. ASSUME NEW r \in Reqs, Present(r)
           PROVE  EraseInv'
      <4>1. Unlocked
        BY <3>5, <3>11 DEF Present, SharesUser
      <4>2. tx[r].key \in Keys
        BY <3>1, <3>11 DEF Present, KeyInv, Sealing
      <4>3. \A d \in Deals : Exists(d)' => KeepsRow(d) \/ (deal'[d].key # Plain /\ Unlocked)
        BY <3>11, <4>1, <4>2 DEF Present, Exists
      <4>4. Publish(r) /\ Renews(r, "done", NoKey) /\ UNCHANGED tenant
        BY <3>11, Effects DEF Present
      <4> HIDE DEF Sealed, Unlocked, KeepsRow
      <4> QED
        BY <3>1, <3>7, <4>3, <4>4
    <3>12. ASSUME NEW r \in Reqs, CommitQuiet(r)
           PROVE  EraseInv'
      <4>1. \A d \in Deals : Exists(d)' => KeepsRow(d)
        BY <3>12 DEF CommitQuiet, Exists, TypeOK, Row, Absent, Gone
      <4>2. Publish(r) /\ Renews(r, "done", NoKey) /\ UNCHANGED tenant
        BY <3>12, Effects DEF CommitQuiet
      <4> HIDE DEF Sealed, Unlocked, KeepsRow
      <4> QED
        BY <3>1, <3>7, <4>1, <4>2
    <3>13. ASSUME BackfillStep
           PROVE  EraseInv'
      <4>1. CASE ConvertBatch
        <5>1. Unlocked
          BY <3>4, <4>1 DEF ConvertBatch, Converting
        <5>2. tx["backfill"].key \in Keys
          BY <3>1, <4>1 DEF ConvertBatch, KeyInv, Sealing
        <5>3. \A d \in Deals : Exists(d)' => KeepsRow(d) \/ (deal'[d].key # Plain /\ Unlocked)
          BY <4>1, <5>1, <5>2 DEF ConvertBatch, Exists, TypeOK, Row
        <5>4. Publish("backfill") /\ Renews("backfill", "select", NoKey) /\ UNCHANGED tenant
          BY <4>1, Effects DEF ConvertBatch
        <5> HIDE DEF Sealed, Unlocked, KeepsRow
        <5> QED
          BY <3>1, <3>7, <5>3, <5>4
      <4>2. CASE Backfill \/ SelectPlain \/ FinishBackfill
        <5>1. /\ UNCHANGED <<deal, tenantKey, tenant>>
              /\ \A b \in Actors \ {"backfill"} : tx'[b] = tx[b]
          BY <4>2, Effects DEF Backfill, SelectPlain, FinishBackfill, Stays, Proceeds, Renews, Moves
        <5>2. tx'["backfill"].pc \in {"key", "lock", "create", "write"} => PlainRows # {}
          BY <4>2, Effects DEF Stays, Proceeds, Renews, Moves, SelectPlain
        <5>3. "backfill" \notin Reqs
          OBVIOUS
        <5> HIDE DEF Sealed, Unlocked, KeepsRow
        <5> QED
          BY <3>1, <3>6, <3>8, <5>1, <5>2, <5>3
      <4> QED
        BY <3>13, <4>1, <4>2 DEF BackfillStep
    <3>14. ASSUME NEW a \in Actors \ {"offboard"}, \E pc \in {"done", "record"} : tx'[a].pc = pc,
                  a \in Keyed => tx'[a].pc # "record",
                  \A b \in Actors \ {a} : tx'[b] = tx[b],
                  \A d \in Deals : Exists(d)' => KeepsRow(d),
                  UNCHANGED <<tenantKey, tenant>>
           PROVE  EraseInv'
      <4> HIDE DEF Sealed, Unlocked, KeepsRow
      <4> QED
        BY <3>1, <3>6, <3>14
    <3>15. ASSUME NEW a \in Actors \ {"offboard"}, Abort(a)
           PROVE  EraseInv'
      BY <3>8, <3>14, <3>15, Effects DEF Abort, Renews, Moves
    <3>16. ASSUME NEW w \in BOOLEAN, Purge \/ RecordPurge(w)
           PROVE  EraseInv'
      <4>1. \A d \in Deals : deal'[d] = deal[d] \/ deal'[d] = Gone
        BY <3>16 DEF Purge, RecordPurge, Erase
      <4>2. \A d \in Deals : Exists(d)' => KeepsRow(d)
        BY <4>1 DEF Exists, Gone, Row
      <4>3. /\ \A b \in Actors \ {"purge"} : tx'[b] = tx[b]
            /\ tx'["purge"].pc \in {"done", "record"}
        BY <3>16, Effects DEF Proceeds, Renews, Moves
      <4>4. UNCHANGED <<tenantKey, tenant>>
        BY <3>16 DEF Purge, RecordPurge
      <4> HIDE DEF Sealed, Unlocked, KeepsRow
      <4> QED
        BY <3>1, <3>14, <4>2, <4>3, <4>4
    <3>17. ASSUME UNCHANGED vars \/ (\E p \in Procs : Expire(p)) \/ (\E d \in Deals : Age(d))
           PROVE  EraseInv'
      <4>1. UNCHANGED <<tx, tenantKey, tenant>>
        BY <3>17 DEF vars, Expire, Age
      <4>2. \A d \in Deals : Exists(d)' => KeepsRow(d)
        BY <3>17 DEF vars, Expire, Age, Exists, TypeOK, Row
      <4>3. "purge" \in Actors \ {"offboard"} /\ "purge" \notin Reqs /\ "purge" # "backfill"
        BY <3>1
      <4> HIDE DEF Sealed, Unlocked, KeepsRow
      <4> QED
        BY <3>6, <4>1, <4>2, <4>3
    <3>18. ASSUME \A b \in Actors \ {"offboard"} : tx'[b] = tx[b], UNCHANGED <<deal, tenantKey, tenant>>,
                  /\ tx'["offboard"].pc \notin {"idle", "done"} => tenant = "live"
                  /\ Erasing' => \A d \in PlainRows : d \in tx'["offboard"].deal
                  /\ UsersLocked' => Rows \subseteq tx'["offboard"].locked /\ \A r \in Reqs : ~SharesUser(r)
                  /\ tx'["offboard"].pc \in {"material", "record"} /\ tx'["offboard"].key \notin Keys =>
                       (\A d \in Deals : ~Sealed(d)) /\ \A r \in Reqs : tx[r].pc # "open"
           PROVE  EraseInv'
      <4>1. /\ \A r \in Reqs : tx'[r] = tx[r] /\ (SharesUser(r)' <=> SharesUser(r))
            /\ Converting' <=> Converting
        BY <3>1, <3>18 DEF SharesUser, Converting
      <4>2. \A d \in Deals : Exists(d)' <=> Exists(d)
        BY <3>18 DEF Exists
      <4> QED
        BY <3>18, <4>1, <4>2 DEF EraseInv, PlainRows, Rows, NothingOpensAfterErasure
    <3>19. ASSUME Offboard \/ DeleteDeals \/ DeleteUsers \/ Shred \/ DestroyMaterial \/ Abort("offboard")
           PROVE  EraseInv'
      <4>1. UNCHANGED <<deal, tenantKey, tenant>> /\ \A b \in Actors \ {"offboard"} : tx'[b] = tx[b]
        BY <3>1, <3>19, Effects DEF Offboard, DeleteDeals, DeleteUsers, Shred, DestroyMaterial, Abort,
             Stays, Proceeds, Renews, Moves
      <4>2. CASE Offboard
        <5>1. tx'["offboard"].pc = "deals" /\ tenant = "live"
          BY <4>2, Effects DEF Offboard, Stays, Proceeds, Moves
        <5> QED
          BY <3>18, <4>1, <5>1 DEF Erasing, UsersLocked
      <4>3. CASE DeleteDeals
        <5>1. tx'["offboard"].pc = "users" /\ tx'["offboard"].deal = Rows
          BY <4>3, Effects DEF Proceeds, Moves
        <5>2. tenant = "live" /\ PlainRows \subseteq Rows
          BY <4>3 DEF DeleteDeals, EraseInv, PlainRows, Rows
        <5> QED
          BY <3>18, <4>1, <5>1, <5>2 DEF UsersLocked
      <4>4. CASE DeleteUsers
        <5>1. /\ tx'["offboard"].pc = "shred" /\ tx'["offboard"].deal = tx["offboard"].deal
              /\ tx'["offboard"].locked = Rows
          BY <4>4, Effects DEF Proceeds, Moves
        <5>2. /\ tenant = "live" /\ \A r \in Reqs : ~SharesUser(r)
              /\ \A d \in PlainRows : d \in tx["offboard"].deal
          BY <4>4 DEF DeleteUsers, EraseInv, Erasing, PlainRows
        <5> QED
          BY <3>18, <4>1, <5>1, <5>2
      <4>5. CASE Shred \/ DestroyMaterial
        <5>1. /\ tx'["offboard"].deal = tx["offboard"].deal /\ tx'["offboard"].locked = tx["offboard"].locked
              /\ tx'["offboard"].pc \in {"material", "record"}
              /\ tx'["offboard"].key \in {ShredKey, tx["offboard"].key}
          BY <4>5, Effects DEF Stays, Proceeds, Moves
        <5>2. /\ tenant = "live" /\ \A r \in Reqs : ~SharesUser(r)
              /\ \A d \in PlainRows : d \in tx["offboard"].deal
              /\ Rows \subseteq tx["offboard"].locked
          BY <4>5 DEF Shred, DestroyMaterial, EraseInv, Erasing, UsersLocked, PlainRows, Rows
        <5>3. tx'["offboard"].key \notin Keys =>
                (\A d \in Deals : ~Sealed(d)) /\ \A r \in Reqs : tx[r].pc # "open"
          <6>1. CASE Shred
            <7>1. tx'["offboard"].key = ShredKey
              BY <6>1, Effects DEF Proceeds, Moves
            <7>2. tenantKey \notin Keys => tenantKey = NoKey
              BY <5>2 DEF TypeOK, EraseInv
            <7> QED
              BY <3>2, <7>1, <7>2 DEF ShredKey, EraseInv
          <6>2. CASE DestroyMaterial
            <7>1. tx'["offboard"].key = tx["offboard"].key /\ tx["offboard"].pc = "material"
              BY <6>2, Effects DEF DestroyMaterial, Stays, Proceeds, Moves
            <7> QED
              BY <7>1 DEF EraseInv
          <6> QED
            BY <4>5, <6>1, <6>2
        <5> HIDE DEF Sealed
        <5> QED
          BY <3>18, <4>1, <5>1, <5>2, <5>3
      <4>6. CASE Abort("offboard")
        <5>1. tx'["offboard"].pc = "done"
          BY <3>1, <4>6, Effects DEF Renews, Moves
        <5> QED
          BY <3>18, <4>1, <5>1 DEF Erasing, UsersLocked
      <4> QED
        BY <3>19, <4>2, <4>3, <4>4, <4>5, <4>6
    <3>20. ASSUME NEW w \in BOOLEAN, RecordOffboard(w)
           PROVE  EraseInv'
      <4>1. (\A b \in Actors \ {"offboard"} : tx'[b] = tx[b]) /\ tx'["offboard"].pc = "done"
        BY <3>20, Effects DEF Renews, Moves
      <4>2. CASE ~w
        <5>1. UNCHANGED <<deal, tenantKey, tenant>>
          BY <3>20, <4>2 DEF RecordOffboard
        <5> QED
          BY <3>18, <4>1, <5>1 DEF Erasing, UsersLocked
      <4>3. CASE w
        <5>1. /\ tx["offboard"].pc = "record" /\ tenant' = "offboarded"
              /\ deal' = [d \in Deals |-> IF d \in tx["offboard"].deal THEN Gone ELSE deal[d]]
              /\ tenantKey' = IF tx["offboard"].key \in Keys THEN Destroyed ELSE tenantKey
          BY <3>20, <4>3 DEF RecordOffboard, Erase
        <5>2. \A d \in Deals : Exists(d)' => KeepsRow(d) /\ d \notin tx["offboard"].deal
          BY <5>1 DEF Exists, Gone, Row
        <5>3. \A d \in Deals : Exists(d)' => Sealed(d) /\ deal'[d].key # Plain /\ tx["offboard"].key \in Keys
          BY <5>1, <5>2 DEF EraseInv, Erasing
        <5>4. /\ \A r \in Reqs : ~SharesUser(r) /\ tx'[r] = tx[r]
              /\ ~Converting /\ tx'["backfill"] = tx["backfill"]
          BY <3>1, <3>4, <4>1, <5>1 DEF EraseInv, UsersLocked
        <5>5. tenantKey' = Destroyed \/ \A r \in Reqs : tx'[r].pc # "open"
          BY <5>1, <5>4 DEF EraseInv
        <5>6. NothingOpensAfterErasure'
          BY <5>1, <5>3 DEF NothingOpensAfterErasure
        <5>7. ~Converting' /\ \A r \in Reqs : ~SharesUser(r)'
          BY <5>4 DEF Converting, SharesUser
        <5>8. \A r \in Reqs : tx'[r].pc = "open" => tenantKey' # NoKey
          BY <5>1, <5>4 DEF EraseInv
        <5> QED
          BY <4>1, <5>1, <5>5, <5>6, <5>7, <5>8 DEF EraseInv, Erasing, UsersLocked
      <4> QED
        BY <4>2, <4>3
    <3>21. ASSUME NEW a \in Actors, Abort(a)
           PROVE  EraseInv'
      BY <3>15, <3>19, <3>21
    <3>22. Purge => EraseInv'
      BY <3>16
    <3> HIDE DEF Sealed, Unlocked, KeepsRow
    <3> QED
      BY <3>9, <3>10, <3>11, <3>12, <3>13, <3>16, <3>17, <3>19, <3>20, <3>21, <3>22
         DEF Next, KeyStep, Request, OffboardStep, Keyed
  <2> QED
    BY <2>1, <2>2, <2>3, <2>4, <2>5 DEF VaultInv
<1> QED
  BY <1>1, <1>2, PTL DEF Spec

\* A sealed payload can be opened with the key the firm has until that key is
\* destroyed on purpose (keyring.js:67-112), whatever the number of requests,
\* keys and processes.
THEOREM SealedCanBeOpened == Spec => [](TypeOK /\ SealedUnderTheFirmsKey)
<1>1. VaultInv => TypeOK /\ SealedUnderTheFirmsKey
  BY DEF VaultInv
<1> QED
  BY <1>1, VaultInvariant, PTL

\* Once a firm is erased none of its payloads can be opened (retention.js:459-483),
\* and no transaction opens one, whatever its process has cached (keyring.js:18-39).
THEOREM ErasureIsFinal == Spec => []NothingOpensAfterErasure /\ ErasedIsNeverOpened
<1> USE KeyAssumption, ReqAssumption
<1>1. VaultInv => NothingOpensAfterErasure
  BY DEF VaultInv, EraseInv, NothingOpensAfterErasure, TypeOK
<1>2. VaultInv /\ [Next]_vars => [\A r \in Reqs : tx'[r].opened /\ ~tx[r].opened => tenant = "live"]_vars
  <2> SUFFICES ASSUME VaultInv, Next, NEW r \in Reqs, tx'[r].opened, ~tx[r].opened
               PROVE  tenant = "live"
    OBVIOUS
  <2>1. tx \in [Actors -> Tx] /\ r \in Actors /\ tenant \in {"live", "offboarded"}
    BY DEF VaultInv, TypeOK, Actors
  <2> DEFINE Opens == tx'[r].opened /\ ~tx[r].opened
  <2>2. ASSUME NEW a \in Actors, NEW t, tx' = [tx EXCEPT ![a] = t], t.opened => tx[a].opened
         PROVE  ~Opens
    BY <2>1, <2>2
  <2>3. ASSUME NEW a \in Actors
         PROVE  tx[a] \in Tx
    BY <2>1
  <2>4. ASSUME NEW a \in Actors, NEW pc, Goto(a, pc) \/ End(a)
        PROVE  ~Opens
    <3>1. CASE Goto(a, pc)
      <4> DEFINE t == [tx[a] EXCEPT !.pc = pc]
      <4>1. tx' = [tx EXCEPT ![a] = t] /\ t.opened = tx[a].opened
        BY <2>3, <3>1 DEF Goto, Tx
      <4> HIDE DEF t
      <4> QED
        BY <2>2, <4>1
    <3>2. CASE End(a)
      <4> DEFINE t == [NewTx EXCEPT !.pc = "done", !.opened = tx[a].opened]
      <4>1. tx' = [tx EXCEPT ![a] = t] /\ t.opened = tx[a].opened
        BY <3>2 DEF End, NewTx
      <4> HIDE DEF t
      <4> QED
        BY <2>2, <4>1
    <3> QED
      BY <2>4, <3>1, <3>2
  <2>5. ASSUME NEW a \in Actors, SelectKey(a) \/ LockKey(a) \/ CreateKey(a)
        PROVE  ~Opens
    <3>1. tx[a] \in Tx
      BY <2>1
    <3>2. ASSUME NEW t \in {[tx[a] EXCEPT !.pc = "write"], [[tx[a] EXCEPT !.lock = TRUE] EXCEPT !.pc = "write"]},
                 Unwrap(a, t)
          PROVE  ~Opens
      BY <2>1, <3>1, <3>2 DEF Unwrap, Tx
    <3>3. CASE SelectKey(a)
      BY <2>4, <3>2, <3>3 DEF SelectKey
    <3>4. CASE LockKey(a)
      <4> DEFINE t == [[tx[a] EXCEPT !.lock = TRUE] EXCEPT !.pc = "create"]
      <4>1. t.opened = tx[a].opened
        BY <3>1 DEF Tx
      <4>2. CASE tx' = [tx EXCEPT ![a] = t]
        <5> HIDE DEF t
        <5> QED
          BY <2>2, <4>1, <4>2
      <4> QED
        BY <3>2, <3>4, <4>2 DEF LockKey
    <3>5. CASE CreateKey(a)
      BY <2>1, <3>1, <3>5 DEF CreateKey, Tx
    <3> QED
      BY <2>5, <3>3, <3>4, <3>5
  <2>6. ASSUME NEW q \in Reqs, Arrive(q) \/ Write(q) \/ Present(q) \/ CommitQuiet(q) \/ List(q)
        PROVE  ~Opens
    <3>1. q \in Actors /\ tx[q] \in Tx
      BY <2>1 DEF Actors
    <3>2. CASE Arrive(q) \/ Write(q)
      <4>1. CASE Arrive(q)
        <5>1. PICK kind \in {"GET", "POST", "PUT", "DELETE"}, d \in Deals, p \in Servers :
                tx' = [tx EXCEPT ![q] = [NewTx EXCEPT !.pc = FirstStep[kind], !.kind = kind,
                                      !.deal = {d}, !.proc = p]]
          BY <4>1 DEF Arrive
        <5> DEFINE t == [NewTx EXCEPT !.pc = FirstStep[kind], !.kind = kind, !.deal = {d}, !.proc = p]
        <5>2. t.opened = FALSE /\ tx' = [tx EXCEPT ![q] = t]
          BY <5>1 DEF NewTx
        <5> HIDE DEF t
        <5> QED
          BY <2>2, <3>1, <5>2
      <4>2. CASE Write(q)
        BY <2>1, <3>1, <4>2 DEF Write, Tx
      <4> QED
        BY <3>2, <4>1, <4>2
    <3>3. CASE Present(q) \/ CommitQuiet(q) \/ List(q)
      BY <2>4, <3>1, <3>3 DEF Present, CommitQuiet, List
    <3> QED
      BY <2>6, <3>2, <3>3
  <2>7. ASSUME NEW w \in BOOLEAN, BackfillStep \/ Purge \/ RecordPurge(w) \/ OffboardStep
        PROVE  ~Opens
    <3>1. {"backfill", "purge", "offboard"} \subseteq Actors
      BY DEF Actors, Tools
    <3>2. CASE SelectPlain \/ ConvertBatch \/ Purge \/ DeleteDeals \/ DeleteUsers \/ Shred
      BY <2>1, <3>1, <3>2 DEF SelectPlain, ConvertBatch, Purge, DeleteDeals, DeleteUsers, Shred, NewTx, Tx
    <3>3. CASE Backfill \/ FinishBackfill \/ RecordPurge(w) \/ Offboard \/ DestroyMaterial
               \/ \E v \in BOOLEAN : RecordOffboard(v)
      BY <2>4, <3>1, <3>3 DEF Backfill, FinishBackfill, RecordPurge, Offboard, DestroyMaterial, RecordOffboard
    <3> QED
      BY <2>7, <3>2, <3>3 DEF BackfillStep, OffboardStep
  <2>8. ASSUME NEW q \in Reqs, Open(q)
        PROVE  tenant = "live"
    <3>1. tx[q].pc = "open" /\ KeyRow(q) \in Keys /\ q \in Actors
      BY <2>8 DEF Open, Unwrap, Actors
    <3>2. tx[q].made = NoKey
      BY <3>1 DEF VaultInv, KeyInv
    <3> QED
      BY <2>1, <3>1, <3>2 DEF KeyRow, VaultInv, EraseInv
  <2>9. ASSUME NEW p, Expire(p) \/ Age(p)
        PROVE  ~Opens
    BY <2>9 DEF Expire, Age
  <2>10. ASSUME NEW a \in Actors, Abort(a)
        PROVE  ~Opens
    BY <2>4, <2>10 DEF Abort
  <2>11. BackfillStep \/ Purge \/ OffboardStep => ~Opens
    BY <2>7
  <2>12. Reqs \cup {"backfill"} \subseteq Actors
    BY DEF Actors, Tools
  <2>13. Opens
    OBVIOUS
  <2> HIDE DEF Opens
  <2> QED
    BY <2>5, <2>6, <2>7, <2>8, <2>9, <2>10, <2>11, <2>12, <2>13 DEF Next, KeyStep, Request
<1> QED
  BY <1>1, <1>2, VaultInvariant, PTL DEF ErasedIsNeverOpened, Spec

----------------------------------------------------------------------------
(* What the rows hold, and what is said of them.                           *)

\* What the requests and the tools leave to be done: a deal to be inserted is not
\* there and is nobody else's, a row to be rewritten is locked, and the backfill
\* holds each payload as its row does.
WorkInv ==
  /\ \A r \in Reqs : tx[r].kind = "POST" => \E d \in Deals : tx[r].deal = {d} /\ deal[d] = Absent
  /\ \A r, q \in Reqs :
       r # q /\ tx[r].kind = "POST" /\ tx[q].kind = "POST" => tx[r].deal \cap tx[q].deal = {}
  /\ \A r \in Reqs :
       tx[r].pc = "present" => tx[r].kind = "POST" \/ tx[r].deal \subseteq tx[r].locked
  /\ Converting => \A d \in DOMAIN batch : batch[d] = deal[d].by
RecordInv == WorkInv /\ LastWriteStands /\ DestructionIsRecorded

LEMMA RecordInvariant == Spec => [](VaultInv /\ RecordInv)
<1> USE KeyAssumption, ReqAssumption
<1>1. Init => RecordInv
  <2> SUFFICES ASSUME Init
               PROVE  RecordInv
    OBVIOUS
  <2>1. \A a \in Actors : tx[a] = NewTx
    BY DEF Init
  <2>2. Reqs \subseteq Actors /\ "backfill" \in Actors
    BY DEF Actors, Tools
  <2>3. WorkInv
    BY <2>1, <2>2 DEF WorkInv, NewTx, Converting
  <2>4. LastWriteStands
    BY DEF Init, LastWriteStands, Absent
  <2>5. DestructionIsRecorded
    BY DEF Init, DestructionIsRecorded, Absent, Gone, Tools
  <2> QED
    BY <2>3, <2>4, <2>5 DEF RecordInv
<1>2. ASSUME VaultInv, RecordInv, [Next]_vars
      PROVE  RecordInv'
  <2> USE <1>2 DEF VaultInv
  <2> DEFINE
        Kept(d) == deal'[d] = deal[d]
        Touched(d) == Exists(d) /\ Exists(d)' /\ deal'[d].by = deal[d].by
        Removed(d) == Exists(d) /\ deal'[d] = Gone /\ (d \in trail' \/ tenant' = "offboarded")
        Written(d) == deal[d] # Gone /\ Exists(d)' /\ deal'[d].by = latest'[d]
        Posts(r) == tx[r].kind = "POST"
  <2>1. /\ Reqs \subseteq Actors /\ Keyed \subseteq Actors /\ {"backfill", "purge", "offboard"} \subseteq Actors
        /\ "backfill" \notin Reqs /\ "purge" \notin Reqs /\ "offboard" \notin Reqs
        /\ Reqs \subseteq Keyed /\ "backfill" \in Keyed
    BY DEF Actors, Keyed, Tools
  <2>2. /\ \A d \in Deals : Exists(d) => deal[d] # Gone /\ deal[d] # Absent
        /\ Absent # Gone
        /\ \A d \in Deals : ~Exists(d) => deal[d] \in {Absent, Gone}
        /\ \A a \in Actors : tx[a].locked \subseteq Deals /\ tx[a].deal \subseteq Deals
    BY DEF Exists, Row, Gone, Absent, TypeOK, Tx
  <2>3. ASSUME NEW S \in SUBSET Deals,
               \A d \in Deals \ S : Kept(d) \/ Touched(d) \/ Removed(d),
               \A d \in Deals \ S : latest'[d] = latest[d],
               \A d \in S : Written(d),
               trail \subseteq trail', \A d \in trail' \ trail : deal'[d] = Gone,
               tenant' \in {tenant, "offboarded"},
               told'["offboard"] = "done" => told["offboard"] = "done" \/ tenant' = "offboarded"
        PROVE  LastWriteStands' /\ DestructionIsRecorded'
    <3>1. ~(Gone \in Row)
      BY DEF Gone, Row
    <3>2. LastWriteStands'
      BY <2>3, <3>1 DEF RecordInv, LastWriteStands, Exists
    <3>3. \A d \in trail' : deal'[d] = Gone
      <4> SUFFICES ASSUME NEW d \in trail, d \in trail'
                   PROVE  deal'[d] = Gone
        BY <2>3
      <4>1. deal[d] = Gone /\ d \in Deals
        BY DEF RecordInv, DestructionIsRecorded, TypeOK
      <4>2. ~Exists(d) /\ d \notin S
        BY <2>3, <3>1, <4>1 DEF Exists
      <4> QED
        BY <2>3, <4>1, <4>2
    <3>4. \A d \in Deals : deal'[d] = Gone => d \in trail' \/ tenant' = "offboarded"
      BY <2>3, <3>1 DEF RecordInv, DestructionIsRecorded, Exists
    <3> QED
      BY <2>3, <3>2, <3>3, <3>4 DEF RecordInv, DestructionIsRecorded
  <2>4. ASSUME NEW a \in Actors, \A b \in Actors \ {a} : tx'[b] = tx[b],
               \A d \in Deals : deal[d] = Absent =>
                 Kept(d) \/ (a \in Reqs /\ Posts(a) /\ d \in tx[a].deal /\ tx'[a].kind = "none"),
               a \in Reqs /\ tx'[a].kind = "POST" =>
                 \/ Posts(a) /\ tx'[a].deal = tx[a].deal
                 \/ \E d \in Deals :
                      /\ tx'[a].deal = {d} /\ Kept(d) /\ deal[d] = Absent
                      /\ \A q \in Reqs : Posts(q) => d \notin tx[q].deal,
               a \in Reqs /\ tx'[a].pc = "present" =>
                 tx'[a].kind = "POST" \/ tx'[a].deal \subseteq tx'[a].locked,
               Converting' => \A d \in DOMAIN batch' : batch'[d] = deal'[d].by
        PROVE  WorkInv'
    <3>1. \A r \in Reqs :
             tx'[r].kind = "POST" => \E d \in Deals : tx'[r].deal = {d} /\ deal'[d] = Absent
      <4> SUFFICES ASSUME NEW r \in Reqs, tx'[r].kind = "POST"
                   PROVE  \E d \in Deals : tx'[r].deal = {d} /\ deal'[d] = Absent
        OBVIOUS
      <4>1. CASE Posts(r) /\ tx'[r].deal = tx[r].deal
        <5>1. PICK d \in Deals : tx[r].deal = {d} /\ deal[d] = Absent
          BY <4>1 DEF RecordInv, WorkInv
        <5>2. ~(a \in Reqs /\ Posts(a) /\ d \in tx[a].deal /\ tx'[a].kind = "none")
          BY <4>1, <5>1 DEF RecordInv, WorkInv
        <5> QED
          BY <2>4, <4>1, <5>1, <5>2
      <4> QED
        BY <2>1, <2>4, <4>1
    <3>2. \A r, q \in Reqs :
             r # q /\ tx'[r].kind = "POST" /\ tx'[q].kind = "POST" => tx'[r].deal \cap tx'[q].deal = {}
      <4> SUFFICES ASSUME NEW r \in Reqs, NEW q \in Reqs, r # q, tx'[r].kind = "POST", tx'[q].kind = "POST"
                   PROVE  tx'[r].deal \cap tx'[q].deal = {}
        OBVIOUS
      <4>1. r = a \/ tx'[r] = tx[r]
        BY <2>1, <2>4
      <4>2. q = a \/ tx'[q] = tx[q]
        BY <2>1, <2>4
      <4>3. Posts(r) /\ Posts(q) => tx[r].deal \cap tx[q].deal = {}
        BY DEF RecordInv, WorkInv
      <4> QED
        BY <2>4, <4>1, <4>2, <4>3
    <3>3. \A r \in Reqs : tx'[r].pc = "present" => tx'[r].kind = "POST" \/ tx'[r].deal \subseteq tx'[r].locked
      BY <2>1, <2>4 DEF RecordInv, WorkInv
    <3> QED
      BY <2>4, <3>1, <3>2, <3>3 DEF WorkInv
  <2>5. ASSUME NEW a \in Actors, \A b \in Actors \ {a} : tx'[b] = tx[b], UNCHANGED batch,
               a # "backfill",
               \A d \in tx["backfill"].locked : d \in Deals /\ Exists(d) => deal'[d].by = deal[d].by
        PROVE  Converting' => \A d \in DOMAIN batch' : batch'[d] = deal'[d].by
    <3>1. tx'["backfill"] = tx["backfill"]
      BY <2>1, <2>5
    <3>2. Converting' => Converting
      BY <3>1 DEF Converting
    <3>3. Converting => \A d \in DOMAIN batch : d \in Deals /\ Exists(d) /\ d \in tx["backfill"].locked
      BY <2>1, <2>2 DEF LockInv
    <3> QED
      BY <2>5, <3>2, <3>3 DEF RecordInv, WorkInv
  <2>6. ASSUME UNCHANGED <<deal, latest, trail, tenant>>,
               told'["offboard"] = "done" => told["offboard"] = "done"
        PROVE  LastWriteStands' /\ DestructionIsRecorded'
    BY <2>3, <2>6
  <2> HIDE DEF Kept, Touched, Removed, Written
  <2>7. ASSUME NEW a \in Keyed, SelectKey(a) \/ LockKey(a) \/ CreateKey(a)
        PROVE  RecordInv'
    <3>1. \E key, made : \E pc \in {"lock", "create", "write"} :
            Moves(a, pc, tx[a].kind, tx[a].deal, key, made, tx[a].locked)
      BY <2>7, Effects DEF Stays, Proceeds
    <3>2. UNCHANGED <<deal, latest, trail, tenant, told, batch>> /\ (a = "backfill" => Converting)
      BY <2>7 DEF SelectKey, LockKey, CreateKey, Converting
    <3>3. /\ \A b \in Actors \ {a} : tx'[b] = tx[b]
          /\ tx'[a].kind = tx[a].kind /\ tx'[a].deal = tx[a].deal /\ tx'[a].pc # "present"
      BY <3>1 DEF Moves
    <3>4. Converting' => \A d \in DOMAIN batch' : batch'[d] = deal'[d].by
      <4>1. a = "backfill" \/ Converting' = Converting
        BY <2>1, <3>3 DEF Converting
      <4> QED
        BY <3>2, <4>1 DEF RecordInv, WorkInv
    <3>5. \A d \in Deals : Kept(d)
      BY <3>2 DEF Kept
    <3> QED
      BY <2>1, <2>4, <2>6, <3>2, <3>3, <3>4, <3>5 DEF RecordInv
  <2>8. ASSUME NEW r \in Reqs, Arrive(r) \/ Write(r) \/ List(r) \/ Open(r)
        PROVE  RecordInv'
    <3>1. UNCHANGED <<deal, latest, trail, tenant, told, batch>>
      BY <2>8 DEF Arrive, Write, List, Open
    <3>2. (\A d \in Deals : Kept(d)) /\ r # "backfill" /\ r \in Actors
      BY <2>1, <3>1 DEF Kept
    <3>3. \A b \in Actors \ {r} : tx'[b] = tx[b]
      BY <2>8, Effects DEF Moves, Proceeds, Stays, Renews
    <3>4. tx'[r].kind = "POST" =>
            \/ Posts(r) /\ tx'[r].deal = tx[r].deal
            \/ \E d \in Deals :
                 /\ tx'[r].deal = {d} /\ Kept(d) /\ deal[d] = Absent
                 /\ \A q \in Reqs : Posts(q) => d \notin tx[q].deal
      <4>1. CASE Arrive(r)
        <5>1. PICK kind \in {"GET", "POST", "PUT", "DELETE"}, d \in Deals :
                /\ Moves(r, FirstStep[kind], kind, {d}, NoKey, NoKey, {})
                /\ kind = "POST" => deal[d] = Absent /\ \A q \in Reqs : tx[q].kind = "POST" => tx[q].deal # {d}
          <6>1. PICK kind \in {"GET", "POST", "PUT", "DELETE"}, d \in Deals, p \in Servers :
                  /\ kind = "POST" => deal[d] = Absent /\ \A q \in Reqs : tx[q].kind = "POST" => tx[q].deal # {d}
                  /\ tx' = [tx EXCEPT ![r] = [NewTx EXCEPT !.pc = FirstStep[kind], !.kind = kind,
                                                !.deal = {d}, !.proc = p]]
            BY <4>1 DEF Arrive
          <6> DEFINE t == [NewTx EXCEPT !.pc = FirstStep[kind], !.kind = kind, !.deal = {d}, !.proc = p]
          <6>2. FirstStep[kind] \in {"list", "key", "write"}
            BY DEF FirstStep
          <6>3. t \in Tx
            BY <6>2 DEF Tx, NewTx, Procs
          <6>4. /\ t.pc = FirstStep[kind] /\ t.kind = kind /\ t.deal = {d}
                /\ t.key = NoKey /\ t.made = NoKey /\ t.locked = {}
            BY DEF NewTx
          <6>5. tx' = [tx EXCEPT ![r] = t]
            BY <6>1
          <6> HIDE DEF t
          <6>6. Moves(r, t.pc, t.kind, t.deal, t.key, t.made, t.locked)
            BY <2>1, <6>3, <6>5, Moved
          <6>7. Moves(r, FirstStep[kind], kind, {d}, NoKey, NoKey, {})
            BY <6>4, <6>6
          <6> QED
            BY <6>1, <6>7
        <5>2. tx'[r].kind = kind /\ tx'[r].deal = {d}
          BY <5>1 DEF Moves
        <5>3. kind = "POST" => \A q \in Reqs : tx[q].kind = "POST" => d \notin tx[q].deal
          BY <5>1 DEF RecordInv, WorkInv
        <5> QED
          BY <3>2, <5>1, <5>2, <5>3
      <4>2. CASE Write(r) \/ List(r) \/ Open(r)
        BY <4>2, Effects DEF Moves, Proceeds, Stays, Renews
      <4> QED
        BY <2>8, <4>1, <4>2
    <3>5. tx'[r].pc = "present" => tx'[r].kind = "POST" \/ tx'[r].deal \subseteq tx'[r].locked
      <4>1. CASE Arrive(r) \/ List(r) \/ Open(r)
        BY <4>1, Effects DEF Moves, Proceeds, Stays, Renews, FirstStep
      <4>2. CASE Write(r)
        BY <4>2, Effects DEF Moves, Proceeds, Finds
      <4> QED
        BY <2>8, <4>1, <4>2
    <3>6. Converting' => \A d \in DOMAIN batch' : batch'[d] = deal'[d].by
      BY <2>5, <3>1, <3>2, <3>3
    <3> QED
      BY <2>4, <2>6, <3>1, <3>2, <3>3, <3>4, <3>5, <3>6 DEF RecordInv
  <2>9. ASSUME NEW r \in Reqs, Present(r)
        PROVE  RecordInv'
    <3>1. Renews(r, "done", NoKey) /\ r \in Actors /\ r # "backfill"
      BY <2>1, <2>9, Effects
    <3>2. /\ UNCHANGED <<tenant, trail, told, batch>> /\ tx[r].pc = "present"
          /\ deal' = [d \in Deals |-> IF d \in tx[r].deal
                        THEN [key |-> tx[r].key, by |-> r, deleted |-> "no"] ELSE deal[d]]
          /\ latest' = [d \in Deals |-> IF d \in tx[r].deal THEN r ELSE latest[d]]
      BY <2>9 DEF Present
    <3>3. tx[r].key \in Keys /\ r \in Writers
      BY <2>1, <3>2 DEF KeyInv, Sealing, Writers
    <3>4. Posts(r) \/ tx[r].deal \subseteq tx[r].locked
      BY <3>2 DEF RecordInv, WorkInv
    <3>5. \A d \in tx[r].deal : (Posts(r) /\ deal[d] = Absent) \/ (Exists(d) /\ d \in tx[r].locked)
      <4>1. Posts(r) => \A d \in tx[r].deal : deal[d] = Absent
        BY DEF RecordInv, WorkInv
      <4>2. \A d \in tx[r].locked : Exists(d)
        BY <3>1 DEF LockInv
      <4> QED
        BY <3>4, <4>1, <4>2
    <3>6. \A d \in Deals \ tx[r].deal : Kept(d) /\ latest'[d] = latest[d]
      BY <3>2 DEF Kept
    <3>7. \A d \in tx[r].deal : Written(d)
      <4>1. \A d \in tx[r].deal : d \in Deals /\ deal'[d] = [key |-> tx[r].key, by |-> r, deleted |-> "no"]
                                  /\ latest'[d] = r
        BY <2>2, <3>1, <3>2
      <4>2. [key |-> tx[r].key, by |-> r, deleted |-> "no"] \in Row
        BY <3>3 DEF Row
      <4>3. \A d \in tx[r].deal : deal[d] # Gone
        BY <2>2, <3>5, <4>1
      <4> QED
        BY <4>1, <4>2, <4>3 DEF Written, Exists
    <3>8. LastWriteStands' /\ DestructionIsRecorded'
      BY <2>2, <2>3, <3>1, <3>2, <3>6, <3>7
    <3>9. /\ \A b \in Actors \ {r} : tx'[b] = tx[b]
          /\ tx'[r].kind = "none" /\ tx'[r].pc = "done"
      BY <3>1 DEF Renews, Moves
    <3>10. \A d \in tx["backfill"].locked : d \in Deals /\ Exists(d) => deal'[d].by = deal[d].by
      <4>1. tx["backfill"].locked \cap tx[r].locked = {}
        BY <2>1, <3>1 DEF LockInv
      <4>2. \A d \in tx["backfill"].locked : d \notin tx[r].deal
        BY <2>1, <2>2, <3>5, <4>1 DEF LockInv
      <4> QED
        BY <3>6, <4>2 DEF Kept
    <3>11. Converting' => \A d \in DOMAIN batch' : batch'[d] = deal'[d].by
      BY <2>5, <3>1, <3>2, <3>9, <3>10
    <3>12. \A d \in Deals : deal[d] = Absent => Kept(d) \/ (Posts(r) /\ d \in tx[r].deal)
      BY <2>2, <3>5, <3>6
    <3> QED
      BY <2>4, <3>1, <3>8, <3>9, <3>11, <3>12 DEF RecordInv
  \* A step that inserts nothing and starts no request.
  <2>10. ASSUME NEW a \in Actors, \A b \in Actors \ {a} : tx'[b] = tx[b],
                \A d \in Deals : deal[d] = Absent => Kept(d),
                a \in Reqs => tx'[a].kind = "none" /\ tx'[a].pc = "done",
                \/ Converting' => \A d \in DOMAIN batch' : batch'[d] = deal'[d].by
                \/ /\ a # "backfill" /\ UNCHANGED batch
                   /\ \A d \in tx["backfill"].locked : Kept(d) \/ deal'[d].by = deal[d].by
         PROVE  WorkInv'
    <3>1. Converting' => \A d \in DOMAIN batch' : batch'[d] = deal'[d].by
      BY <2>5, <2>10 DEF Kept
    <3> QED
      BY <2>4, <2>10, <3>1
  <2>11. ASSUME NEW r \in Reqs, CommitQuiet(r)
         PROVE  RecordInv'
    <3>1. Renews(r, "done", NoKey) /\ r \in Actors /\ r # "backfill"
      BY <2>1, <2>11, Effects
    <3>2. /\ UNCHANGED <<tenant, trail, told, batch, latest>>
          /\ deal' = [d \in Deals |-> IF d \in tx[r].locked
                        THEN [deal[d] EXCEPT !.deleted = "recent"] ELSE deal[d]]
      BY <2>11 DEF CommitQuiet
    <3>3. \A d \in Deals : Kept(d) \/ Touched(d)
      <4> SUFFICES ASSUME NEW d \in Deals, d \in tx[r].locked
                   PROVE  Touched(d)
        BY <3>2 DEF Kept
      <4>1. deal[d] \in Row /\ deal'[d] = [deal[d] EXCEPT !.deleted = "recent"]
        BY <3>1, <3>2 DEF LockInv, Exists
      <4> QED
        BY <4>1 DEF Touched, Exists, Row
    <3>4. LastWriteStands' /\ DestructionIsRecorded'
      BY <2>3, <3>2, <3>3
    <3>5. (\A b \in Actors \ {r} : tx'[b] = tx[b]) /\ tx'[r].kind = "none" /\ tx'[r].pc = "done"
      BY <3>1 DEF Renews, Moves
    <3> QED
      BY <2>1, <2>2, <2>10, <3>1, <3>2, <3>3, <3>4, <3>5 DEF RecordInv, Touched
  <2>12. ASSUME BackfillStep
         PROVE  RecordInv'
    <3>1. \A b \in Actors \ {"backfill"} : tx'[b] = tx[b]
      BY <2>12, Effects DEF BackfillStep, Moves, Proceeds, Stays, Renews
    <3>2. UNCHANGED <<latest, trail, tenant>> /\ told'["offboard"] = told["offboard"]
      BY <2>12 DEF BackfillStep, Backfill, SelectPlain, ConvertBatch, FinishBackfill, TypeOK, Tools
    <3>3. CASE ConvertBatch
      <4>1. /\ batch' = NoBatch
            /\ deal' = [d \in Deals |-> IF d \in DOMAIN batch /\ Exists(d)
                          THEN [deal[d] EXCEPT !.key = tx["backfill"].key, !.by = batch[d]] ELSE deal[d]]
        BY <3>3 DEF ConvertBatch
      <4>2. tx["backfill"].key \in Keys /\ Converting
        BY <2>1, <3>3 DEF ConvertBatch, KeyInv, Sealing, Converting
      <4>3. \A d \in Deals : Kept(d) \/ Touched(d)
        <5> SUFFICES ASSUME NEW d \in Deals, d \in DOMAIN batch, Exists(d)
                     PROVE  Touched(d)
          BY <4>1 DEF Kept
        <5>1. batch[d] = deal[d].by /\ deal[d] \in Row
          BY <4>2 DEF RecordInv, WorkInv, Exists
        <5>2. deal'[d] = [deal[d] EXCEPT !.key = tx["backfill"].key, !.by = batch[d]]
          BY <4>1
        <5> QED
          BY <4>2, <5>1, <5>2 DEF Touched, Exists, Row
      <4>4. LastWriteStands' /\ DestructionIsRecorded'
        BY <2>3, <3>2, <4>3
      <4>5. tx'["backfill"].pc = "select"
        BY <3>3, Effects DEF Renews, Moves
      <4>6. ~Converting'
        BY <4>5 DEF Converting
      <4> QED
        BY <2>1, <2>2, <2>10, <3>1, <4>3, <4>4, <4>6 DEF RecordInv, Touched
    <3>4. CASE Backfill \/ SelectPlain \/ FinishBackfill
      <4>1. UNCHANGED deal /\ (\A d \in Deals : Kept(d))
        BY <3>4 DEF Backfill, SelectPlain, FinishBackfill, Kept
      <4>2. Converting' => \A d \in DOMAIN batch' : batch'[d] = deal'[d].by
        <5>1. CASE SelectPlain
          BY <4>1, <5>1 DEF SelectPlain
        <5>2. CASE Backfill
          <6>1. tx'["backfill"].pc = "select"
            BY <5>2, Effects DEF Stays, Proceeds, Moves
          <6> QED
            BY <6>1 DEF Converting
        <5>3. CASE FinishBackfill
          <6>1. tx'["backfill"].pc = "done"
            BY <5>3, Effects DEF Renews, Moves
          <6> QED
            BY <6>1 DEF Converting
        <5> QED
          BY <3>4, <5>1, <5>2, <5>3
      <4> QED
        BY <2>1, <2>6, <2>10, <3>1, <3>2, <4>1, <4>2 DEF RecordInv
    <3> QED
      BY <2>12, <3>3, <3>4 DEF BackfillStep
  <2>13. ASSUME NEW S \in SUBSET Deals, \A d \in S : Exists(d), Erase(S),
                UNCHANGED <<latest, batch>>, trail \subseteq trail', trail' \subseteq trail \cup S,
                S \subseteq trail' \/ tenant' = "offboarded", tenant' \in {tenant, "offboarded"},
                told'["offboard"] = "done" => told["offboard"] = "done" \/ tenant' = "offboarded",
                NEW a \in {"purge", "offboard"}, \A b \in Actors \ {a} : tx'[b] = tx[b],
                S \subseteq tx[a].locked
         PROVE  RecordInv'
    <3>1. \A d \in Deals : deal'[d] = IF d \in S THEN Gone ELSE deal[d]
      BY <2>13 DEF Erase
    <3>2. \A d \in Deals : IF d \in S THEN Removed(d) ELSE Kept(d)
      BY <2>13, <3>1 DEF Removed, Kept
    <3>3. LastWriteStands' /\ DestructionIsRecorded'
      <4>1. \A d \in trail' \ trail : deal'[d] = Gone
        BY <2>13, <3>1
      <4> QED
        BY <2>3, <2>13, <3>2, <4>1
    <3>4. \A d \in tx["backfill"].locked : Kept(d)
      BY <2>1, <2>2, <2>13, <3>2 DEF LockInv
    <3> QED
      BY <2>1, <2>2, <2>10, <2>13, <3>2, <3>3, <3>4 DEF RecordInv
  <2>14. ASSUME NEW w \in BOOLEAN, RecordPurge(w) \/ RecordOffboard(w) \/ Purge
         PROVE  RecordInv'
    <3>1. CASE RecordPurge(w) /\ w
      <4> DEFINE S == tx["purge"].deal
      <4>1. /\ Erase(S) /\ trail' = trail \cup S /\ UNCHANGED <<latest, batch, tenant>>
            /\ told'["offboard"] = told["offboard"] /\ tx["purge"].pc = "record"
        BY <3>1 DEF RecordPurge, AuditOrFail, TypeOK
      <4>2. S \subseteq tx["purge"].locked /\ S \in SUBSET Deals /\ \A d \in S : Exists(d)
        BY <2>1, <2>2, <4>1 DEF LockInv
      <4>3. \A b \in Actors \ {"purge"} : tx'[b] = tx[b]
        BY <3>1, Effects DEF Renews, Moves
      <4> HIDE DEF S
      <4> QED
        BY <2>13, <4>1, <4>2, <4>3
    <3>2. CASE RecordOffboard(w) /\ w
      <4> DEFINE S == tx["offboard"].deal
      <4>1. /\ Erase(S) /\ tenant' = "offboarded" /\ UNCHANGED <<latest, batch, trail>>
            /\ tx["offboard"].pc = "record"
        BY <3>2 DEF RecordOffboard
      <4>2. S \subseteq tx["offboard"].locked /\ S \in SUBSET Deals /\ \A d \in S : Exists(d)
        BY <2>1, <2>2, <4>1 DEF LockInv, Erasing
      <4>3. \A b \in Actors \ {"offboard"} : tx'[b] = tx[b]
        BY <3>2, Effects DEF Renews, Moves
      <4> HIDE DEF S
      <4> QED
        BY <2>13, <4>1, <4>2, <4>3
    <3>3. CASE (~w /\ (RecordPurge(w) \/ RecordOffboard(w))) \/ Purge
      <4>1. /\ UNCHANGED <<deal, latest, batch, trail, tenant>>
            /\ told'["offboard"] = "done" => told["offboard"] = "done"
        BY <3>3 DEF RecordPurge, RecordOffboard, Purge, AuditOrFail, TypeOK, Tools
      <4>2. \E a \in {"purge", "offboard"} : \A b \in Actors \ {a} : tx'[b] = tx[b]
        BY <3>3, Effects DEF Renews, Moves, Proceeds
      <4>3. \A d \in Deals : Kept(d)
        BY <4>1 DEF Kept
      <4>4. \A d \in tx["backfill"].locked : Kept(d)
        BY <2>1, <2>2, <4>3
      <4> QED
        BY <2>1, <2>6, <2>10, <4>1, <4>2, <4>3, <4>4 DEF RecordInv
    <3> QED
      BY <2>14, <3>1, <3>2, <3>3
  <2>15. ASSUME NEW a \in Actors, Abort(a)
         PROVE  RecordInv'
    <3>1. Renews(a, "done", NoKey)
      BY <2>15, Effects
    <3>2. /\ UNCHANGED <<deal, latest, trail, tenant>> /\ (a # "backfill" => UNCHANGED batch)
          /\ told'["offboard"] = "done" => told["offboard"] = "done"
      BY <2>15 DEF Abort, TypeOK
    <3>3. /\ \A b \in Actors \ {a} : tx'[b] = tx[b]
          /\ tx'[a].kind = "none" /\ tx'[a].pc = "done"
      BY <3>1 DEF Renews, Moves
    <3>4. \A d \in Deals : Kept(d)
      BY <3>2 DEF Kept
    <3>5. a = "backfill" => ~Converting'
      BY <3>3 DEF Converting
    <3>6. \A d \in tx["backfill"].locked : Kept(d)
      BY <2>1, <2>2, <3>4
    <3> QED
      BY <2>6, <2>10, <3>2, <3>3, <3>4, <3>5, <3>6 DEF RecordInv
  <2>16. ASSUME Offboard \/ DeleteDeals \/ DeleteUsers \/ Shred \/ DestroyMaterial
         PROVE  RecordInv'
    <3>1. UNCHANGED <<deal, latest, trail, tenant, told, batch>>
      BY <2>16 DEF Offboard, DeleteDeals, DeleteUsers, Shred, DestroyMaterial
    <3>2. \A b \in Actors \ {"offboard"} : tx'[b] = tx[b]
      BY <2>16, Effects DEF Stays, Proceeds, Moves
    <3>3. \A d \in Deals : Kept(d)
      BY <3>1 DEF Kept
    <3>4. \A d \in tx["backfill"].locked : Kept(d)
      BY <2>1, <2>2, <3>3
    <3> QED
      BY <2>1, <2>6, <2>10, <3>1, <3>2, <3>3, <3>4 DEF RecordInv
  <2>17. ASSUME UNCHANGED vars \/ (\E p \in Procs : Expire(p)) \/ (\E d \in Deals : Age(d))
         PROVE  RecordInv'
    <3>1. UNCHANGED <<tx, latest, trail, tenant, told, batch>>
      BY <2>17 DEF vars, Expire, Age
    <3>2. \A d \in Deals : Kept(d) \/ Touched(d)
      <4>1. CASE UNCHANGED deal
        BY <4>1 DEF Kept
      <4>2. ASSUME NEW e \in Deals, Age(e)
            PROVE  \A d \in Deals : Kept(d) \/ Touched(d)
        <5>1. deal' = [deal EXCEPT ![e].deleted = "due"] /\ deal[e] \in Row
          BY <4>2 DEF Age, Exists
        <5>2. Touched(e)
          BY <5>1 DEF Touched, Exists, Row, TypeOK
        <5>3. \A d \in Deals \ {e} : Kept(d)
          BY <5>1 DEF Kept
        <5> QED
          BY <5>2, <5>3
      <4> QED
        BY <2>17, <4>1, <4>2 DEF vars, Expire
    <3>3. LastWriteStands' /\ DestructionIsRecorded'
      BY <2>3, <3>1, <3>2
    <3>4. \A d \in tx["backfill"].locked : Kept(d) \/ deal'[d].by = deal[d].by
      BY <2>1, <2>2, <3>2 DEF Touched
    <3> QED
      BY <2>1, <2>2, <2>10, <3>1, <3>2, <3>3, <3>4 DEF RecordInv, Touched
  <2>18. Purge => RecordInv'
    BY <2>14
  <2> QED
    BY <1>2, <2>7, <2>8, <2>9, <2>11, <2>12, <2>14, <2>15, <2>16, <2>17, <2>18
       DEF Next, KeyStep, Request, OffboardStep, Keyed
<1> QED
  BY <1>1, <1>2, VaultInvariant, PTL DEF Spec

\* What a deal holds is the last write that was acknowledged, whatever the
\* backfill had read before it (backfill.js:80-100).
THEOREM AcknowledgedWritesStand == Spec => []LastWriteStands
<1>1. RecordInv => LastWriteStands
  BY DEF RecordInv
<1> QED
  BY <1>1, RecordInvariant, PTL

\* Nothing is destroyed that no committed record names, nothing is recorded that
\* was not destroyed, and success is reported of what committed
\* (retention.js:165-189).
THEOREM EveryDestructionIsRecorded == Spec => []DestructionIsRecorded
<1>1. RecordInv => DestructionIsRecorded
  BY DEF RecordInv
<1> QED
  BY <1>1, RecordInvariant, PTL
=============================================================================
