------------------------------- MODULE Vault -------------------------------
(***************************************************************************)
(* The deals of one firm and the data key that seals them: requests to     *)
(* /deals (src/server/src/routes/deals.js, crypto/keyring.js), and the     *)
(* operators' encryption backfill, purge and offboarding                   *)
(* (crypto/backfill.js, admin/retention.js), each a transaction on one     *)
(* database.                                                               *)
(*                                                                         *)
(* A statement reads what is committed when it runs (READ COMMITTED) and   *)
(* waits for rows others have locked.  A wrapped key and the key inside    *)
(* are the same value here: the cache is indexed by a digest of the        *)
(* wrapped key, and AES-GCM opens a payload with the key that sealed it    *)
(* and with no other.  All requests are of one user of the firm, the one   *)
(* every deal refers to in created_by or updated_by.                       *)
(***************************************************************************)
EXTENDS Naturals, FiniteSets

CONSTANTS
  Reqs,           \* requests to /deals
  Deals,          \* ids of deals
  Keys,           \* data keys that can be generated
  Servers,        \* server processes, each with a cache of keys
  NoKey, Destroyed, Plain, Seed,
  PerTenantKeys   \* KMS_PER_TENANT_KEYS: key material of the firm's own outside

ASSUME KeyAssumption ==
  /\ {NoKey, Destroyed, Plain} \cap Keys = {}
  /\ NoKey # Destroyed /\ NoKey # Plain /\ Destroyed # Plain
ASSUME ReqAssumption == {"backfill", "purge", "offboard"} \cap Reqs = {}

VARIABLES
  deal,       \* the committed rows of deals
  tenantKey,  \* the committed row of tenant_keys
  tenant,     \* "live" or "offboarded": tenants.offboarded_at, with users and sessions
  material,   \* the key material outside the database exists
  generated,  \* keys the provider has generated
  cache,      \* per process: unwrapped keys
  tx,         \* per actor: its transaction
  batch,      \* payloads the backfill has read and not written back
  latest,     \* the last acknowledged writer of each deal
  trail,      \* deals named by committed purge entries
  told        \* what the operator of a tool was told

vars == <<deal, tenantKey, tenant, material, generated, cache, tx, batch,
          latest, trail, told>>

Tools == {"backfill", "purge", "offboard"}
Actors == Reqs \cup Tools
Procs == Servers \cup {"tool"}
Writers == Reqs \cup {Seed}

\* A row: the key that sealed its payload, the write the payload came from, deleted_at.
Row == [key : Keys \cup {Plain}, by : Writers, deleted : {"no", "recent", "due"}]
Absent == [key |-> NoKey, by |-> Seed, deleted |-> "no"]      \* never inserted
Gone == [key |-> Destroyed, by |-> Seed, deleted |-> "due"]   \* hard-deleted
Exists(d) == deal[d] \in Row
Live(d) == Exists(d) /\ deal[d].deleted = "no"

\* locked: committed rows this transaction has locked or rewritten;
\* lock: the advisory lock on the firm's key; made: the key it has inserted.
Tx == [pc : {"idle", "key", "lock", "create", "write", "present", "commit", "list",
             "open", "select", "deals", "users", "shred", "material", "record", "done"},
       kind : {"none", "GET", "POST", "PUT", "DELETE"}, deal : SUBSET Deals,
       proc : Procs, key : Keys \cup {NoKey}, made : Keys \cup {NoKey},
       lock : BOOLEAN, locked : SUBSET Deals, opened : BOOLEAN]
NewTx == [pc |-> "idle", kind |-> "none", deal |-> {}, proc |-> "tool", key |-> NoKey,
          made |-> NoKey, lock |-> FALSE, locked |-> {}, opened |-> FALSE]

Running(a) == tx[a].pc \notin {"idle", "done"}
NoBatch == [d \in {} |-> Seed]

Init ==
  /\ deal \in [Deals -> {Absent, [key |-> Plain, by |-> Seed, deleted |-> "no"]}]
  /\ tenantKey = NoKey
  /\ tenant = "live"
  /\ material = TRUE
  /\ generated = {}
  /\ cache = [p \in Procs |-> {}]
  /\ tx = [a \in Actors |-> NewTx]
  /\ batch = NoBatch
  /\ latest = [d \in Deals |-> Seed]
  /\ trail = {}
  /\ told = [t \in Tools |-> "nothing"]

----------------------------------------------------------------------------
(* Transactions and locks.                                                 *)

RowsFree(a, S) == \A b \in Actors \ {a} : tx[b].locked \cap S = {}

\* Offboarding has deleted the users and not committed: a foreign key waits.
UsersLocked == tx["offboard"].pc \in {"shred", "material", "record"}
\* A write of a deal keeps the users row it refers to from being deleted.
SharesUser(a) ==
  /\ a \in Reqs
  /\ tx[a].pc = "present" \/ (tx[a].pc = "commit" /\ tx[a].locked # {})

Goto(a, pc) == tx' = [tx EXCEPT ![a].pc = pc]
\* The transaction is over and holds nothing any more.
End(a) == tx' = [tx EXCEPT ![a] = [NewTx EXCEPT !.pc = "done", !.opened = tx[a].opened]]
Publish(a) == tenantKey' = IF tx[a].made = NoKey THEN tenantKey ELSE tx[a].made

\* Any statement can fail: the transaction rolls back. The cache and the key
\* material outside the database are not part of it.
Abort(a) ==
  /\ Running(a)
  /\ End(a)
  /\ batch' = IF a = "backfill" THEN NoBatch ELSE batch
  /\ told' = IF a \in Tools THEN [told EXCEPT ![a] = "failed"] ELSE told
  /\ UNCHANGED <<deal, tenantKey, tenant, material, generated, cache, latest, trail>>

----------------------------------------------------------------------------
(* The firm's key, as a transaction obtains it to seal or to open.         *)

\* The row as the transaction sees it: its own insert, or what is committed.
KeyRow(a) == IF tx[a].made = NoKey THEN tenantKey ELSE tx[a].made

\* Mutant: the cache is indexed by firm, so that a key rolled back is found again.
UnwrapCached_ByTenant(p, wrapped) ==
  IF cache[p] = {} THEN wrapped ELSE CHOOSE k \in cache[p] : TRUE

\* A cached key is found by the digest of the wrapped key: it is that key.
UnwrapCached(p, wrapped) == wrapped
CanUnwrap(p, wrapped) == wrapped \in cache[p] \/ material

\* tenantDataKey returns the key to the transaction, which goes on as t.
Unwrap(a, t) ==
  LET k == UnwrapCached(t.proc, KeyRow(a))
  IN  /\ KeyRow(a) \in Keys
      /\ CanUnwrap(t.proc, KeyRow(a))
      /\ cache' = [cache EXCEPT ![t.proc] = @ \cup {k}]
      /\ tx' = [tx EXCEPT ![a] = [t EXCEPT !.key = k]]

\* No lock is taken when there is a key. A destroyed key, or one that cannot
\* be unwrapped, throws: Abort.
SelectKey(a) ==
  /\ tx[a].pc = "key"
  /\ \/ KeyRow(a) = NoKey /\ Goto(a, "lock") /\ UNCHANGED cache
     \/ Unwrap(a, [tx[a] EXCEPT !.pc = "write"])
  /\ UNCHANGED <<deal, tenantKey, tenant, material, generated, batch, latest, trail, told>>

\* The advisory lock is granted, and the row is selected again under it.
LockKey(a) ==
  /\ tx[a].pc = "lock"
  /\ \A b \in Actors \ {a} : ~tx[b].lock
  /\ LET t == [tx[a] EXCEPT !.lock = TRUE]
     IN  \/ /\ KeyRow(a) = NoKey
            /\ tx' = [tx EXCEPT ![a] = [t EXCEPT !.pc = "create"]]
            /\ UNCHANGED cache
         \/ Unwrap(a, [t EXCEPT !.pc = "write"])
  /\ UNCHANGED <<deal, tenantKey, tenant, material, generated, batch, latest, trail, told>>

\* A key is generated, inserted and cached. The primary key admits one row.
CreateKey(a) ==
  /\ tx[a].pc = "create"
  /\ material
  /\ tenantKey = NoKey
  /\ \A b \in Actors \ {a} : tx[b].made = NoKey
  /\ \E k \in Keys \ generated :
       /\ generated' = generated \cup {k}
       /\ cache' = [cache EXCEPT ![tx[a].proc] = @ \cup {k}]
       /\ tx' = [tx EXCEPT ![a].pc = "write", ![a].key = k, ![a].made = k]
  /\ UNCHANGED <<deal, tenantKey, tenant, material, batch, latest, trail, told>>

\* A cache entry's five minutes are over, or the process restarts.
Expire(p) ==
  /\ cache[p] # {}
  /\ cache' = [cache EXCEPT ![p] = {}]
  /\ UNCHANGED <<deal, tenantKey, tenant, material, generated, tx, batch, latest, trail, told>>

----------------------------------------------------------------------------
(* Requests to /deals.                                                     *)

FirstStep == [GET |-> "list", POST |-> "key", PUT |-> "key", DELETE |-> "write"]

\* requireSession finds the session alive; its transaction comes later.
Arrive(r) ==
  /\ tx[r].pc = "idle"
  /\ tenant = "live"
  /\ \E kind \in {"GET", "POST", "PUT", "DELETE"}, d \in Deals, p \in Servers :
       /\ kind = "POST" => deal[d] = Absent /\ \A q \in Reqs : tx[q].kind = "POST" => tx[q].deal # {d}
       /\ tx' = [tx EXCEPT ![r] = [NewTx EXCEPT !.pc = FirstStep[kind], !.kind = kind,
                                     !.deal = {d}, !.proc = p]]
  /\ UNCHANGED <<deal, tenantKey, tenant, material, generated, cache, batch, latest, trail, told>>

\* INSERT, or UPDATE ... WHERE deleted_at IS NULL, with the audit entry and the
\* foreign key to the user, which waits for an uncommitted delete and throws
\* after it (Abort). Where no row is found the answer is 404, and the
\* transaction commits.
Write(r) ==
  /\ r \in Reqs
  /\ tx[r].pc = "write"
  /\ RowsFree(r, tx[r].deal)
  /\ LET there == \A d \in tx[r].deal : Live(d)
         found == tx[r].kind = "POST" \/ there
     IN  /\ found => ~UsersLocked /\ tenant = "live"
         /\ tx' = [tx EXCEPT ![r].pc = IF found /\ tx[r].kind # "DELETE" THEN "present" ELSE "commit",
                             ![r].locked = IF there THEN tx[r].deal ELSE {}]
  /\ UNCHANGED <<deal, tenantKey, tenant, material, generated, cache, batch, latest, trail, told>>

\* The payload is opened again for the answer, or payloadError says why not;
\* either way the transaction commits.
Present(r) ==
  /\ tx[r].pc = "present"
  /\ deal' = [d \in Deals |-> IF d \in tx[r].deal
                               THEN [key |-> tx[r].key, by |-> r, deleted |-> "no"] ELSE deal[d]]
  /\ latest' = [d \in Deals |-> IF d \in tx[r].deal THEN r ELSE latest[d]]
  /\ Publish(r)
  /\ End(r)
  /\ cache' = IF KeyRow(r) \in Keys /\ CanUnwrap(tx[r].proc, KeyRow(r))
              THEN [cache EXCEPT ![tx[r].proc] = @ \cup {UnwrapCached(tx[r].proc, KeyRow(r))}]
              ELSE cache
  /\ UNCHANGED <<tenant, material, generated, batch, trail, told>>

\* A soft delete commits, or a PUT that found nothing.
CommitQuiet(r) ==
  /\ tx[r].pc = "commit"
  /\ deal' = [d \in Deals |-> IF d \in tx[r].locked
                               THEN [deal[d] EXCEPT !.deleted = "recent"] ELSE deal[d]]
  /\ Publish(r)
  /\ End(r)
  /\ UNCHANGED <<tenant, material, generated, cache, batch, latest, trail, told>>

\* GET selects its rows; only when one of them is sealed does it need the key.
List(r) ==
  /\ tx[r].pc = "list"
  /\ LET sealed == {d \in Deals : Live(d) /\ deal[d].key # Plain}
     IN  IF sealed = {} THEN End(r) ELSE Goto(r, "open")
  /\ UNCHANGED <<deal, tenantKey, tenant, material, generated, cache, batch, latest, trail, told>>

\* The key is fetched and the rows are opened; a failure is a reason in the
\* answer (key_destroyed, key_unavailable), not an error: Abort.
Open(r) ==
  /\ tx[r].pc = "open"
  /\ Unwrap(r, [NewTx EXCEPT !.pc = "done", !.proc = tx[r].proc, !.opened = TRUE])
  /\ UNCHANGED <<deal, tenantKey, tenant, material, generated, batch, latest, trail, told>>

----------------------------------------------------------------------------
(* The encryption backfill: batch after batch, each a transaction.         *)

Backfill ==
  /\ tx["backfill"].pc = "idle"
  /\ Goto("backfill", "select")
  /\ UNCHANGED <<deal, tenantKey, tenant, material, generated, cache, batch, latest, trail, told>>

PlainRows == {d \in Deals : Exists(d) /\ deal[d].key = Plain}

\* Mutant: the batch is read without FOR UPDATE.
SelectPlain_NoLock ==
  /\ tx["backfill"].pc = "select"
  /\ PlainRows # {}
  /\ batch' = [d \in PlainRows |-> deal[d].by]
  /\ Goto("backfill", "key")
  /\ UNCHANGED <<deal, tenantKey, tenant, material, generated, cache, latest, trail, told>>

\* SELECT ... FOR UPDATE.
SelectPlain ==
  /\ tx["backfill"].pc = "select"
  /\ PlainRows # {}
  /\ RowsFree("backfill", PlainRows)
  /\ batch' = [d \in PlainRows |-> deal[d].by]
  /\ tx' = [tx EXCEPT !["backfill"].pc = "key", !["backfill"].locked = PlainRows]
  /\ UNCHANGED <<deal, tenantKey, tenant, material, generated, cache, latest, trail, told>>

\* Each payload of the batch is sealed and written back, and the batch commits.
ConvertBatch ==
  /\ tx["backfill"].pc = "write"
  /\ RowsFree("backfill", DOMAIN batch)
  /\ deal' = [d \in Deals |-> IF d \in DOMAIN batch /\ Exists(d)
                               THEN [deal[d] EXCEPT !.key = tx["backfill"].key, !.by = batch[d]]
                               ELSE deal[d]]
  /\ Publish("backfill")
  /\ tx' = [tx EXCEPT !["backfill"] = [NewTx EXCEPT !.pc = "select"]]
  /\ batch' = NoBatch
  /\ UNCHANGED <<tenant, material, generated, cache, latest, trail, told>>

\* Nothing is left to convert; the tool clears its cache.
FinishBackfill ==
  /\ tx["backfill"].pc = "select"
  /\ PlainRows = {}
  /\ End("backfill")
  /\ cache' = [cache EXCEPT !["tool"] = {}]
  /\ told' = [told EXCEPT !["backfill"] = "done"]
  /\ UNCHANGED <<deal, tenantKey, tenant, material, generated, batch, latest, trail>>

----------------------------------------------------------------------------
(* Retention: soft-deleted deals come of age and are purged.               *)

Age(d) ==
  /\ Exists(d)
  /\ deal[d].deleted = "recent"
  /\ deal' = [deal EXCEPT ![d].deleted = "due"]
  /\ UNCHANGED <<tenantKey, tenant, material, generated, cache, tx, batch, latest, trail, told>>

DueRows == {d \in Deals : Exists(d) /\ deal[d].deleted = "due"}

\* DELETE ... RETURNING.
Purge ==
  /\ tx["purge"].pc = "idle"
  /\ RowsFree("purge", DueRows)
  /\ tx' = [tx EXCEPT !["purge"].pc = "record", !["purge"].deal = DueRows,
                      !["purge"].locked = DueRows]
  /\ UNCHANGED <<deal, tenantKey, tenant, material, generated, cache, batch, latest, trail, told>>

\* Mutant: no probe: the COMMIT of an aborted transaction rolls back and reports success.
AuditOrFail_NoProbe(t, written) == told' = [told EXCEPT ![t] = "done"]

\* auditOrFail: recordAdmin swallows a failed insert, the probe that follows
\* finds the transaction aborted and throws. COMMIT would have rolled back and
\* said nothing.
AuditOrFail(t, written) == told' = [told EXCEPT ![t] = IF written THEN "done" ELSE "failed"]
Erase(S) == deal' = [d \in Deals |-> IF d \in S THEN Gone ELSE deal[d]]

\* Nothing is recorded where nothing was due.
RecordPurge(written) ==
  /\ tx["purge"].pc = "record"
  /\ tx["purge"].deal = {} => written
  /\ AuditOrFail("purge", written)
  /\ IF written THEN Erase(tx["purge"].deal) /\ trail' = trail \cup tx["purge"].deal
                ELSE UNCHANGED <<deal, trail>>
  /\ End("purge")
  /\ UNCHANGED <<tenantKey, tenant, material, generated, cache, batch, latest>>

----------------------------------------------------------------------------
(* Offboarding, statement by statement in one transaction.                 *)

\* The firm is suspended and its sessions are revoked, seen by nobody before
\* the commit.
Offboard ==
  /\ tx["offboard"].pc = "idle"
  /\ tenant = "live"
  /\ Goto("offboard", "deals")
  /\ UNCHANGED <<deal, tenantKey, tenant, material, generated, cache, batch, latest, trail, told>>

Rows == {d \in Deals : Exists(d)}

DeleteDeals ==
  /\ tx["offboard"].pc = "deals"
  /\ RowsFree("offboard", Rows)
  /\ tx' = [tx EXCEPT !["offboard"].pc = "users", !["offboard"].deal = Rows,
                      !["offboard"].locked = Rows]
  /\ UNCHANGED <<deal, tenantKey, tenant, material, generated, cache, batch, latest, trail, told>>

\* Waits for transactions that refer to the user, and sets the reference to
\* NULL in every row that is left.
DeleteUsers ==
  /\ tx["offboard"].pc = "users"
  /\ \A r \in Reqs : ~SharesUser(r)
  /\ RowsFree("offboard", Rows)
  /\ tx' = [tx EXCEPT !["offboard"].pc = "shred", !["offboard"].locked = Rows]
  /\ UNCHANGED <<deal, tenantKey, tenant, material, generated, cache, batch, latest, trail, told>>

\* UPDATE tenant_keys ... WHERE destroyed_at IS NULL: the committed row.
Shred ==
  /\ tx["offboard"].pc = "shred"
  /\ tx' = [tx EXCEPT !["offboard"].pc = "material",
                      !["offboard"].key = IF tenantKey \in Keys THEN tenantKey ELSE NoKey]
  /\ UNCHANGED <<deal, tenantKey, tenant, material, generated, cache, batch, latest, trail, told>>

\* destroyTenantKeyMaterial, where there is any; a failure is only recorded.
DestroyMaterial ==
  /\ tx["offboard"].pc = "material"
  /\ material' \in IF PerTenantKeys THEN {material, FALSE} ELSE {material}
  /\ Goto("offboard", "record")
  /\ UNCHANGED <<deal, tenantKey, tenant, generated, cache, batch, latest, trail, told>>

\* Mutant: the row of the key is deleted instead of stamped.
RecordOffboard_DeletesKey(written) ==
  /\ tx["offboard"].pc = "record"
  /\ AuditOrFail("offboard", written)
  /\ IF written
     THEN Erase(tx["offboard"].deal) /\ tenant' = "offboarded" /\ tenantKey' = NoKey
     ELSE UNCHANGED <<deal, tenant, tenantKey>>
  /\ End("offboard")
  /\ UNCHANGED <<material, generated, cache, batch, latest, trail>>

\* offboarded_at, the audit entry, COMMIT or ROLLBACK.
RecordOffboard(written) ==
  /\ tx["offboard"].pc = "record"
  /\ AuditOrFail("offboard", written)
  /\ IF written
     THEN /\ Erase(tx["offboard"].deal)
          /\ tenant' = "offboarded"
          /\ tenantKey' = IF tx["offboard"].key \in Keys THEN Destroyed ELSE tenantKey
     ELSE UNCHANGED <<deal, tenant, tenantKey>>
  /\ End("offboard")
  /\ UNCHANGED <<material, generated, cache, batch, latest, trail>>

----------------------------------------------------------------------------
KeyStep(a) == SelectKey(a) \/ LockKey(a) \/ CreateKey(a)
Request(r) ==
  \/ Arrive(r) \/ Write(r) \/ Present(r) \/ CommitQuiet(r) \/ List(r) \/ Open(r)
BackfillStep == Backfill \/ SelectPlain \/ ConvertBatch \/ FinishBackfill
OffboardStep ==
  \/ Offboard \/ DeleteDeals \/ DeleteUsers \/ Shred \/ DestroyMaterial
  \/ \E written \in BOOLEAN : RecordOffboard(written)

Next ==
  \/ \E a \in Reqs \cup {"backfill"} : KeyStep(a)
  \/ \E r \in Reqs : Request(r)
  \/ \E a \in Actors : Abort(a)
  \/ \E p \in Procs : Expire(p)
  \/ \E d \in Deals : Age(d)
  \/ BackfillStep
  \/ Purge \/ \E written \in BOOLEAN : RecordPurge(written)
  \/ OffboardStep

Spec == Init /\ [][Next]_vars

----------------------------------------------------------------------------
TypeOK ==
  /\ deal \in [Deals -> Row \cup {Absent, Gone}]
  /\ tenantKey \in Keys \cup {NoKey, Destroyed}
  /\ tenant \in {"live", "offboarded"}
  /\ material \in BOOLEAN
  /\ generated \subseteq Keys
  /\ cache \in [Procs -> SUBSET Keys]
  /\ tx \in [Actors -> Tx]
  /\ DOMAIN batch \subseteq Deals /\ \A d \in DOMAIN batch : batch[d] \in Writers
  /\ latest \in [Deals -> Writers]
  /\ trail \subseteq Deals
  /\ told \in [Tools -> {"nothing", "done", "failed"}]

\* A sealed payload can be opened with the key the firm has, whichever of the
\* requests and tools that found no key created it, unless it was destroyed on
\* purpose (keyring.js:67-112): a payload sealed with a key that was rolled
\* back, or with a second key, would be lost.
SealedUnderTheFirmsKey ==
  \A d \in Deals : Exists(d) /\ deal[d].key # Plain => tenantKey \in {deal[d].key, Destroyed}

\* What a deal holds is the last write that was acknowledged: the backfill
\* never puts back a payload it read before that (backfill.js:80-100).
LastWriteStands == \A d \in Deals : Exists(d) => deal[d].by = latest[d]

\* No payload of an offboarded firm can be opened: what a live request wrote
\* between the deletes is sealed with a key that is destroyed
\* (retention.js:459-483), and no transaction opens one from then on, cached
\* keys or not (keyring.js:18-39).
NothingOpensAfterErasure ==
  tenant = "offboarded" =>
    \A d \in Deals : Exists(d) => deal[d].key # Plain /\ tenantKey = Destroyed
ErasedIsNeverOpened ==
  [][\A r \in Reqs : tx'[r].opened /\ ~tx[r].opened => tenant = "live"]_vars

\* Destruction and its record commit together, and an operator who was told of
\* success can rely on it (retention.js:165-189).
DestructionIsRecorded ==
  /\ \A d \in trail : deal[d] = Gone
  /\ \A d \in Deals : deal[d] = Gone => d \in trail \/ tenant = "offboarded"
  /\ told["offboard"] = "done" => tenant = "offboarded"
=============================================================================
