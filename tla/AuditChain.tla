----------------------------- MODULE AuditChain -----------------------------
(***************************************************************************)
(* The append-only, hash-chained audit log: the sequence and the BEFORE    *)
(* INSERT trigger of migration 003 under concurrent transactions, the       *)
(* verification walk audit_log_verify() the daily job and the integrity     *)
(* route run, and a firm paging through its own entries (routes/audit.js).  *)
(*                                                                         *)
(* A writer is a transaction of any part of the server that inserts one     *)
(* audit entry.  A digest is modelled as the list of what it commits to,    *)
(* so that equal digests mean equal histories.                              *)
(***************************************************************************)
EXTENDS Integers, Sequences, FiniteSets

CONSTANTS
    Writers,    \* transactions inserting an entry at once (a bound)
    Tenants,    \* firms whose entries share the one chain
    Reader,     \* the firm that reads its entries
    Limit,      \* entries per page
    MaxId,      \* ids the sequence can hand out (a bound)
    Tampering   \* the ways an owner may tamper, once; {} for none

ASSUME AuditAssumption ==
    /\ Reader \in Tenants
    /\ Limit \in Nat \ {0}
    /\ MaxId \in Nat
    /\ Tampering \subseteq {"alter", "remove", "insert"}

VARIABLES
    nextId,      \* audit_log_id_seq
    log,         \* the committed entries
    tx,          \* the transaction of each writer
    page,        \* the reader: its cursor and the ids it has been given
    \* history, read by properties only:
    tamper,      \* what was done to the log behind the trigger's back
    overlapped   \* ids whose transaction overlapped another writer's

vars == <<nextId, log, tx, page, tamper, overlapped>>

Ids == 1 .. MaxId
Forged == 0

\* NULL, which the trigger hashes as the empty string.
NoDigest == <<>>

\* What the digest covers besides prev: the tenant, and every other column a
\* reader relies on (body; unique to an entry, as its timestamp makes it).
Entry == [id : Ids, tenant : Tenants, body : Ids \cup {Forged},
          prev : Seq(Tenants \X Ids),
          digest : Seq(Tenants \X Ids)]

Digest(prev, tenant, body) == Append(prev, <<tenant, body>>)

Tx == [pc : {"idle", "numbered", "inserted"}, id : Ids \cup {0}, tenant : Tenants,
       prev : Seq(Tenants \X Ids)]
IdleTx == [pc |-> "idle", id |-> 0, tenant |-> Reader, prev |-> NoDigest]

Page == [pc : {"idle", "paging", "done"}, before : 1 .. MaxId + 1,
         got : SUBSET Ids, owed : SUBSET Ids]
IdlePage == [pc |-> "idle", before |-> MaxId + 1, got |-> {}, owed |-> {}]

TypeOK ==
    /\ nextId \in 1 .. MaxId + 1
    /\ \A e \in log : e \in Entry
    /\ tx \in [Writers -> Tx]
    /\ page \in Page
    /\ tamper \in {"none", "altered", "removed", "truncated", "inserted"}
    /\ overlapped \subseteq Ids

Init ==
    /\ nextId = 1
    /\ log = {}
    /\ tx = [w \in Writers |-> IdleTx]
    /\ page = IdlePage
    /\ tamper = "none"
    /\ overlapped = {}

-----------------------------------------------------------------------------
(* The trigger and the verification walk.                                  *)

\* SELECT entry_hash FROM audit_log ORDER BY id DESC LIMIT 1: the digest of the
\* newest entry visible, NULL (no history at all) when there is none.
Newest(S) == CHOOSE e \in S : \A f \in S : f.id <= e.id

\* Mutant: ORDER BY id, without DESC.
LastDigest_Oldest(S) ==
    IF S = {} THEN NoDigest ELSE (CHOOSE e \in S : \A f \in S : e.id <= f.id).digest

LastDigest(S) == IF S = {} THEN NoDigest ELSE Newest(S).digest

\* The entry the walk meets just before e, in id order.
Below(S, e) == {f \in S : f.id < e.id}

\* audit_log_verify() finds nothing wrong at e: it has a digest, chained to the
\* entry before (the first one's start is trusted), matching its contents.
LinkHolds(S, e) == Below(S, e) # {} => e.prev = Newest(Below(S, e)).digest

\* Mutant: the walk trusts the stored digest.
ContentHolds_Trusted(e) == e.digest # NoDigest

ContentHolds(e) == e.digest = Digest(e.prev, e.tenant, e.body)
Sound(S, e) == e.digest # NoDigest /\ LinkHolds(S, e) /\ ContentHolds(e)

Intact(S) == \A e \in S : Sound(S, e)

-----------------------------------------------------------------------------
(* The writers.                                                            *)

Busy(w) == tx[w].pc # "idle"

\* INSERT INTO audit_log: the id default is evaluated first.
Number(w, t) ==
    /\ tx[w].pc = "idle"
    /\ nextId <= MaxId
    /\ nextId' = nextId + 1
    /\ tx' = [tx EXCEPT ![w] = [IdleTx EXCEPT !.pc = "numbered", !.id = nextId, !.tenant = t]]
    /\ overlapped' = LET others == {v \in Writers : Busy(v)} IN
                     IF others = {} THEN overlapped
                     ELSE overlapped \cup {nextId} \cup {tx[v].id : v \in others}
    /\ UNCHANGED <<log, page, tamper>>

\* audit_log_chain(): the trigger reads the newest visible entry, takes no lock,
\* and the row goes in, uncommitted.
Chain(w) ==
    /\ tx[w].pc = "numbered"
    /\ tx' = [tx EXCEPT ![w].pc = "inserted", ![w].prev = LastDigest(log)]
    /\ UNCHANGED <<nextId, log, page, tamper, overlapped>>

Commit(w) ==
    LET t == tx[w] IN
    /\ t.pc = "inserted"
    /\ log' = log \cup {[id |-> t.id, tenant |-> t.tenant, body |-> t.id, prev |-> t.prev,
                         digest |-> Digest(t.prev, t.tenant, t.id)]}
    /\ tx' = [tx EXCEPT ![w] = IdleTx]
    /\ UNCHANGED <<nextId, page, tamper, overlapped>>

\* A later statement of the transaction fails; the id is gone for good.
Rollback(w) ==
    /\ Busy(w)
    /\ tx' = [tx EXCEPT ![w] = IdleTx]
    /\ UNCHANGED <<nextId, log, page, tamper, overlapped>>

-----------------------------------------------------------------------------
(* Someone holding the owner credential, once, around the trigger.         *)

Alter(e) ==
    /\ "alter" \in Tampering /\ tamper = "none"
    /\ log' = (log \ {e}) \cup {[e EXCEPT !.body = Forged]}
    /\ tamper' = "altered"
    /\ UNCHANGED <<nextId, tx, page, overlapped>>

\* Nothing stands before the first entry to check it against, and nothing after
\* the last to give its absence away.
Remove(e) ==
    /\ "remove" \in Tampering /\ tamper = "none"
    /\ log' = log \ {e}
    /\ tamper' = IF Below(log, e) # {} /\ Newest(log) # e THEN "removed" ELSE "truncated"
    /\ UNCHANGED <<nextId, tx, page, overlapped>>

InsertAround(t) ==
    /\ "insert" \in Tampering /\ tamper = "none"
    /\ nextId <= MaxId
    /\ nextId' = nextId + 1
    /\ log' = log \cup {[id |-> nextId, tenant |-> t, body |-> Forged,
                         prev |-> NoDigest, digest |-> NoDigest]}
    /\ tamper' = "inserted"
    /\ UNCHANGED <<tx, page, overlapped>>

-----------------------------------------------------------------------------
(* GET /audit, page after page.                                            *)

\* Row level security shows the reader its own entries only.
Visible(before) == {e \in log : e.tenant = Reader /\ e.id < before}

\* ORDER BY id DESC LIMIT n
TopIds(S, n) == {e.id : e \in {e \in S : Cardinality({f \in S : f.id > e.id}) < n}}

\* Mutant: nextBefore one below the last id given.
Turn_SkipsOne(before, got, owed) ==
    LET ids == TopIds(Visible(before), Limit) IN
    page' = IF Cardinality(ids) = Limit
            THEN [pc |-> "paging", got |-> got \cup ids, owed |-> owed,
                  before |-> (CHOOSE i \in ids : \A j \in ids : i <= j) - 1]
            ELSE [pc |-> "done", got |-> got \cup ids, owed |-> owed, before |-> before]

\* nextBefore is the last id of a full page; a short page is the last one.
Turn(before, got, owed) ==
    LET ids == TopIds(Visible(before), Limit) IN
    page' = IF Cardinality(ids) = Limit
            THEN [pc |-> "paging", got |-> got \cup ids, owed |-> owed,
                  before |-> CHOOSE i \in ids : \A j \in ids : i <= j]
            ELSE [pc |-> "done", got |-> got \cup ids, owed |-> owed, before |-> before]

FirstPage ==
    /\ page.pc = "idle"
    /\ Turn(MaxId + 1, {}, {e.id : e \in Visible(MaxId + 1)})
    /\ UNCHANGED <<nextId, log, tx, tamper, overlapped>>

NextPage ==
    /\ page.pc = "paging"
    /\ Turn(page.before, page.got, page.owed)
    /\ UNCHANGED <<nextId, log, tx, tamper, overlapped>>

Leave ==
    /\ page.pc = "done"
    /\ page' = IdlePage
    /\ UNCHANGED <<nextId, log, tx, tamper, overlapped>>

Next ==
    \/ \E w \in Writers : \/ \E t \in Tenants : Number(w, t)
                          \/ Chain(w) \/ Commit(w) \/ Rollback(w)
    \/ \E e \in log : Alter(e) \/ Remove(e)
    \/ \E t \in Tenants : InsertAround(t)
    \/ FirstPage \/ NextPage \/ Leave

Spec == Init /\ [][Next]_vars

-----------------------------------------------------------------------------
(* Properties.                                                             *)

\* A log nobody tampered with verifies, whatever was rolled back, as long as no
\* two inserting transactions overlapped; and where they did, the walk can only
\* trip over an entry of one of them (trigger and walk of migration 003).
BreaksOnlyWhereWritersOverlapped ==
    tamper = "none" => \A e \in log : ~Sound(log, e) => e.id \in overlapped

\* An entry altered in place or inserted without the trigger breaks the chain, at
\* once and for good, forks or not ("altering or deleting any historical row
\* breaks every digest after it"); so does one removed from between others, as
\* long as no two writers had overlapped.
TamperingShows ==
    /\ tamper \in {"altered", "inserted"} => ~Intact(log)
    /\ tamper = "removed" /\ overlapped = {} => ~Intact(log)

\* A reader who pages to the end was given every entry of its firm committed
\* before its first page (and not tampered away), however many were appended
\* meanwhile ("OFFSET silently skips or repeats rows as it does").
PagesAreComplete ==
    page.pc = "done" /\ tamper = "none" => page.owed \subseteq page.got
=============================================================================
