-------------------------------- MODULE Export --------------------------------
(***************************************************************************)
(* A firm's archive, streamed (server/src/routes/export.js) while its      *)
(* people write deals, delete them, the backfill seals them and operators  *)
(* purge them or offboard the firm.  Each section is a cursor with the     *)
(* snapshot of its own DECLARE, read in batches between awaits on a client *)
(* that may go away.                                                       *)
(***************************************************************************)
EXTENDS Integers, Sequences, FiniteSets, SequencesExt

CONSTANTS
    DealIds,   \* deals that can ever be, as numbers in the order of created_at
    People,    \* users of the firm that can ever be
    Batch,     \* FETCH, the rows read at a time
    Spoilt,    \* deals whose ciphertext, if sealed, opens with no key
    Exported   \* the audit entry of this export

ASSUME ExportAssumption ==
    /\ DealIds \subseteq Nat /\ IsFiniteSet(DealIds)
    /\ Spoilt \subseteq DealIds
    /\ Batch \in Nat \ {0} /\ Exported \notin DealIds

VARIABLES
    deals,     \* rows of deals: nothing, or author, sealed and deleted
    users,     \* rows of users
    log,       \* audit entries of the firm: deals created, and exports
    erased,    \* offboarded, its key destroyed
    export,    \* the request: where it is and what it has read
    archive,   \* what has reached the client
    exposed    \* history: a row has been sent

exportVars == <<deals, users, log, erased, export, archive, exposed>>

NoDeal == [author |-> "nobody", sealed |-> FALSE, deleted |-> FALSE]
Present(rows) == {d \in DealIds : rows[d] # NoDeal}

Sections == <<"deals", "users", "auditLog">>
NotStarted == [pc |-> "idle", section |-> 1, key |-> "unasked",
               deals |-> <<>>, users |-> {}, log |-> {}]
NoArchive == [deals |-> <<>>, users |-> {}, log |-> {}, complete |-> FALSE]

\* Deals from before sealing, sealed ones, or none.
ExportInit ==
    /\ users \in {{p} : p \in People}
    /\ \E p \in users, sealed \in [DealIds -> {"none", "plain", "sealed"}] :
           /\ deals = [d \in DealIds |->
                 IF sealed[d] = "none" THEN NoDeal
                 ELSE [author |-> p, sealed |-> sealed[d] = "sealed", deleted |-> FALSE]]
           /\ log = Present(deals)
    /\ erased = FALSE
    /\ export = NotStarted /\ archive = NoArchive /\ exposed = FALSE

ExportIdle ==
    /\ users = {} /\ deals = [d \in DealIds |-> NoDeal] /\ log = {} /\ erased = FALSE
    /\ export = NotStarted /\ archive = NoArchive /\ exposed = FALSE

----------------------------------------------------------------------------
(* Everybody else *)

\* Somebody's first sign-in.
Join(p) ==
    /\ ~erased /\ p \notin users
    /\ users' = users \cup {p}
    /\ UNCHANGED <<deals, log, erased, export, archive, exposed>>

\* POST /deals: the row and its entry commit together.
Create(d, p) ==
    /\ ~erased /\ p \in users
    /\ deals[d] = NoDeal /\ d \notin log /\ \A e \in log \ {Exported} : e < d
    /\ deals' = [deals EXCEPT ![d] = [author |-> p, sealed |-> TRUE, deleted |-> FALSE]]
    /\ log' = log \cup {d}
    /\ UNCHANGED <<users, erased, export, archive, exposed>>

SoftDelete(d) ==
    /\ deals[d] # NoDeal /\ ~deals[d].deleted
    /\ deals' = [deals EXCEPT ![d].deleted = TRUE]
    /\ UNCHANGED <<users, log, erased, export, archive, exposed>>

\* PUT seals what it writes; the backfill seals what is in the clear.
Seal(d) ==
    /\ deals[d] # NoDeal /\ ~deals[d].sealed
    /\ deals' = [deals EXCEPT ![d].sealed = TRUE]
    /\ UNCHANGED <<users, log, erased, export, archive, exposed>>

Purge(d) ==
    /\ deals[d].deleted
    /\ deals' = [deals EXCEPT ![d] = NoDeal]
    /\ UNCHANGED <<users, log, erased, export, archive, exposed>>

\* The deals, the users and the key go; the trail stays.
Offboard ==
    /\ ~erased
    /\ deals' = [d \in DealIds |-> NoDeal] /\ users' = {} /\ erased' = TRUE
    /\ UNCHANGED <<log, export, archive, exposed>>

----------------------------------------------------------------------------
(* The request *)

\* The record, in a transaction of its own, before anything else.
Record ==
    /\ export.pc = "idle" /\ ~erased
    /\ log' = log \cup {Exported}
    /\ export' = [export EXCEPT !.pc = "declare"]
    /\ UNCHANGED <<deals, users, erased, archive, exposed>>

\* A row of deals as the snapshot has it, ORDER BY created_at, id.
Rows == [i \in 1..Cardinality(Present(deals)) |->
            LET d == CHOOSE x \in Present(deals) :
                         Cardinality({y \in Present(deals) : y < x}) = i - 1
            IN [id |-> d, author |-> deals[d].author, sealed |-> deals[d].sealed]]

\* Every cursor is opened before any is read, each at a moment of its own.
Declare ==
    /\ export.pc = "declare"
    /\ export' = CASE export.section = 1 -> [export EXCEPT !.deals = Rows, !.section = 2]
                   [] export.section = 2 -> [export EXCEPT !.users = users, !.section = 3]
                   [] OTHER -> [export EXCEPT !.log = log, !.section = 1, !.pc = "stream"]
    /\ UNCHANGED <<deals, users, log, erased, archive, exposed>>

\* keyFor and tenantDataKey: the row of the key is read first, so a destroyed
\* key is known as such; one that stands may still be refused by the key service
\* or be of another provider, and every such failure is swallowed. (A failure of
\* the SELECT itself ends the transaction and so the archive: see Break.)
KeyAnswers == IF erased THEN {"destroyed"} ELSE {"here", "unavailable"}

\* The key is asked for at the first batch, ciphertext or none.
AskForKey_FirstBatch(batch) ==
    IF export.key # "unasked" THEN {export.key}
    ELSE IF \E i \in DOMAIN batch : batch[i].sealed THEN KeyAnswers ELSE {"none"}

\* Whatever the first answer is, it stands for the whole archive.
AskForKey(batch) ==
    IF export.key = "unasked" /\ \E i \in DOMAIN batch : batch[i].sealed
    THEN KeyAnswers ELSE {export.key}

\* readPayload: why the payload of a row is null, "none" when it is there. A row
\* has ciphertext or plaintext (migration 005), so nothing is ever 'missing'.
PayloadError(row, key) ==
    CASE ~row.sealed -> "none"
      [] row.sealed /\ key = "here" ->
             IF row.id \in Spoilt THEN "decrypt_failed" ELSE "none"
      [] row.sealed /\ key = "destroyed" -> "key_destroyed"
      [] OTHER -> "key_unavailable"

DealRecord(row, key) ==
    [id |-> row.id, author |-> row.author, payloadError |-> PayloadError(row, key)]

StreamDeals ==
    /\ export.pc = "stream" /\ Sections[export.section] = "deals"
    /\ LET n == IF Len(export.deals) < Batch THEN Len(export.deals) ELSE Batch
           batch == SubSeq(export.deals, 1, n)
       IN IF n = 0
          THEN /\ export' = [export EXCEPT !.section = 2]
               /\ UNCHANGED <<archive, exposed>>
          ELSE \E key \in AskForKey(batch) :
                 /\ export' = [export EXCEPT !.key = key,
                                             !.deals = SubSeq(@, n + 1, Len(@))]
                 /\ archive' = [archive EXCEPT !.deals =
                       @ \o [i \in 1..n |-> DealRecord(batch[i], key)]]
                 /\ exposed' = TRUE
    /\ UNCHANGED <<deals, users, log, erased>>

StreamUsers ==
    /\ export.pc = "stream" /\ Sections[export.section] = "users"
    /\ archive' = [archive EXCEPT !.users = export.users]
    /\ export' = [export EXCEPT !.section = 3]
    /\ exposed' = (exposed \/ export.users # {})
    /\ UNCHANGED <<deals, users, log, erased>>

\* Counts, and then the marker that says the archive is whole.
StreamLog ==
    /\ export.pc = "stream" /\ Sections[export.section] = "auditLog"
    /\ archive' = [archive EXCEPT !.log = export.log, !.complete = TRUE]
    /\ export' = [export EXCEPT !.pc = "done"]
    /\ exposed' = (exposed \/ export.log # {})
    /\ UNCHANGED <<deals, users, log, erased>>

\* The client goes away, or a statement fails: the socket is destroyed and the
\* reading transaction rolled back; the record stays.
Break ==
    /\ export.pc \in {"declare", "stream"}
    /\ export' = [export EXCEPT !.pc = "done"]
    /\ UNCHANGED <<deals, users, log, erased, archive, exposed>>

ExportNext ==
    \/ \E p \in People : Join(p)
    \/ \E d \in DealIds, p \in People : Create(d, p)
    \/ \E d \in DealIds : SoftDelete(d) \/ Seal(d) \/ Purge(d)
    \/ Offboard
    \/ Record \/ Declare \/ StreamDeals \/ StreamUsers \/ StreamLog \/ Break

----------------------------------------------------------------------------
(* Properties *)

\* Whatever has left is on the firm's record, an interrupted export too.
DisclosureIsRecorded == exposed => Exported \in log

\* What excuses a payload that is null: the firm was erased, its own ciphertext
\* does not open, or the one request made of the key service was refused. That
\* one refusal empties every sealed deal after it and the archive is complete all
\* the same: the reason beside each deal is all there is to tell.
Excused(d) ==
    /\ d.payloadError = "key_destroyed" => erased
    /\ d.payloadError = "decrypt_failed" => d.id \in Spoilt
    /\ d.payloadError = "key_unavailable" => export.key = "unavailable"

\* An archive that says it is complete stands on its own: no payload is missing
\* because its key was not asked for, the entry of each deal's creation and of
\* this export are in its trail, each deal is there once and in order, and its
\* author is among the users unless the firm was erased while it was written.
ArchiveIsWhole ==
    archive.complete =>
        /\ \A i \in DOMAIN archive.deals :
               LET d == archive.deals[i]
               IN Excused(d) /\ d.id \in archive.log /\ (d.author \in archive.users \/ erased)
        /\ Exported \in archive.log
        /\ \A i, j \in DOMAIN archive.deals : i < j => archive.deals[i].id < archive.deals[j].id

\* What an admin is given, and what is left behind of the giving, is honest.
ExportIsHonest == DisclosureIsRecorded /\ ArchiveIsWhole
=============================================================================
