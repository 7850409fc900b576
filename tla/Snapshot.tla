------------------------------ MODULE Snapshot ------------------------------
(***************************************************************************)
(* One durable snapshot of the canonical layer (src/src/pipeline/          *)
(* persist.js): saves, loads and listings by several processes on a store  *)
(* whose calls fail, whose writes a crash cuts short and whose keys are    *)
(* evicted or edited.                                                      *)
(*                                                                         *)
(* A payload is its content and the form that decides how it decodes.      *)
(* Every call of the store is a step; what runs between two calls is part  *)
(* of the first.                                                           *)
(***************************************************************************)
EXTENDS PropertyGraph, FactStore, FiniteSets

CONSTANTS
  Procs,
  Ids, Rows,      \* the nodes and the facts there are
  Harvest(_),     \* what the run of a process has gathered
  Seeded,         \* payloads the live key may hold at first
  NoRaw, Nothing,
  MaxOps, MaxDamage, MaxFailures

VARIABLES
  store,        \* the live key and its ":prev"
  quarantine,   \* damaged payloads copied aside
  held,         \* the graph and facts each process has in memory
  op,           \* the call each process is in
  ops, damage, failures,   \* bounds: calls begun, damage since the last save, failed calls
  promise,      \* content the store has answered for
  fallback,     \* the part of it the ":prev" key answers for
  excused       \* something nothing is promised against has happened

vars == <<store, quarantine, held, op, ops, damage, failures, promise, fallback, excused>>
ghosts == <<promise, fallback, excused>>

Kinds == {"merge", "replace", "load", "into", "list"}
Idle == [pc |-> "idle", kind |-> "load", saw |-> NoRaw, prior |-> Nothing,
         demote |-> NoRaw, stale |-> FALSE, owed |-> Nothing, answer |-> "none"]

Contents ==
  [graph : [nodes : UNION {[known -> NODE_TYPES] : known \in SUBSET Ids},
            edges : Seq([from : Ids, type : EDGE_TYPES, to : Ids])],
   facts : Seq(Rows)]
Raws == [form : {"v1", "v2", "newer", "cut", "edited"}, content : Contents]

ASSUME SnapshotAssumption ==
  /\ \A p \in Procs : Harvest(p) \in Contents
  /\ Seeded \subseteq {NoRaw} \cup Raws
  /\ NoRaw \notin Raws /\ Nothing \notin Contents

Raw(form, content) == [form |-> form, content |-> content]

\* decode and migrate: JSON, schema version, sections, checksum and counts, rows.
DecodeError(raw) ==
  CASE raw.form = "newer" -> "unsupported-version"
    [] raw.form \in {"cut", "edited"} -> "corrupt"
    [] raw.form = "v1" /\ FromJSON(raw.content.facts).quarantined # <<>> -> "corrupt"
    [] OTHER -> "none"
Decodes(raw) == raw # NoRaw /\ DecodeError(raw) = "none"

\* rows, and each wanted one of more that none held by then is equal to.
Joined(rows, more, wanted) ==
  LET sum[i \in 0 .. Len(more)] ==
        IF i = 0 THEN rows
        ELSE IF more[i] \in wanted \ ToSet(sum[i - 1]) THEN Append(sum[i - 1], more[i])
        ELSE sum[i - 1]
  IN sum[Len(more)]

\* An id keeps the type it had first.
MergeNodes(nodes, more) ==
  [id \in DOMAIN nodes \cup DOMAIN more |-> IF id \in DOMAIN nodes THEN nodes[id] ELSE more[id]]

\* An edge is dropped unless both its ends are known, and is added once.
MergeEdges(nodes, edges, more) ==
  Joined(edges, more, {e \in ToSet(more) : e.from \in DOMAIN nodes /\ e.to \in DOMAIN nodes})

\* A fact is one of the other's only if every field is equal.
MergeFacts(facts, more) == Joined(facts, more, ToSet(more))

MergeInto(target, incoming) ==
  IF target = Nothing THEN incoming
  ELSE LET nodes == MergeNodes(target.graph.nodes, incoming.graph.nodes)
       IN [graph |-> [nodes |-> nodes,
                      edges |-> MergeEdges(nodes, target.graph.edges, incoming.graph.edges)],
           facts |-> MergeFacts(target.facts, incoming.facts)]

Init ==
  /\ store \in [live : Seeded, prev : {NoRaw}]
  /\ quarantine = {}
  /\ held = [p \in Procs |-> Harvest(p)]
  /\ op = [p \in Procs |-> Idle]
  /\ ops = 0 /\ damage = 0 /\ failures = 0
  /\ promise = IF Decodes(store.live) THEN store.live.content ELSE Nothing
  /\ fallback = Nothing
  /\ excused = FALSE

At(p, pc) == op[p].pc = pc
Going(p, pc) == [op EXCEPT ![p].pc = pc]
Ending(p, answer) ==
  [op EXCEPT ![p] = [Idle EXCEPT !.answer = answer, !.owed = op[p].owed, !.stale = op[p].stale]]
Goto(p, pc) == op' = Going(p, pc)
End(p, answer) == op' = Ending(p, answer)

\* p has read the live key and not yet written what it makes of it.
InSave(p) == op[p].pc \in {"quarantine", "prev", "keep", "write"}

\* p has written: a call of another that has read the live key overlaps with it.
Outdating(p, calls) ==
  [q \in Procs |-> IF q # p /\ calls[q].pc \in {"quarantine", "prev", "keep", "write"}
                   THEN [calls[q] EXCEPT !.stale = TRUE] ELSE calls[q]]

Begin(p, kind) ==
  /\ At(p, "idle") /\ ops < MaxOps
  /\ ops' = ops + 1
  /\ op' = [op EXCEPT ![p] = [Idle EXCEPT !.pc = "live", !.kind = kind, !.owed = promise]]
  /\ UNCHANGED <<store, quarantine, held, damage, failures, ghosts>>

Reading == UNCHANGED <<store, quarantine, ops, damage>>

\* A read has found what it looked for: loads answer, a merge goes on to write.
Settle(p, saw, raw) ==
  LET prior == IF raw = NoRaw THEN Nothing ELSE raw.content
      o == [op[p] EXCEPT !.saw = saw, !.prior = prior, !.demote = raw]
      answer == IF saw = NoRaw /\ raw = NoRaw THEN "absent"
                ELSE IF raw = NoRaw THEN "corrupt" ELSE "present"
  IN IF o.kind \in {"load", "into"}
     THEN /\ End(p, answer)
          /\ held' = IF o.kind = "into" /\ raw # NoRaw
                     THEN [held EXCEPT ![p] = MergeInto(@, raw.content)] ELSE held
     ELSE /\ op' = [op EXCEPT ![p] = [o EXCEPT !.pc = IF raw = NoRaw THEN "write" ELSE "keep"]]
          /\ UNCHANGED held

Wants(p, kinds) == op[p].kind \in kinds

See(p, raw, pc) == op' = [op EXCEPT ![p].saw = raw, ![p].pc = pc] /\ UNCHANGED held

ReadLive(p) ==
  /\ At(p, "live") /\ ~Wants(p, {"list"})
  /\ LET raw == store.live IN
       \/ /\ Decodes(raw)
          /\ Settle(p, raw, raw)
       \/ /\ raw # NoRaw /\ DecodeError(raw) = "unsupported-version"
          /\ End(p, "unsupported-version") /\ UNCHANGED held
       \/ /\ raw # NoRaw /\ DecodeError(raw) = "corrupt"
          /\ See(p, raw, "quarantine")
       \/ /\ raw = NoRaw
          /\ See(p, raw, IF Wants(p, {"replace"}) THEN "write" ELSE "prev")
  /\ Reading /\ UNCHANGED <<failures, ghosts>>

Failing == failures < MaxFailures /\ failures' = failures + 1

\* replace reads the live key tolerantly: a failed read is an absent key.
ReadLiveFails(p) ==
  /\ At(p, "live") /\ ~Wants(p, {"list"}) /\ Failing
  /\ IF Wants(p, {"replace"}) THEN Goto(p, "write") ELSE End(p, "unavailable")
  /\ excused' = (excused \/ Wants(p, {"replace"}))
  /\ Reading /\ UNCHANGED <<held, promise, fallback>>

\* Keyed by a digest of the payload, and tolerant of a failing store.
Quarantine(p) ==
  /\ At(p, "quarantine")
  /\ \/ quarantine' = quarantine \cup {op[p].saw} /\ UNCHANGED failures
     \/ Failing /\ UNCHANGED quarantine
  /\ Goto(p, IF Wants(p, {"replace"}) THEN "write" ELSE "prev")
  /\ UNCHANGED <<store, held, ops, damage, ghosts>>

ReadPrev(p) ==
  /\ At(p, "prev") /\ ~Wants(p, {"list"})
  /\ Settle(p, op[p].saw, IF Decodes(store.prev) THEN store.prev ELSE NoRaw)
  /\ Reading /\ UNCHANGED <<failures, ghosts>>

\* The fallback is read tolerantly too: a failed read is an absent copy.
ReadPrevFails(p) ==
  /\ At(p, "prev") /\ Failing
  /\ IF Wants(p, {"list"})
     THEN End(p, "absent") /\ UNCHANGED held
     ELSE Settle(p, op[p].saw, NoRaw)
  /\ excused' = TRUE
  /\ Reading /\ UNCHANGED <<promise, fallback>>

\* A listing shows an id under which either key is read, however it decodes.
ListLive(p) ==
  /\ At(p, "live") /\ Wants(p, {"list"})
  /\ \/ store.live # NoRaw /\ End(p, "present") /\ UNCHANGED <<failures, excused>>
     \/ store.live = NoRaw /\ Goto(p, "prev") /\ UNCHANGED <<failures, excused>>
     \/ Failing /\ Goto(p, "prev") /\ excused' = TRUE
  /\ Reading /\ UNCHANGED <<held, promise, fallback>>

ListPrev(p) ==
  /\ At(p, "prev") /\ Wants(p, {"list"})
  /\ End(p, IF store.prev = NoRaw THEN "absent" ELSE "present")
  /\ Reading /\ UNCHANGED <<held, failures, ghosts>>

\* Mutant: what was recovered from the fallback is not merged in.
Outgoing_LiveOnly(p) ==
  IF Wants(p, {"merge"}) /\ op[p].saw = op[p].demote THEN MergeInto(op[p].prior, held[p]) ELSE held[p]

Outgoing(p) ==
  IF Wants(p, {"merge"}) THEN MergeInto(op[p].prior, held[p]) ELSE held[p]

Overlaps(p) == op[p].stale

\* The fallback copy, before the live key.
Keep(p) ==
  /\ At(p, "keep")
  /\ store' = [store EXCEPT !.prev = op[p].demote]
  /\ fallback' = promise
  /\ excused' = (excused \/ Overlaps(p))
  /\ op' = Outdating(p, Going(p, "write"))
  /\ UNCHANGED <<quarantine, held, ops, damage, failures, promise>>

\* The rows of one sequence are rows of the other, in the same order.
InOrder(rows, all) ==
  \E at \in [DOMAIN rows -> DOMAIN all] :
    /\ \A i, j \in DOMAIN rows : i < j => at[i] < at[j]
    /\ \A i \in DOMAIN rows : all[at[i]] = rows[i]

\* Every node with its type, every edge, and every fact in the order it was learnt.
Includes(c, d) ==
  \/ d = Nothing
  \/ /\ c # Nothing
     /\ \A id \in DOMAIN d.graph.nodes : Knows(c.graph, id) /\ c.graph.nodes[id] = d.graph.nodes[id]
     /\ ToSet(d.graph.edges) \subseteq ToSet(c.graph.edges)
     /\ InOrder(d.facts, c.facts)

\* What the store answers for once the live key is written.
Promised(p) ==
  /\ promise' = IF Wants(p, {"replace"}) \/ Includes(Outgoing(p), promise)
                THEN Outgoing(p) ELSE MergeInto(promise, held[p])
  /\ fallback' = IF Decodes(store.prev) THEN fallback ELSE Nothing
  /\ excused' = (excused \/ Overlaps(p))

Write(p) ==
  /\ At(p, "write")
  /\ store' = [store EXCEPT !.live = Raw("v2", Outgoing(p))]
  /\ Promised(p)
  /\ damage' = 0
  /\ op' = Outdating(p, Ending(p, "saved"))
  /\ UNCHANGED <<quarantine, held, ops, failures>>

\* A set that throws, a body that cannot be serialised or does not decode: nothing is written.
WriteFails(p) ==
  /\ op[p].pc \in {"keep", "write"} /\ Failing
  /\ End(p, "failed")
  /\ UNCHANGED <<store, quarantine, held, ops, damage, ghosts>>

Hurt == damage < MaxDamage /\ damage' = damage + 1

\* The process stops inside a write: the key holds part of the payload, or is gone.
CrashInWrite(p) ==
  /\ op[p].pc \in {"keep", "write"} /\ Hurt
  /\ LET key == IF At(p, "keep") THEN "prev" ELSE "live"
         whole == IF At(p, "keep") THEN op[p].demote.content ELSE Outgoing(p)
     IN \E left \in {NoRaw, Raw("cut", whole)} : store' = [store EXCEPT ![key] = left]
  /\ excused' = (excused \/ Overlaps(p) \/ damage' > 1)
  /\ op' = Outdating(p, [op EXCEPT ![p] = Idle])
  /\ UNCHANGED <<quarantine, held, ops, failures, promise, fallback>>

\* The process stops between its calls, or after the last write and before its caller hears.
Crash(p) ==
  /\ ~At(p, "idle")
  /\ \/ /\ op' = [op EXCEPT ![p] = Idle]
        /\ UNCHANGED <<store, ghosts>>
     \/ /\ At(p, "write")
        /\ store' = [store EXCEPT !.live = Raw("v2", Outgoing(p))]
        /\ op' = Outdating(p, [op EXCEPT ![p] = Idle])
        /\ Promised(p)
  /\ UNCHANGED <<quarantine, held, ops, damage, failures>>

\* Another hand on the store: a key is evicted, or its payload edited.
Spoil ==
  \E key \in {"live", "prev"} :
    /\ Decodes(store[key]) /\ Hurt
    /\ \E left \in {NoRaw, Raw("edited", store[key].content)} : store' = [store EXCEPT ![key] = left]
    /\ promise' = IF key = "live" THEN fallback ELSE promise
    /\ op' = [p \in Procs |-> [op[p] EXCEPT !.owed = IF @ = Nothing THEN @ ELSE promise']]
    /\ excused' = (excused \/ damage' > 1 \/ \E p \in Procs : InSave(p))
    /\ UNCHANGED <<quarantine, held, ops, failures, fallback>>

Step(p) ==
  \/ \E k \in Kinds : Begin(p, k)
  \/ ReadLive(p) \/ ReadLiveFails(p) \/ Quarantine(p) \/ ReadPrev(p) \/ ReadPrevFails(p)
  \/ ListLive(p) \/ ListPrev(p)
  \/ Keep(p) \/ Write(p) \/ WriteFails(p) \/ CrashInWrite(p) \/ Crash(p)

Next == Spoil \/ \E p \in Procs : Step(p)

Spec == Init /\ [][Next]_vars
-----------------------------------------------------------------------------
\* What a load answers with when the store does not fail it.
Readable ==
  IF Decodes(store.live) THEN store.live.content
  ELSE IF (store.live = NoRaw \/ DecodeError(store.live) = "corrupt") /\ Decodes(store.prev)
       THEN store.prev.content
       ELSE Nothing

\* What acknowledged saves have stored can be loaded: a crash anywhere in a save
\* costs nothing, the loss of the live key between saves costs the last save,
\* unless two saves overlap, the damage strikes twice before a save completes or
\* between a save's read and its write, or a read that takes failure for absence fails.
PromiseKept == excused \/ Includes(Readable, promise)

\* "Nothing was ever saved" is answered, and an id left out of a listing, only
\* where nothing had been promised when the call began, with the same exceptions
\* and that of a save that writes between the reads of the two keys.
NothingPromisedIsDenied ==
  \A p \in Procs :
    op[p].answer = "absent" => excused \/ op[p].stale \/ op[p].owed = Nothing

\* A save that was acknowledged stays readable, and emptiness is never made up.
PromisesHold == PromiseKept /\ NothingPromisedIsDenied

=============================================================================
