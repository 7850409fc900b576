----------------------------- MODULE FactStore -----------------------------
(***************************************************************************)
(* The bitemporal fact store (src/src/pipeline/temporal.js), as operators  *)
(* on the sequence of facts it holds, in the order they were appended.     *)
(*                                                                         *)
(* Both clocks are instants: numbers, with NoInstant for a timestamp that  *)
(* names none and Forever for a valid window left open.                    *)
(***************************************************************************)
EXTENDS Naturals, Sequences, SequencesExt

CONSTANTS NoInstant, Forever

NoFact == 0     \* resolve answers with a position, or with none

About(f, subject, predicate) == f.subject = subject /\ f.predicate = predicate

\* What assert and fromJSON both demand of a fact (subject, predicate and source aside).
Placed(f) ==
  /\ f.from # NoInstant /\ f.recorded # NoInstant /\ f.to # NoInstant
  /\ f.to # Forever => f.to > f.from

AssertFact(facts, f) == IF Placed(f) THEN Append(facts, f) ELSE facts

\* fromJSON keeps the rows it can place and sets the others aside.
FromJSON(rows) == [facts |-> SelectSeq(rows, Placed),
                   quarantined |-> SelectSeq(rows, LAMBDA f : ~Placed(f))]

Covers(f, validAt) == f.from <= validAt /\ (f.to = Forever \/ validAt < f.to)

\* validWidth: f's window is no wider than g's.
AsNarrow(f, g) == g.to = Forever \/ (f.to # Forever /\ f.to - f.from <= g.to - g.from)

\* A later fact of the log replaces the best so far: known later, or as late and as narrow.
Outranks(f, best) ==
  \/ f.recorded > best.recorded
  \/ f.recorded = best.recorded /\ AsNarrow(f, best)

KnownAt(facts, knownAt) == {i \in 1..Len(facts) : facts[i].recorded <= knownAt}

\* The position of the fact that answers at validAt among the admitted positions.
Resolve(facts, subject, predicate, validAt, admitted) ==
  LET answers(i) == i \in admitted /\ About(facts[i], subject, predicate) /\ Covers(facts[i], validAt)
      best[i \in 0..Len(facts)] ==
        IF i = 0 THEN NoFact
        ELSE LET before == best[i - 1] IN
             IF answers(i) /\ (before = NoFact \/ Outranks(facts[i], facts[before]))
             THEN i ELSE before
  IN best[Len(facts)]

\* Mutant: the knowledge clock is forgotten.
Get_Latest(facts, subject, predicate, validAt, knownAt) ==
  Resolve(facts, subject, predicate, validAt, 1..Len(facts))

Get(facts, subject, predicate, validAt, knownAt) ==
  Resolve(facts, subject, predicate, validAt, KnownAt(facts, knownAt))

=============================================================================
