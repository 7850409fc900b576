----------------------------- MODULE Resolution -----------------------------
(***************************************************************************)
(* Entity resolution over the owner names of an assessor's roll            *)
(* (src/src/pipeline/resolve.js), as operators on sets of owner records.   *)
(*                                                                         *)
(* A name is its words, its trailing legal form and the number of its      *)
(* punctuation marks and of its characters; an address is compared as the  *)
(* whole it normalises to.  Scores are in ten-thousandths.                 *)
(***************************************************************************)
EXTENDS Integers, Sequences, SequencesExt, FiniteSetsExt

CONSTANTS
  Alias(_),       \* the words a roll's abbreviation stands for
  Initial(_),     \* a token's first letter
  Before(_, _),   \* the order of tokens
  NoForm, NoAddress,
  MAX_BLOCK_SIZE

Accept == 9200

\* normalizeEntityName: case, punctuation and abbreviations do not tell names apart.
Core(name) == FlattenSeq([i \in 1..Len(name.words) |-> Alias(name.words[i])])
Tokens(name) == ToSet(Core(name))

\* Mutant: no key looks past the order of the tokens.
BlockingKeys_InOrder(r) ==
  LET core == Core(r.name)
  IN (IF core = <<>> THEN {}
      ELSE {<<"prefix", core[1]>>, <<"initials", [i \in 1..Len(core) |-> Initial(core[i])]>>,
            <<"leading", SubSeq(core, 1, 2)>>})
     \cup (IF r.address = NoAddress THEN {} ELSE {<<"address", r.address>>})

\* Any shared key makes a pair. The first six letters are taken to be the first token's.
\* A sorted head is told by the set of two tokens it keeps.
BlockingKeys(r) ==
  LET core == Core(r.name)
      head(s) == SubSeq(s, 1, 2)
  IN (IF core = <<>> THEN {}
      ELSE {<<"prefix", core[1]>>, <<"head", head(SortSeq(core, Before))>>,
            <<"initials", [i \in 1..Len(core) |-> Initial(core[i])]>>, <<"leading", head(core)>>})
     \cup (IF r.address = NoAddress THEN {} ELSE {<<"address", r.address>>})

Block(records, key) == {r \in records : key \in BlockingKeys(r)}

\* A block too large says nothing and is left uncompared.
CandidatePairs(records) ==
  LET keys == UNION {BlockingKeys(r) : r \in records}
      compared == {Block(records, k) : k \in keys}
  IN UNION {{{a, b} : a, b \in blk} : blk \in {x \in compared : Cardinality(x) <= MAX_BLOCK_SIZE}}
       \ {{r} : r \in records}

Overlap(A, B) ==
  IF A \cup B = {} THEN 10000 ELSE (Cardinality(A \cap B) * 10000) \div Cardinality(A \cup B)

Clamp(n) == IF n < 0 THEN 0 ELSE IF n > 10000 THEN 10000 ELSE n

\* Names, then the mailing address, then the legal form.
Score(a, b) ==
  LET names == IF Core(a.name) = Core(b.name) /\ Core(a.name) # <<>>
               THEN 9500 ELSE Overlap(Tokens(a.name), Tokens(b.name))
      address == IF a.address # NoAddress /\ a.address = b.address THEN 600 ELSE 0
      form == IF NoForm \notin {a.name.form, b.name.form} /\ a.name.form # b.name.form THEN -800 ELSE 0
  IN Clamp(names + address + form)

Accepted(a, b) == Score(a, b) >= Accept

AcceptedPairs(records) ==
  {p \in CandidatePairs(records) : \A a, b \in p : a # b => Accepted(a, b)}

\* Union-find over the accepted pairs: the records each is linked to, through any chain.
Cluster(records, accepted, r) ==
  LET linked[n \in 0..Cardinality(records)] ==
        IF n = 0 THEN {r}
        ELSE LET near == linked[n - 1]
             IN near \cup UNION {p \in accepted : p \cap near # {}}
  IN linked[Cardinality(records)]

Clusters(records) ==
  LET accepted == AcceptedPairs(records)
  IN {Cluster(records, accepted, r) : r \in records}

\* pickCanonicalName: the most tokens, a legal form counting as one, then the
\* fewest marks, then the longest.
Rank(name) ==
  [tokens |-> Len(Core(name)) + (IF name.form = NoForm THEN 0 ELSE 1),
   marks |-> name.marks, length |-> name.length]
Richer(m, n) ==
  LET a == Rank(m) b == Rank(n) IN
  \/ a.tokens > b.tokens
  \/ a.tokens = b.tokens /\ a.marks < b.marks
  \/ a.tokens = b.tokens /\ a.marks = b.marks /\ a.length > b.length
CanonicalName(cluster) ==
  LET names == {r.name : r \in cluster}
  IN CHOOSE n \in names : \A m \in names : ~Richer(m, n)
=============================================================================
