-------------------------------- MODULE Money --------------------------------
(* Whole units of money and shares of them, in parts of Scale; a figure may *)
(* be Unknown.                                                              *)
EXTENDS Integers, Sequences, SequencesExt, FiniteSetsExt

CONSTANTS
    Scale,    \* parts of a whole
    Unknown   \* an input that is not a finite number; in an answer, null

\* Growth is kept in thousandths, so that a rate of one part of Scale is seen.
ASSUME MoneyAssumption == Scale \in 1..1000 /\ Unknown \notin Int

Figures == Int \cup {Unknown}
Counts == Nat \cup {Unknown}

Part(x, p) == (x * p) \div Scale
Least(a, b) == IF a <= b THEN a ELSE b
Most(a, b) == IF a <= b THEN b ELSE a
CeilDiv(x, y) == -((-x) \div y)
Total(amounts) ==
    LET sum[n \in 0..Len(amounts)] == IF n = 0 THEN 0 ELSE sum[n - 1] + amounts[n]
    IN sum[Len(amounts)]
=============================================================================
