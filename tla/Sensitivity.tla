----------------------------- MODULE Sensitivity -----------------------------
(***************************************************************************)
(* Solving for a break-even, src/src/lib/sensitivity.js: breakeven and the *)
(* bisection it calls.  The metric is any function of the flexed variable: *)
(* it may have no value in places, jump, or change its sign without a      *)
(* root.  Values of the variable are whole steps of the finest division.   *)
(***************************************************************************)
EXTENDS Integers, FiniteSets

CONSTANTS
    Reach,     \* the search range is 0..Reach
    Sampling,  \* steps between two samples of the scan
    Halvings,  \* maxIter of the bisection
    Curves,    \* metrics flexed against one variable
    NoValue,   \* a metric with no value, and the null of no answer
    Open       \* no answer yet

\* A metric has a value or none wherever it is asked for one, and the bisection
\* is allowed the halvings that a gap between two samples takes.
ASSUME ScanAssumption ==
    /\ Reach \in Nat /\ Sampling \in Nat \ {0} /\ Halvings \in Nat
    /\ NoValue \notin Int /\ Open \notin Int /\ Open # NoValue
    /\ Curves \subseteq [0..Reach -> Int \cup {NoValue}]
    /\ LET halved[k \in 0..Halvings] == IF k = 0 THEN 1 ELSE 2 * halved[k - 1]
       IN Sampling <= halved[Halvings]

VARIABLES
    curve,   \* the metric less its target, over 0..Reach
    at,      \* the next sample of the scan
    left,    \* the sample before it, or NoValue where that has no value
    answer   \* what breakeven has returned, or Open

scanVars == <<curve, at, left, answer>>

\* Whether two values of the metric lie on opposite sides of the target.
Opposite(x, y) == (x < 0 /\ y > 0) \/ (x > 0 /\ y < 0)

\* bisect: the side whose ends differ, until a root or no step is left.
Bisected(f, from, to) ==
    LET step[k \in 0..Halvings] ==
            IF k = 0 THEN [a |-> from, b |-> to, root |-> Open]
            ELSE LET before == step[k - 1]
                     middle == (before.a + before.b) \div 2
                 IN IF before.root # Open THEN before
                    ELSE IF f[middle] = NoValue THEN [before EXCEPT !.root = NoValue]
                    ELSE IF f[middle] = 0 \/ before.b - before.a <= 1 THEN [before EXCEPT !.root = middle]
                    ELSE IF Opposite(f[before.a], f[middle]) THEN [before EXCEPT !.b = middle]
                    ELSE [before EXCEPT !.a = middle]
        last == step[Halvings]
    IN IF last.root = Open THEN (last.a + last.b) \div 2 ELSE last.root

\* Mutant: a change of sign is taken for a root.
Verified_Crossed(f, root) == root # NoValue

\* A change of sign is not a root: what the bisection found is tried again.
Verified(f, root) == root # NoValue /\ f[root] = 0

Scan ==
    /\ answer = Open
    /\ at <= Reach
    /\ LET crossed == left # NoValue /\ curve[at] # NoValue /\ Opposite(curve[left], curve[at])
           root == IF crossed THEN Bisected(curve, left, at) ELSE NoValue
       IN IF curve[at] = NoValue THEN left' = NoValue /\ UNCHANGED answer
          ELSE IF curve[at] = 0 THEN answer' = at /\ UNCHANGED left
          ELSE IF Verified(curve, root) THEN answer' = root /\ UNCHANGED left
          ELSE left' = at /\ UNCHANGED answer
    /\ at' = at + Sampling
    /\ UNCHANGED curve

\* Nothing in the range hits the target.
GiveUp ==
    /\ answer = Open
    /\ at > Reach
    /\ answer' = NoValue
    /\ UNCHANGED <<curve, at, left>>

NoScan == curve = <<>> /\ at = 0 /\ left = NoValue /\ answer = NoValue
StartScan == curve \in Curves /\ at = 0 /\ left = NoValue /\ answer = Open

ScanNext == Scan \/ GiveUp
ScanSpec == (NoScan \/ StartScan) /\ [][ScanNext]_scanVars

----------------------------------------------------------------------------
\* A break-even that is shown hits the target.  One is found wherever the
\* scan meets the target at a sample, or the metric climbs or falls through it
\* a step at a time between two samples with values everywhere between: a jump
\* over the target is never reported, and never ends the search.
BreakevenIsARoot ==
    LET samples == {i \in 0..Reach : i % Sampling = 0}
        smooth(i) == \A x \in i..(i + Sampling) :
                         /\ curve[x] # NoValue
                         /\ x > i => curve[x] - curve[x - 1] \in -1..1
        reachable == \E i \in samples : \/ curve[i] = 0
                                        \/ /\ i + Sampling \in samples
                                           /\ smooth(i)
                                           /\ Opposite(curve[i], curve[i + Sampling])
    IN curve # <<>> /\ answer # Open =>
           /\ answer # NoValue => curve[answer] = 0
           /\ answer = NoValue => ~reachable
=============================================================================
