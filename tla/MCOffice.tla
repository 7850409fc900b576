------------------------------- MODULE MCOffice -------------------------------
(* Instances of Office for TLC. *)
EXTENDS Office, TLC

\* The two limiters of the route that are tighter than the global one.
MCLimiters == <<"auth", "magicLink">>
MCRateLimit == [auth |-> 2, magicLink |-> 1]

Symmetry == Permutations(Asks) \cup Permutations(Addresses)
=============================================================================
