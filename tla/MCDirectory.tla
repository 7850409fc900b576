---------------------------- MODULE MCDirectory ----------------------------
(* An instance of Directory for TLC: two accounts, room for a third, and    *)
(* bodies of every shape.                                                   *)
EXTENDS Directory, TLC

CONSTANTS K

MCKnown == (1 :> 2) @@ (2 :> 3)
MCBodies == {[userName |-> [of |-> 1, mixed |-> TRUE], active |-> FALSE],
             [userName |-> [of |-> 1, mixed |-> FALSE], active |-> Absent],
             [userName |-> Odd, active |-> TRUE]}

Op(op, attr, value) == [op |-> op, attr |-> attr, value |-> value]
MCPatches == {<<>>, <<Op("replace", "active", TRUE)>>,
              <<Op("replace", "title", Odd), Op("remove", "active", Absent)>>,
              <<Op("add", "title", Odd)>>}

AnyCaller == Permutations(Callers)
=============================================================================
