------------------------------ MODULE Admission ------------------------------
(***************************************************************************)
(* What a single-use credential promises, abstracting every check, await   *)
(* and table of the sign-in: it is offered, claimed by one flow, and ends  *)
(* spent, having admitted its bearer once or not at all.                   *)
(***************************************************************************)
EXTENDS Naturals

CONSTANT Credentials

VARIABLES
    stage,     \* "offered", "claimed" or "spent"
    admitted   \* sessions opened

vars == <<stage, admitted>>

Init ==
    /\ stage = [c \in Credentials |-> "offered"]
    /\ admitted = [c \in Credentials |-> 0]

\* consumed_at is set, by one caller.
Claim(c) ==
    /\ stage[c] = "offered"
    /\ stage' = [stage EXCEPT ![c] = "claimed"]
    /\ UNCHANGED admitted

\* The flow ends with a session, its last step.
Admit(c) ==
    /\ stage[c] = "claimed"
    /\ stage' = [stage EXCEPT ![c] = "spent"]
    /\ admitted' = [admitted EXCEPT ![c] = @ + 1]

\* It expires unclaimed, or the flow ends without a session.
Forfeit(c) ==
    /\ stage[c] # "spent"
    /\ stage' = [stage EXCEPT ![c] = "spent"]
    /\ UNCHANGED admitted

Next == \E c \in Credentials : Claim(c) \/ Admit(c) \/ Forfeit(c)

Spec == Init /\ [][Next]_vars

\* One session at most from one credential.
SingleUse == \A c \in Credentials : admitted[c] <= 1
=============================================================================
