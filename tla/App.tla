--------------------------------- MODULE App ---------------------------------
(***************************************************************************)
(* The client (src/src/App.jsx): the deals it keeps, and the desk a deal   *)
(* is worked on.  Metrics are recomputed from the deal on every change and *)
(* never stored, so the two meet in nothing but the deal: a behaviour      *)
(* looks at one or at the other.                                           *)
(***************************************************************************)
EXTENDS Underwriting, ClientDeals

Init == (DeskInit /\ StoreIdle) \/ (StoreInit /\ DeskIdle)

\* The store works while nothing is on the desk.
Keep == mode # "off" /\ StoreNext /\ UNCHANGED deskVars

Work == mode = "off" /\ DeskNext /\ UNCHANGED storeVars

Next == Keep \/ Work

Spec == Init /\ [][Next]_<<deskVars, storeVars>>
=============================================================================
