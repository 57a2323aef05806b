------------------------ MODULE MCPolicyTransaction ------------------------
(***************************************************************************)
(* Instances of PolicyTransaction for TLC: three members, one created, one *)
(* deleted and one (the master) replaced by a single request; or two       *)
(* members and two requests whose plans overtake each other.               *)
(***************************************************************************)
EXTENDS PolicyTransaction

CONSTANTS r1, r2, old, new, other, hand

MCGenesis == <<None, old, old>>
MCTarget == [r \in Requests |-> <<new, None, new>>]

MCGenesisTwo == <<old, old>>
MCTargetTwo == [r \in Requests |-> IF r = r1 THEN <<None, new>> ELSE <<other, other>>]

MCIdle == {"idle"}
\* Every step but the one between the last look at a member and its restore.
MCChecked == Steps \ {"swap"}
=============================================================================
