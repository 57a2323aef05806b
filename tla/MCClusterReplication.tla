------------------------ MODULE MCClusterReplication ------------------------
(* A small instance of ClusterReplication for TLC: two trees that share an *)
(* object, and one batch from the first to the second.  What leads back is *)
(* the save by hand.                                                       *)
EXTENDS ClusterReplication

CONSTANTS r1, a, b, pack, tomlA, tomlB

MCTarget  == [r \in Requests |-> b]
MCObjects == [rev \in Revs |-> {pack, IF rev = a THEN tomlA ELSE tomlB}]
=============================================================================
