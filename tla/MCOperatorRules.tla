-------------------------- MODULE MCOperatorRules --------------------------
(* A small instance of OperatorRules for TLC: com, a.com, x.a.com and      *)
(* b.com, and every set of three rules out of the ones that matter there.  *)
EXTENDS OperatorRules

CONSTANTS com, a, xa, b

MCUp == [d \in Domains |->
           CASE d = com -> {com} [] d = a -> {a, com} [] d = xa -> {xa, a, com} [] OTHER -> {b, com}]
MCLength == [d \in Domains |->
           CASE d = com -> 3 [] d = a -> 5 [] d = xa -> 7 [] OTHER -> 5]
Exact(d, k) == [kind |-> "exact", name |-> d, noapex |-> FALSE, hits |-> {}, tier |-> k]
Wild(d, n, k) == [kind |-> "wildcard", name |-> d, noapex |-> n, hits |-> {}, tier |-> k]
Regex(h, k) == [kind |-> "regex", name |-> com, noapex |-> FALSE, hits |-> h, tier |-> k]
MCRules ==
    {Exact(d, k) : d \in {com, a, xa}, k \in Tiers}
    \cup {Wild(a, n, k) : n \in BOOLEAN, k \in {0, 3}}
    \cup {Regex({xa, b}, k) : k \in {0, 1}}
=============================================================================
