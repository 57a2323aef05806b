---------------------------- MODULE MCQueryPath ----------------------------
(* A small instance of QueryPath for TLC.  The answer for a is an alias of *)
(* b with the address ip, and the lists may name either.  The strict       *)
(* profile takes the lists, the open one has a rule that allows a and so   *)
(* grants it alias and address, and the kid's rewrites a to c, which a     *)
(* rule of its own denies.                                                 *)
EXTENDS QueryPath

CONSTANTS strict, open, kid, a, b, c, ip

MCDenied   == [p \in Profiles |-> IF p = kid THEN {c} ELSE {}]
MCAllowed  == [p \in Profiles |-> IF p = open THEN {a} ELSE {}]
MCRewrite  == [p \in Profiles |-> [n \in Names |-> IF p = kid THEN c ELSE n]]
MCRequests == {a} \X Profiles
MCAnswers  == {{b, ip}}
=============================================================================
