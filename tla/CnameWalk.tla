------------------------------ MODULE CnameWalk ------------------------------
(***************************************************************************)
(* The walk along the CNAME records of a response, which decides whether   *)
(* the response may be handed to the client                                *)
(* (walk_response_with_rewrite, src/filter/cname.rs).  QueryPath treats    *)
(* its verdict as one test of the names a response holds; this module is   *)
(* how the test is made, record by record, on whatever the upstream sent.  *)
(*                                                                         *)
(* Names stand for their comparison form: lower case, without the root.    *)
(***************************************************************************)
EXTENDS Naturals, FiniteSets

CONSTANTS
    Names,      \* names in responses
    Malformed,  \* names that normalize_target_name refuses
    None,       \* Option::None for a name
    Depths,     \* values of cname_max_depth a profile may have
    Answers,    \* sets of CNAME records, pairs of owner and target
    MAX_HOPS    \* cap of the depth, and one less than the visited slots

ASSUME WalkAssumption ==
    /\ Malformed \subseteq Names /\ None \notin Names
    /\ Depths \subseteq Nat /\ MAX_HOPS \in Nat
    /\ Answers \subseteq SUBSET (Names \X Names) /\ \A a \in Answers : IsFiniteSet(a)

VARIABLES
    links,      \* the CNAME records of the response
    qname,      \* the name asked upstream
    original,   \* the name the client asked, when a rewrite replaced it
    blocked,    \* what evaluate_synthetic_cname_hop refuses for this client
    compiled,   \* whether the profile has compiled rules at all
    depth,      \* max_depth
    target,     \* target of the record the loop is at
    visited,    \* targets passed
    hops,
    verdict

walkVars == <<links, qname, original, blocked, compiled, depth, target, visited, hops, verdict>>
inputVars == <<links, qname, original, blocked, compiled, depth>>

Verdicts == {"Allow", "PolicyMissing", "CnameMalformed", "CnameDepthExceeded", "CnameLoop", "Filtered"}

WalkTypeOK ==
    /\ links \in Answers /\ qname \in Names /\ original \in Names \cup {None}
    /\ blocked \in SUBSET Names /\ compiled \in BOOLEAN /\ depth \in Depths
    /\ target \in Names \cup {None} /\ visited \in SUBSET Names /\ hops \in 0..MAX_HOPS
    /\ verdict \in Verdicts \cup {"none"}

WalkInit ==
    /\ links \in Answers /\ qname \in Names /\ original \in (Names \ {qname}) \cup {None}
    /\ blocked \in SUBSET Names /\ compiled \in BOOLEAN /\ depth \in Depths
    /\ target = None /\ visited = {} /\ hops = 0 /\ verdict = "none"

-----------------------------------------------------------------------------
Targets(n) == {l[2] : l \in {m \in links : m[1] = n}}
Ambiguous(n) == \E a, b \in Targets(n) : a # b

Capped == IF depth < MAX_HOPS THEN depth ELSE MAX_HOPS
(* The synthetic hop of a rewrite has used one. *)
HopCap == Capped - (IF original = None THEN 0 ELSE 1)

Finish(v) == verdict' = v /\ UNCHANGED <<inputVars, target, visited, hops>>

(* Mutation: without a record of the question, any record starts the walk. *)
FollowAny(n) ==
    IF links = {} THEN verdict' = "Allow" /\ UNCHANGED target
    ELSE /\ target' \in IF Targets(n) = {} THEN {l[2] : l \in links} ELSE Targets(n)
         /\ UNCHANGED verdict

(* Take the record of n, if there is one; all records of one owner agree. *)
Follow(n) ==
    IF Targets(n) = {} THEN verdict' = "Allow" /\ UNCHANGED target
    ELSE target' \in Targets(n) /\ UNCHANGED verdict

(* Before the loop: the policy, the depth and the records of the question. *)
Start ==
    /\ verdict = "none" /\ target = None
    /\ \/ ~compiled /\ Finish("PolicyMissing")
       \/ compiled /\ original # None /\ Capped = 0 /\ Finish("CnameDepthExceeded")
       \/ /\ compiled /\ (original = None \/ Capped # 0)
          /\ \/ /\ Ambiguous(qname) \/ Targets(original) # {}
                /\ Finish("CnameMalformed")
             \/ /\ ~Ambiguous(qname) /\ Targets(original) = {}
                /\ Follow(qname) /\ UNCHANGED <<inputVars, visited, hops>>

LoopsBack == target \in visited \cup {qname, original}

TooDeep == hops >= HopCap

(* Mutation: a name that owns no CNAME, the end of the chain, is passed. *)
RefusedHopInner == target \in blocked /\ Targets(target) # {}
RefusedHop == target \in blocked

BadTarget == target \in Malformed /\ Finish("CnameMalformed")

(* One turn of the loop. *)
Hop ==
    /\ verdict = "none" /\ target # None
    /\ \/ BadTarget
       \/ target \notin Malformed /\ TooDeep /\ Finish("CnameDepthExceeded")
       \/ /\ target \notin Malformed /\ ~TooDeep
          /\ \/ LoopsBack /\ Finish("CnameLoop")
             \/ ~LoopsBack /\ Ambiguous(target) /\ Finish("CnameMalformed")
             \/ ~LoopsBack /\ ~Ambiguous(target) /\ RefusedHop /\ Finish("Filtered")
             \/ /\ ~LoopsBack /\ ~Ambiguous(target) /\ ~RefusedHop
                /\ visited' = visited \cup {target} /\ hops' = hops + 1
                /\ Follow(target) /\ UNCHANGED inputVars

WalkNext == Start \/ Hop

WalkSpec == WalkInit /\ [][WalkNext]_walkVars

-----------------------------------------------------------------------------
(* Properties.                                                             *)

(* What a client that resolves the question in the response can come to:   *)
(* the names in every set that holds the question and is closed under the  *)
(* records.                                                                *)
ClosedUnder(S) == \A l \in links : l[1] \in S => l[2] \in S
From(T) == {n \in Names : \A S \in SUBSET Names : T \subseteq S /\ ClosedUnder(S) => n \in S}
Reachable == From({qname})
After(n)  == From(Targets(n))

(* A response that is let through leads only to names the filter allows    *)
(* for this client, all of them well formed; it does not lead back to the  *)
(* question or to the name a rewrite replaced, offers no choice between    *)
(* two targets, and is no longer than the profile's depth.                 *)
AllowedLeadsNowhereBad ==
    verdict = "Allow" =>
        /\ compiled
        /\ \A l \in links : l[1] \in Reachable =>
               /\ l[2] \notin blocked \cup Malformed \cup {qname, original}
               /\ Targets(l[1]) = {l[2]}
        /\ Cardinality(Reachable) <= HopCap + 1

(* A response is refused for what a client could reach in it, never for a  *)
(* record beside the chain, and for the reason that is reported.           *)
RefusedForCause ==
    /\ verdict = "Filtered" => (Reachable \ {qname}) \cap blocked # {}
    /\ verdict = "CnameLoop" => \E n \in Reachable : n = original \/ n \in After(n)
    /\ verdict = "CnameMalformed" =>
           \/ original # None /\ Targets(original) # {}
           \/ \E n \in Reachable : Ambiguous(n) \/ n \in Malformed
    /\ verdict = "CnameDepthExceeded" =>
           \/ Capped = 0 \/ Cardinality(After(qname)) > HopCap
           \/ \E n \in Reachable : n \in After(n)
=============================================================================
