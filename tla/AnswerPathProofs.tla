-------------------------- MODULE AnswerPathProofs --------------------------
(***************************************************************************)
(* Two components an upstream answer passes: the CNAME walk that decides   *)
(* whether it may be handed out, and the circuit breaker that decided      *)
(* whether the upstream was asked.                                         *)
(*                                                                         *)
(* The walk: what a response that is let through can lead to, and what one *)
(* that is refused holds, for any records, names, depths and blocked       *)
(* names.                                                                  *)
(*                                                                         *)
(* The breaker: for any finite set of concurrent queries, any threshold    *)
(* and any probe interval, the half-open circuit always has an owner, and  *)
(* the failure count is bounded.                                           *)
(***************************************************************************)
EXTENDS CnameWalk, CircuitBreaker, Functions, FiniteSetTheorems, TLAPS

-----------------------------------------------------------------------------
(* CnameWalk.                                                              *)

Walking == target # None \/ verdict = "Allow"

(* The walk has been through visited, one hop each. *)
Counted == IsFiniteSet(visited) /\ Cardinality(visited) = hops

Clean == visited \cap (blocked \cup Malformed \cup {qname, original}) = {}

(* Where the records of the names passed lead: to names passed, and to the *)
(* target at hand.                                                         *)
Chain ==
    Walking =>
        /\ compiled /\ HopCap \in Nat /\ HopCap <= MAX_HOPS /\ hops <= HopCap
        /\ \A n \in visited \cup {qname} :
               ~Ambiguous(n) /\ Targets(n) \subseteq visited \cup (IF verdict = "Allow" THEN {} ELSE {target})

WalkInv == WalkTypeOK /\ Counted /\ Clean /\ Chain /\ (target = None => visited = {} /\ hops = 0)

-----------------------------------------------------------------------------
LEMMA CappedType == ASSUME WalkTypeOK PROVE Capped \in 0..MAX_HOPS
  BY WalkAssumption DEF WalkTypeOK, Capped

LEMMA TargetsType == ASSUME WalkTypeOK, NEW n PROVE Targets(n) \subseteq Names
  BY WalkAssumption DEF WalkTypeOK, Targets

LEMMA InputsFixed ==
    ASSUME UNCHANGED inputVars
    PROVE  /\ \A n : Targets(n)' = Targets(n) /\ (Ambiguous(n)' <=> Ambiguous(n)) /\ After(n)' = After(n)
           /\ HopCap' = HopCap /\ Capped' = Capped
  <1>1. \A n : Targets(n)' = Targets(n) BY DEF Targets, inputVars
  <1>2. \A S : ClosedUnder(S)' <=> ClosedUnder(S) BY DEF ClosedUnder, inputVars
  <1>3. \A n : After(n)' = After(n) BY <1>1, <1>2 DEF After, From
  <1> QED BY <1>1, <1>3 DEF Ambiguous, HopCap, Capped, inputVars

LEMMA WalkInvInit == ASSUME WalkInit PROVE WalkInv
  <1>1. WalkTypeOK BY WalkAssumption DEF WalkInit, WalkTypeOK
  <1>2. IsFiniteSet({}) /\ Cardinality({}) = 0 BY FS_EmptySet
  <1> QED BY <1>1, <1>2 DEF WalkInit, WalkInv, Counted, Clean, Chain, Walking

LEMMA FinishStep ==
    ASSUME WalkInv, NEW v \in Verdicts \ {"Allow"}, verdict = "none", Finish(v)
    PROVE  WalkInv'
  <1> USE DEF Finish, inputVars, WalkInv
  <1>1. WalkTypeOK' BY DEF WalkTypeOK
  <1>2. Counted' BY DEF Counted
  <1>3. Clean' BY DEF Clean
  <1>4. Chain'
    <2>1. UNCHANGED inputVars /\ UNCHANGED <<qname, compiled, target, visited, hops>>
          /\ verdict' # "Allow"
      BY DEF Verdicts
    <2> QED BY <2>1, InputsFixed DEF Chain, Walking
  <1> QED BY <1>1, <1>2, <1>3, <1>4

LEMMA StartStep == ASSUME WalkInv, Start PROVE WalkInv'
  <1> USE DEF WalkInv
  <1>1. CASE \E v \in Verdicts \ {"Allow"} : Finish(v)
    BY <1>1, FinishStep DEF Start
  <1>2. CASE /\ compiled /\ (original = None \/ Capped # 0) /\ ~Ambiguous(qname)
             /\ Follow(qname) /\ UNCHANGED <<inputVars, visited, hops>>
    <2>1. /\ visited = {} /\ hops = 0 /\ verdict = "none" /\ target = None
      BY DEF Start
    <2>2. UNCHANGED <<links, qname, original, blocked, compiled, depth, visited, hops>>
      BY <1>2 DEF inputVars
    <2>3. \A n : (Ambiguous(n)' <=> Ambiguous(n)) /\ Targets(n)' = Targets(n)
      BY <2>2 DEF Ambiguous, Targets
    <2>4. WalkTypeOK'
      BY <1>2, <2>2, TargetsType DEF WalkTypeOK, Follow, Verdicts
    <2>5. Counted' /\ Clean' BY <2>2 DEF Counted, Clean
    <2>6. HopCap' = HopCap /\ HopCap \in Nat /\ HopCap <= MAX_HOPS
      <3>1. HopCap' = HopCap BY <2>2 DEF HopCap, Capped
      <3>2. Capped \in 0..MAX_HOPS BY CappedType
      <3> QED BY <1>2, <3>1, <3>2, WalkAssumption DEF HopCap
    <2>7. Targets(qname) \subseteq (IF verdict' = "Allow" THEN {} ELSE {target'})
      BY <1>2, <2>1 DEF Follow, Ambiguous
    <2>8. Chain'
      BY <1>2, <2>1, <2>2, <2>3, <2>6, <2>7 DEF Chain
    <2> QED BY <2>1, <2>2, <2>4, <2>5, <2>8
  <1> QED BY <1>1, <1>2 DEF Start, Verdicts

LEMMA HopStep == ASSUME WalkInv, Hop PROVE WalkInv'
  <1> USE DEF WalkInv
  <1>0. verdict = "none" /\ target # None /\ target \in Names
    BY DEF Hop, WalkTypeOK
  <1>1. CASE \E v \in Verdicts \ {"Allow"} : Finish(v)
    BY <1>0, <1>1, FinishStep
  <1>2. CASE /\ target \notin Malformed /\ ~TooDeep /\ ~LoopsBack /\ ~Ambiguous(target) /\ ~RefusedHop
             /\ visited' = visited \cup {target} /\ hops' = hops + 1
             /\ Follow(target) /\ UNCHANGED inputVars
    <2>1. UNCHANGED <<links, qname, original, blocked, compiled, depth>>
      BY <1>2 DEF inputVars
    <2>2. \A n : (Ambiguous(n)' <=> Ambiguous(n)) /\ Targets(n)' = Targets(n)
      BY <2>1 DEF Ambiguous, Targets
    <2>3. HopCap' = HopCap BY <2>1 DEF HopCap, Capped
    <2>4. /\ compiled /\ HopCap \in Nat /\ HopCap <= MAX_HOPS /\ hops <= HopCap
          /\ \A n \in visited \cup {qname} : ~Ambiguous(n) /\ Targets(n) \subseteq visited \cup {target}
      BY <1>0 DEF Chain, Walking
    <2>5. hops \in Nat /\ hops < HopCap
      BY <1>2, <2>4 DEF TooDeep, WalkTypeOK
    <2>6. WalkTypeOK'
      <3>1. hops' \in 0..MAX_HOPS BY <1>2, <2>4, <2>5, WalkAssumption
      <3>2. visited' \in SUBSET Names BY <1>0, <1>2 DEF WalkTypeOK
      <3>3. target' \in Names \cup {None} /\ verdict' \in Verdicts \cup {"none"}
        BY <1>0, <1>2, TargetsType DEF Follow, Verdicts
      <3> QED BY <2>1, <3>1, <3>2, <3>3 DEF WalkTypeOK
    <2>7. target \notin visited BY <1>2 DEF LoopsBack
    <2>8. Counted'
      <3>1. IsFiniteSet(visited \cup {target}) /\ Cardinality(visited \cup {target}) = hops + 1
        BY <2>7, FS_AddElement DEF Counted
      <3> QED BY <1>2, <3>1 DEF Counted
    <2>9. Clean'
      BY <1>2, <2>1 DEF Clean, LoopsBack, RefusedHop
    <2>10. /\ ~Ambiguous(target)
           /\ Targets(target) \subseteq (IF verdict' = "Allow" THEN {} ELSE {target'})
      BY <1>0, <1>2 DEF Follow, Ambiguous
    <2>11. Chain'
      <3>1. \A n \in visited' \cup {qname} :
              ~Ambiguous(n) /\ Targets(n) \subseteq visited' \cup (IF verdict' = "Allow" THEN {} ELSE {target'})
        BY <1>2, <2>4, <2>10
      <3>2. hops' <= HopCap BY <1>2, <2>4, <2>5
      <3> QED BY <2>1, <2>2, <2>3, <2>4, <3>1, <3>2 DEF Chain
    <2>12. target' # None
      <3>1. Targets(target) \subseteq Names BY TargetsType
      <3> QED BY <1>0, <1>2, <3>1, WalkAssumption DEF Follow
    <2> QED BY <2>6, <2>8, <2>9, <2>11, <2>12
  <1> QED BY <1>1, <1>2 DEF Hop, BadTarget, Verdicts

(* The inductive invariant: the names passed are clean, counted by hops,   *)
(* and their records lead to no other name than the one at hand.           *)
THEOREM WalkInvariant == WalkSpec => []WalkInv
  <1>1. WalkInit => WalkInv BY WalkInvInit
  <1>2. WalkInv /\ [WalkNext]_walkVars => WalkInv'
    <2>1. ASSUME WalkInv, UNCHANGED walkVars PROVE WalkInv'
      <3>1. UNCHANGED inputVars /\ UNCHANGED <<qname, original, blocked, target, visited, hops, verdict>>
        BY <2>1 DEF walkVars, inputVars
      <3>2. WalkTypeOK' /\ Counted' /\ Clean'
        BY <2>1, <3>1 DEF walkVars, WalkInv, WalkTypeOK, Counted, Clean
      <3>3. Chain' BY <2>1, <3>1, InputsFixed DEF walkVars, WalkInv, Chain, Walking
      <3> QED BY <2>1, <3>1, <3>2, <3>3 DEF WalkInv
    <2> QED BY <2>1, StartStep, HopStep DEF WalkNext
  <1> QED BY <1>1, <1>2, PTL DEF WalkSpec

(* The walk stays within its visited slots whatever the response holds.    *)
THEOREM WalkTypes == WalkSpec => []WalkTypeOK
  <1>1. WalkInv => WalkTypeOK BY DEF WalkInv
  <1> QED BY <1>1, WalkInvariant, PTL

(* For any response: what is let through leads only to names the filter    *)
(* allows, along one chain no longer than the profile's depth.             *)
THEOREM AllowedIsClean == WalkSpec => []AllowedLeadsNowhereBad
  <1>1. ASSUME WalkInv, verdict = "Allow"
        PROVE  /\ compiled
               /\ \A l \in links : l[1] \in Reachable =>
                      /\ l[2] \notin blocked \cup Malformed \cup {qname, original}
                      /\ Targets(l[1]) = {l[2]}
               /\ Cardinality(Reachable) <= HopCap + 1
    <2> DEFINE Passed == visited \cup {qname}
    <2>1. /\ compiled /\ HopCap \in Nat /\ hops <= HopCap
          /\ \A n \in Passed : ~Ambiguous(n) /\ Targets(n) \subseteq visited
      BY <1>1 DEF WalkInv, Chain, Walking
    <2>2. Passed \in SUBSET Names BY <1>1 DEF WalkInv, WalkTypeOK
    <2>3. \A l \in links : l[2] \in Targets(l[1])
      BY DEF Targets
    <2>4. ClosedUnder(Passed)
      BY <2>1, <2>3 DEF ClosedUnder
    <2>5. Reachable \subseteq Passed
      BY <2>2, <2>4 DEF Reachable, From
    <2>6. ASSUME NEW l \in links, l[1] \in Reachable
          PROVE  /\ l[2] \notin blocked \cup Malformed \cup {qname, original}
                 /\ Targets(l[1]) = {l[2]}
      <3>1. ~Ambiguous(l[1]) /\ l[2] \in visited /\ l[2] \in Targets(l[1])
        BY <2>1, <2>3, <2>5, <2>6
      <3> QED BY <1>1, <3>1 DEF WalkInv, Clean, Ambiguous
    <2>7. Cardinality(Reachable) <= HopCap + 1
      <3>1. IsFiniteSet(visited) /\ Cardinality(visited) = hops /\ hops \in Nat
        BY <1>1 DEF WalkInv, Counted, WalkTypeOK
      <3>2. IsFiniteSet(Passed) /\ Cardinality(Passed) <= hops + 1
        <4>1. CASE qname \in visited
          <5>1. Passed = visited BY <4>1
          <5> QED BY <3>1, <5>1
        <4>2. CASE qname \notin visited
          BY <3>1, <4>2, FS_AddElement
        <4> QED BY <4>1, <4>2
      <3>3. Cardinality(Reachable) <= Cardinality(Passed)
        BY <2>5, <3>2, FS_Subset
      <3>4. IsFiniteSet(Reachable) /\ Cardinality(Reachable) \in Nat /\ Cardinality(Passed) \in Nat
        BY <2>5, <3>2, FS_Subset, FS_CardinalityType
      <3> QED BY <2>1, <3>1, <3>2, <3>3, <3>4
    <2> QED BY <2>1, <2>6, <2>7
  <1>2. WalkInv => AllowedLeadsNowhereBad
    BY <1>1 DEF AllowedLeadsNowhereBad
  <1> QED BY <1>2, WalkInvariant, PTL

-----------------------------------------------------------------------------
(* What can be reached from some names holds them and is closed under the  *)
(* records.                                                                *)
LEMMA FromIsClosed ==
    ASSUME WalkTypeOK, NEW T \in SUBSET Names
    PROVE  From(T) \in SUBSET Names /\ T \subseteq From(T) /\ ClosedUnder(From(T))
  <1>1. From(T) \in SUBSET Names /\ T \subseteq From(T) BY DEF From
  <1>2. ASSUME NEW l \in links, l[1] \in From(T) PROVE l[2] \in From(T)
    <2>1. l[2] \in Names BY WalkAssumption DEF WalkTypeOK
    <2>2. ASSUME NEW S \in SUBSET Names, T \subseteq S, ClosedUnder(S) PROVE l[2] \in S
      <3>1. l[1] \in S BY <1>2, <2>2 DEF From
      <3> QED BY <2>2, <3>1 DEF ClosedUnder
    <2> QED BY <2>1, <2>2 DEF From
  <1> QED BY <1>1, <1>2 DEF ClosedUnder

LEMMA FromSteps ==
    ASSUME WalkTypeOK, NEW T \in SUBSET Names, NEW n \in From(T)
    PROVE  Targets(n) \subseteq From(T)
  BY FromIsClosed DEF ClosedUnder, Targets

(* A response has finitely many records, so what it leads to is finite. *)
LEMMA AfterIsFinite ==
    ASSUME WalkTypeOK, NEW n
    PROVE  IsFiniteSet(After(n))
  <1> DEFINE Ends == {l[2] : l \in links}
  <1>1. IsFiniteSet(links) BY WalkAssumption DEF WalkTypeOK
  <1>2. IsFiniteSet(Ends)
    <2> DEFINE f == [l \in links |-> l[2]]
    <2>1. f \in Surjection(links, Ends) BY DEF Surjection
    <2> HIDE DEF f
    <2> QED BY <1>1, <2>1, FS_Surjection
  <1>3. Ends \in SUBSET Names BY WalkAssumption DEF WalkTypeOK
  <1>4. Targets(n) \subseteq Ends BY DEF Targets
  <1>5. ClosedUnder(Ends) BY DEF ClosedUnder
  <1>6. After(n) \subseteq Ends BY <1>3, <1>4, <1>5 DEF After, From
  <1> QED BY <1>2, <1>6, FS_Subset

(* The walk is at a name that every name passed leads to. *)
Led ==
    /\ visited \subseteq After(qname)
    /\ verdict # "Allow" /\ target # None => \A n \in visited \cup {qname} : target \in After(n)

(* What the walk saw when it refused. *)
Seen ==
    /\ verdict = "Filtered" => target # None /\ target \in blocked /\ target # qname
    /\ verdict = "CnameLoop" => target # None /\ LoopsBack
    /\ verdict = "CnameMalformed" =>
           \/ Ambiguous(qname) \/ Targets(original) # {}
           \/ target # None /\ (target \in Malformed \/ Ambiguous(target))
    /\ verdict = "CnameDepthExceeded" => Capped = 0 \/ (target # None /\ TooDeep)

CauseInv == Led /\ Seen

LEMMA CauseInit == ASSUME WalkInit PROVE CauseInv
  BY DEF WalkInit, CauseInv, Led, Seen

LEMMA CauseFinish ==
    ASSUME CauseInv, verdict = "none", NEW v \in Verdicts \ {"Allow"}, Finish(v),
           v = "Filtered" => target # None /\ target \in blocked /\ target # qname,
           v = "CnameLoop" => target # None /\ LoopsBack,
           v = "CnameMalformed" => \/ Ambiguous(qname) \/ Targets(original) # {}
                                   \/ target # None /\ (target \in Malformed \/ Ambiguous(target)),
           v = "CnameDepthExceeded" => Capped = 0 \/ (target # None /\ TooDeep)
    PROVE  CauseInv'
  <1>1. UNCHANGED inputVars /\ UNCHANGED <<target, visited, hops>> /\ verdict' = v BY DEF Finish
  <1>2. UNCHANGED <<qname, original, blocked>> BY <1>1 DEF inputVars
  <1>3. Led' BY <1>1, <1>2, InputsFixed DEF CauseInv, Led, Verdicts
  <1>4. (LoopsBack' <=> LoopsBack) /\ (TooDeep' <=> TooDeep)
    BY <1>1, <1>2, InputsFixed DEF LoopsBack, TooDeep
  <1>5. Seen' BY <1>1, <1>2, <1>4, InputsFixed DEF Seen
  <1> QED BY <1>3, <1>5 DEF CauseInv

LEMMA CauseStart == ASSUME WalkInv, CauseInv, Start PROVE CauseInv'
  <1>0. verdict = "none" /\ target = None /\ visited = {} /\ WalkTypeOK BY DEF Start, WalkInv
  <1>1. CASE ~compiled /\ Finish("PolicyMissing") BY <1>0, <1>1, CauseFinish DEF Verdicts
  <1>2. CASE Capped = 0 /\ Finish("CnameDepthExceeded") BY <1>0, <1>2, CauseFinish DEF Verdicts
  <1>3. CASE (Ambiguous(qname) \/ Targets(original) # {}) /\ Finish("CnameMalformed")
    BY <1>0, <1>3, CauseFinish DEF Verdicts
  <1>4. CASE Follow(qname) /\ UNCHANGED <<inputVars, visited, hops>>
    <2>1. qname' = qname /\ visited' = {} BY <1>0, <1>4 DEF inputVars
    <2>2. verdict' \in {"none", "Allow"} BY <1>0, <1>4 DEF Follow
    <2>3. verdict' # "Allow" => target' \in Targets(qname) BY <1>0, <1>4 DEF Follow
    <2>4. Targets(qname) \subseteq After(qname)
      BY <1>0, TargetsType, FromIsClosed DEF After
    <2>5. Led' BY <1>4, <2>1, <2>3, <2>4, InputsFixed DEF Led
    <2>6. Seen' BY <2>2 DEF Seen
    <2> QED BY <2>5, <2>6 DEF CauseInv
  <1> QED BY <1>1, <1>2, <1>3, <1>4 DEF Start

LEMMA CauseHop == ASSUME WalkInv, CauseInv, Hop PROVE CauseInv'
  <1>0. verdict = "none" /\ target # None /\ WalkTypeOK BY DEF Hop, WalkInv
  <1>1. CASE target \in Malformed /\ Finish("CnameMalformed")
    BY <1>0, <1>1, CauseFinish DEF Verdicts
  <1>2. CASE TooDeep /\ Finish("CnameDepthExceeded") BY <1>0, <1>2, CauseFinish DEF Verdicts
  <1>3. CASE LoopsBack /\ Finish("CnameLoop") BY <1>0, <1>3, CauseFinish DEF Verdicts
  <1>4. CASE Ambiguous(target) /\ Finish("CnameMalformed") BY <1>0, <1>4, CauseFinish DEF Verdicts
  <1>5. CASE ~LoopsBack /\ RefusedHop /\ Finish("Filtered")
    BY <1>0, <1>5, CauseFinish DEF Verdicts, RefusedHop, LoopsBack
  <1>6. CASE visited' = visited \cup {target} /\ Follow(target) /\ UNCHANGED inputVars
    <2>1. qname' = qname BY <1>6 DEF inputVars
    <2>2. verdict' \in {"none", "Allow"} BY <1>0, <1>6 DEF Follow
    <2>3. \A n \in visited \cup {qname} : target \in After(n) BY <1>0 DEF CauseInv, Led
    <2>4. visited' \subseteq After(qname) BY <1>6, <2>3 DEF CauseInv, Led
    <2>5. verdict' # "Allow" => target' \in Targets(target) BY <1>0, <1>6 DEF Follow
    <2>6. ASSUME NEW n \in visited \cup {qname, target} PROVE Targets(target) \subseteq After(n)
      <3>1. Targets(n) \in SUBSET Names BY <1>0, TargetsType
      <3>2. CASE n = target BY <1>0, <3>1, <3>2, FromIsClosed DEF After
      <3>3. CASE n # target
        <4>1. target \in From(Targets(n)) BY <2>3, <3>3 DEF After
        <4> QED BY <1>0, <3>1, <4>1, FromSteps DEF After
      <3> QED BY <3>2, <3>3
    <2>7. Led' BY <1>6, <2>1, <2>4, <2>5, <2>6, InputsFixed DEF Led
    <2>8. Seen' BY <2>2 DEF Seen
    <2> QED BY <2>7, <2>8 DEF CauseInv
  <1> QED BY <1>1, <1>2, <1>3, <1>4, <1>5, <1>6 DEF Hop, BadTarget

LEMMA CauseStutter == ASSUME CauseInv, UNCHANGED walkVars PROVE CauseInv'
  <1>1. UNCHANGED inputVars /\ UNCHANGED <<qname, original, blocked, target, visited, hops, verdict>>
    BY DEF walkVars, inputVars
  <1>2. Led' BY <1>1, InputsFixed DEF CauseInv, Led
  <1>3. (LoopsBack' <=> LoopsBack) /\ (TooDeep' <=> TooDeep)
    BY <1>1, InputsFixed DEF LoopsBack, TooDeep
  <1>4. Seen' BY <1>1, <1>3, InputsFixed DEF CauseInv, Seen
  <1> QED BY <1>2, <1>4 DEF CauseInv

LEMMA CauseHolds == ASSUME WalkInv, CauseInv PROVE RefusedForCause
  <1>0. WalkTypeOK /\ qname \in Names BY DEF WalkInv, WalkTypeOK
  <1>1. qname \in Reachable /\ Reachable \in SUBSET Names /\ Targets(qname) \subseteq Reachable
    BY <1>0, FromIsClosed, FromSteps DEF Reachable
  <1>2. After(qname) \subseteq Reachable
    <2>1. ClosedUnder(Reachable) BY <1>0, FromIsClosed DEF Reachable
    <2> QED BY <1>1, <2>1 DEF After, From
  <1>3. ASSUME verdict # "Allow", target # None
        PROVE  target \in Reachable /\ \A n \in visited \cup {qname} : target \in After(n)
    BY <1>2, <1>3 DEF CauseInv, Led
  <1>4. ASSUME verdict = "Filtered" PROVE (Reachable \ {qname}) \cap blocked # {}
    BY <1>3, <1>4 DEF CauseInv, Seen
  <1>5. ASSUME verdict = "CnameLoop" PROVE \E n \in Reachable : n = original \/ n \in After(n)
    BY <1>3, <1>5 DEF CauseInv, Seen, LoopsBack
  <1>6. ASSUME verdict = "CnameMalformed"
        PROVE  \/ original # None /\ Targets(original) # {}
               \/ \E n \in Reachable : Ambiguous(n) \/ n \in Malformed
    <2>1. Targets(None) = {} BY <1>0, WalkAssumption DEF Targets, WalkTypeOK
    <2> QED BY <1>1, <1>3, <1>6, <2>1 DEF CauseInv, Seen
  <1>7. ASSUME verdict = "CnameDepthExceeded"
        PROVE  \/ Capped = 0 \/ Cardinality(After(qname)) > HopCap
               \/ \E n \in Reachable : n \in After(n)
    <2>1. CASE Capped # 0 /\ target \notin visited
      <3>1. target # None /\ TooDeep BY <1>7, <2>1 DEF CauseInv, Seen
      <3>2. visited \cup {target} \subseteq After(qname)
        BY <1>3, <1>7, <3>1 DEF CauseInv, Led
      <3>3. IsFiniteSet(After(qname)) BY <1>0, AfterIsFinite
      <3>4. IsFiniteSet(visited) /\ Cardinality(visited) = hops /\ hops \in Nat
        BY DEF WalkInv, Counted, WalkTypeOK
      <3>5. IsFiniteSet(visited \cup {target}) /\ Cardinality(visited \cup {target}) = hops + 1
        BY <2>1, <3>4, FS_AddElement
      <3>6. Cardinality(visited \cup {target}) <= Cardinality(After(qname))
        BY <3>2, <3>3, FS_Subset
      <3>7. Cardinality(After(qname)) \in Nat BY <3>3, FS_CardinalityType
      <3>8. HopCap \in Nat /\ hops >= HopCap BY <3>1 DEF WalkInv, Chain, Walking, TooDeep
      <3> QED BY <3>4, <3>5, <3>6, <3>7, <3>8
    <2>2. CASE Capped # 0 /\ target \in visited
      <3>1. target # None BY <1>7, <2>2 DEF CauseInv, Seen
      <3> QED BY <1>3, <1>7, <2>2, <3>1
    <2> QED BY <2>1, <2>2
  <1> QED BY <1>4, <1>5, <1>6, <1>7 DEF RefusedForCause

(* For any response: one that is refused is refused for what a client      *)
(* could reach in it and for the reason reported.  The invariant says that *)
(* every name passed leads to the name at hand, so a name met twice leads  *)
(* to itself, and that the refusal is about the name at hand.              *)
THEOREM RefusalHasCause == WalkSpec => []RefusedForCause
  <1>1. WalkInit => CauseInv BY CauseInit
  <1>2. WalkInv /\ CauseInv /\ [WalkNext]_walkVars => CauseInv'
    BY CauseStart, CauseHop, CauseStutter DEF WalkNext
  <1>3. WalkInv /\ CauseInv => RefusedForCause BY CauseHolds
  <1> QED BY <1>1, <1>2, <1>3, WalkInvariant, PTL DEF WalkSpec

-----------------------------------------------------------------------------
(* CircuitBreaker.  Its two invariants are inductive together with the     *)
(* types.                                                                  *)

USE BreakerAssumption

BreakerInv == TypeOK /\ HalfOpenOwned /\ FailuresCapped

-----------------------------------------------------------------------------
(* Leaving lookup() keeps the types of the per-query state.                *)
LEMMA ReturnTypes ==
    ASSUME TypeOK, NEW q \in Queries, Return(q)
    PROVE  /\ pc' \in [Queries -> Steps] /\ probing' \in [Queries -> BOOLEAN]
           /\ count' \in [Queries -> Nat] /\ read' \in [Queries -> 0..ProbeInterval]
<1>1. pc' \in [Queries -> Steps]
    BY DEF TypeOK, Return, Goto, Steps
<1>2. probing' \in [Queries -> BOOLEAN]
    BY Zenon DEF TypeOK, Return
<1>3. count' \in [Queries -> Nat]
    BY DEF TypeOK, Return
<1>4. read' \in [Queries -> 0..ProbeInterval]
    BY DEF TypeOK, Return
<1> QED
    BY <1>1, <1>2, <1>3, <1>4

(* Every action keeps the types.                                           *)
LEMMA TypeStep == TypeOK /\ [Next]_vars => TypeOK'
<1> SUFFICES ASSUME TypeOK, [Next]_vars PROVE TypeOK'
    OBVIOUS
<1> USE DEF TypeOK, States, Steps, Succeeding, Opening, Goto
<1>1. CASE Tick
    BY <1>1 DEF Tick, Later
<1>2. CASE Toggle
    BY <1>2 DEF Toggle
<1>3. ASSUME NEW q \in Queries, Lookup(q) PROVE TypeOK'
  <2>1. CASE Enter(q)
      BY <2>1 DEF Enter
  <2>2. CASE LoadOpened(q)
      BY <2>2 DEF LoadOpened
  <2>3. CASE TryProbe(q)
    <3>1. CASE Return(q) /\ UNCHANGED state
        BY <2>3, <3>1, ReturnTypes DEF TryProbe
    <3>2. CASE ~(Return(q) /\ UNCHANGED state)
      <4>1. probing' \in [Queries -> BOOLEAN]
          BY Zenon, <2>3, <3>2 DEF TryProbe
      <4> QED
          BY <2>3, <3>2, <4>1 DEF TryProbe
    <3> QED
        BY <3>1, <3>2
  <2>4. CASE Answer(q)
      BY <2>4 DEF Answer
  <2>5. CASE LoadFailures(q) \/ ClearFailures(q)
      BY <2>5 DEF LoadFailures, ClearFailures
  <2>6. CASE LoadState(q) \/ Close(q)
      BY <2>6, ReturnTypes DEF LoadState, Close
  <2>7. CASE Bump(q)
      BY <2>7, ReturnTypes DEF Bump
  <2>8. CASE ReadClock(q) \/ StoreOpened(q)
      BY <2>8 DEF ReadClock, StoreOpened
  <2>9. CASE Open(q) \/ Cap(q)
      BY <2>9, ReturnTypes DEF Open, Cap
  <2> QED
      BY <1>3, <2>1, <2>2, <2>3, <2>4, <2>5, <2>6, <2>7, <2>8, <2>9 DEF Lookup
<1>4. CASE UNCHANGED vars
    BY <1>4 DEF vars
<1> QED
    BY <1>1, <1>2, <1>3, <1>4 DEF Next

-----------------------------------------------------------------------------
(* The owner of a half-open circuit gives it up only by closing or         *)
(* re-opening it, or on seeing it closed.                                  *)
LEMMA OwnerStep == TypeOK /\ HalfOpenOwned /\ [Next]_vars => HalfOpenOwned'
<1> SUFFICES ASSUME TypeOK, HalfOpenOwned, [Next]_vars, state' = "HalfOpen"
             PROVE  \E q \in Queries : probing'[q]
                       /\ pc'[q] \in {"inner"} \cup Succeeding \cup Opening
    BY DEF HalfOpenOwned
<1> USE DEF TypeOK, Succeeding, Opening, Goto, Return
<1>1. ASSUME NEW p \in Queries, TryProbe(p), state # "HalfOpen"
      PROVE  \E q \in Queries : probing'[q]
                /\ pc'[q] \in {"inner"} \cup Succeeding \cup Opening
  <2>1. probing'[p] /\ pc'[p] = "inner"
      BY <1>1 DEF TryProbe
  <2> QED
      BY <2>1
<1>2. CASE state = "HalfOpen"
  <2>1. PICK o \in Queries : probing[o] /\ pc[o] \in {"inner"} \cup Succeeding \cup Opening
      BY <1>2 DEF HalfOpenOwned
  <2> SUFFICES probing'[o] /\ pc'[o] \in {"inner"} \cup Succeeding \cup Opening
      OBVIOUS
  <2>2. CASE Tick \/ Toggle \/ UNCHANGED vars
      BY <2>1, <2>2 DEF Tick, Toggle, vars
  <2>3. ASSUME NEW q \in Queries, Lookup(q), q # o
        PROVE  probing'[o] = probing[o] /\ pc'[o] = pc[o]
      BY <2>3 DEF Lookup, Enter, LoadOpened, TryProbe, Answer, LoadFailures, ClearFailures,
                  LoadState, Close, Bump, ReadClock, StoreOpened, Open, Cap
  <2>4. ASSUME Lookup(o)
        PROVE  probing'[o] /\ pc'[o] \in {"inner"} \cup Succeeding \cup Opening
    <3>1. CASE Enter(o) \/ LoadOpened(o) \/ TryProbe(o) \/ Bump(o) \/ Cap(o)
        BY <2>1, <3>1 DEF Enter, LoadOpened, TryProbe, Bump, Cap
    <3>2. CASE Answer(o)
        BY <2>1, <3>2 DEF Answer
    <3>3. CASE LoadFailures(o) \/ ClearFailures(o) \/ LoadState(o) \/ Close(o)
        BY <1>2, <2>1, <3>3 DEF LoadFailures, ClearFailures, LoadState, Close
    <3>4. CASE ReadClock(o) \/ StoreOpened(o) \/ Open(o)
        BY <2>1, <3>4 DEF ReadClock, StoreOpened, Open
    <3> QED
        BY <2>4, <3>1, <3>2, <3>3, <3>4 DEF Lookup
  <2> QED
      BY <2>1, <2>2, <2>3, <2>4 DEF Next
<1>3. CASE state # "HalfOpen"
  <2>1. PICK p \in Queries : TryProbe(p)
      BY <1>3 DEF Next, vars, Tick, Toggle, Lookup, Enter, LoadOpened, Answer, LoadFailures,
                  ClearFailures, LoadState, Close, Bump, ReadClock, StoreOpened, Open, Cap
  <2> QED
      BY <1>1, <1>3, <2>1
<1> QED
    BY <1>2, <1>3

-----------------------------------------------------------------------------
LEMMA ExcessFinite == IsFiniteSet(Excess) /\ Cardinality(Excess) \in Nat
<1>1. IsFiniteSet(Excess)
    BY FS_Subset DEF Excess
<1> QED
    BY <1>1, FS_CardinalityType

LEMMA ExcessFiniteNext == IsFiniteSet(Excess') /\ Cardinality(Excess') \in Nat
<1>1. IsFiniteSet(Excess')
    BY FS_Subset DEF Excess
<1> QED
    BY <1>1, FS_CardinalityType

(* A step that leaves the count alone, or lowers it, and releases no query *)
(* that is above twice the threshold keeps the bound.                      *)
LEMMA CappedFrame ==
    ASSUME TypeOK, TypeOK', FailuresCapped, failures' <= failures, Excess \subseteq Excess'
    PROVE  FailuresCapped'
<1>1. Cardinality(Excess) <= Cardinality(Excess')
    BY ExcessFiniteNext, FS_Subset
<1>2. failures \in Nat /\ failures' \in Nat
    BY DEF TypeOK
<1> QED
    BY <1>1, <1>2, ExcessFinite, ExcessFiniteNext DEF FailuresCapped

(* The count never passes twice the threshold by more than the queries     *)
(* that still have to pull it back.                                        *)
LEMMA CappedStep ==
    TypeOK /\ TypeOK' /\ FailuresCapped /\ [Next]_vars => FailuresCapped'
<1> SUFFICES ASSUME TypeOK, TypeOK', FailuresCapped, [Next]_vars PROVE FailuresCapped'
    OBVIOUS
<1>1. CASE Tick \/ Toggle \/ UNCHANGED vars
  <2>1. failures' = failures /\ Excess' = Excess
      BY <1>1 DEF Tick, Toggle, vars, Excess
  <2> QED
      BY <2>1 DEF FailuresCapped
<1>2. ASSUME NEW q \in Queries, Lookup(q) PROVE FailuresCapped'
  <2> USE DEF TypeOK, Goto, Return
  <2>1. CASE Bump(q)
    <3>1. CASE failures + 1 <= 2 * Threshold
      <4>1. failures' = failures + 1
          BY <2>1 DEF Bump
      <4> QED
          BY <3>1, <4>1, ExcessFiniteNext DEF FailuresCapped
    <3>2. CASE failures + 1 > 2 * Threshold
      <4>1. failures' = failures + 1 /\ pc'[q] = "readClock" /\ count'[q] = failures + 1
          BY <2>1, <3>2 DEF Bump
      <4>2. q \notin Excess
          BY <2>1 DEF Bump, Excess, Opening
      <4>3. Excess \cup {q} \subseteq Excess'
          BY <2>1, <3>2, <4>1 DEF Bump, Excess, Opening
      <4>4. Cardinality(Excess \cup {q}) = Cardinality(Excess) + 1
          BY <4>2, ExcessFinite, FS_AddElement
      <4>5. Cardinality(Excess \cup {q}) <= Cardinality(Excess')
          BY <4>3, ExcessFiniteNext, FS_Subset
      <4> QED
          BY <4>1, <4>4, <4>5, ExcessFinite, ExcessFiniteNext DEF FailuresCapped
    <3> QED
        BY <3>1, <3>2
  <2>2. CASE Cap(q)
    <3>1. failures' = Threshold
        BY <2>2 DEF Cap
    <3> QED
        BY <3>1, ExcessFiniteNext DEF FailuresCapped
  <2>3. CASE Open(q)
    <3>1. Excess \subseteq Excess'
        BY <2>3 DEF Open, Excess, Opening
    <3> QED
        BY <2>3, <3>1, CappedFrame DEF Open
  <2>4. CASE ReadClock(q) \/ StoreOpened(q) \/ ClearFailures(q)
    <3>1. Excess \subseteq Excess'
        BY <2>4 DEF ReadClock, StoreOpened, ClearFailures, Excess, Opening
    <3> QED
        BY <2>4, <3>1, CappedFrame DEF ReadClock, StoreOpened, ClearFailures
  <2>5. CASE Enter(q) \/ LoadOpened(q) \/ TryProbe(q) \/ Answer(q) \/ LoadFailures(q)
             \/ LoadState(q) \/ Close(q)
    <3>1. Excess \subseteq Excess'
        BY <2>5 DEF Enter, LoadOpened, TryProbe, Answer, LoadFailures, LoadState, Close,
                    Excess, Opening
    <3>2. failures' = failures
        BY <2>5 DEF Enter, LoadOpened, TryProbe, Answer, LoadFailures, LoadState, Close
    <3> QED
        BY <3>1, <3>2, CappedFrame
  <2> QED
      BY <1>2, <2>1, <2>2, <2>3, <2>4, <2>5 DEF Lookup
<1> QED
    BY <1>1, <1>2 DEF Next

-----------------------------------------------------------------------------
(* The three invariants hold of every reachable state, however the loads   *)
(* and stores of the queries inside lookup() interleave.                   *)
THEOREM BreakerInvariant == Spec => []BreakerInv
<1>1. Init => BreakerInv
  <2> SUFFICES ASSUME Init PROVE BreakerInv
      OBVIOUS
  <2>1. TypeOK /\ HalfOpenOwned
      BY DEF Init, TypeOK, HalfOpenOwned, States, Steps
  <2>2. FailuresCapped
      BY ExcessFinite DEF Init, FailuresCapped
  <2> QED
      BY <2>1, <2>2 DEF BreakerInv
<1>2. BreakerInv /\ [Next]_vars => BreakerInv'
    BY TypeStep, OwnerStep, CappedStep DEF BreakerInv
<1> QED
    BY <1>1, <1>2, PTL DEF Spec

(* A half-open circuit, which rejects every query, always has a query      *)
(* inside lookup() that will close or re-open it.                          *)
THEOREM HalfOpenHasOwner == Spec => []HalfOpenOwned
<1>1. BreakerInv => HalfOpenOwned
    BY DEF BreakerInv
<1> QED
    BY <1>1, BreakerInvariant, PTL

(* record_failure's counter is bounded by twice the threshold plus the     *)
(* queries that have yet to cap it: it cannot creep up to a wrap-around.   *)
THEOREM FailureCountBounded == Spec => []FailuresCapped
<1>1. BreakerInv => FailuresCapped
    BY DEF BreakerInv
<1> QED
    BY <1>1, BreakerInvariant, PTL
=============================================================================
