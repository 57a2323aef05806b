------------------------ MODULE OperatorRulesProofs ------------------------
(***************************************************************************)
(* What the compiled index of operator rules answers, for any rules, any   *)
(* tree of names and any number of lookups.                                *)
(***************************************************************************)
EXTENDS OperatorRules, WellFoundedInduction, TLAPS

(* The rules each loop of compile() has been through. *)
Seen   == IF pass = "index" THEN 1..(next - 1) ELSE Tokens
Closed == IF pass = "index" THEN {} ELSE IF pass = "close" THEN 1..(next - 1) ELSE Tokens

(* A slot holds an indexed rule of its tier that matches the name. *)
SlotsSound ==
    \A d \in Domains, k \in Tiers :
        slots[d][k] # Empty =>
            /\ Indexed(slots[d][k]) /\ Tier(slots[d][k]) = k
            /\ rules[slots[d][k]].name \in Up[d]

(* Every indexed rule seen has its name in the index, under a token that   *)
(* is not behind its own; every name in the index comes from a rule.       *)
OwnSlots ==
    /\ \A t \in Seen : Indexed(t) =>
           rules[t].name \in keys /\ slots[rules[t].name][Tier(t)] <= t
    /\ \A d \in keys : minLen <= Length[d] /\ \E t \in Tokens : Indexed(t) /\ rules[t].name = d

(* A closed name speaks for all its suffixes. *)
ClosedSlots ==
    \A t \in Closed : Indexed(t) =>
        \A u \in Tokens : Indexed(u) /\ rules[u].name \in Up[rules[t].name] =>
            slots[rules[t].name][Tier(u)] <= u

AdvancedSeen == \A t \in Tokens : t \in advanced <=> t \in Seen /\ rules[t].kind # "exact"

CompileInv == SlotsSound /\ OwnSlots /\ ClosedSlots /\ AdvancedSeen

(* The scan: the winner matches, and nothing the index or the scanned rules *)
(* offer outranks it.                                                       *)
ScanInv ==
    pass \in {"scan", "decided"} =>
        /\ winner # NoHit => Matches(winner, domain)
        /\ \A t \in Tokens : Matches(t, domain) /\ (Indexed(t) \/ t < next) =>
               winner # NoHit /\ Outranks(winner, t)
        /\ pass = "decided" => /\ next = N + 1
                               /\ verdict = Reduce(winner, grant, blockAll, external)

RulesInv == TypeOK /\ CompileInv /\ ScanInv

-----------------------------------------------------------------------------
(* Least elements.                                                         *)

LEMMA HasLeast ==
    ASSUME NEW S \in SUBSET Nat, S # {}
    PROVE  \E m \in S : \A n \in S : m <= n
  <1>1. OpToRel(<, Nat) = {ss \in Nat \X Nat : ss[1] < ss[2]}
    BY DEF OpToRel
  <1> DEFINE R == {ss \in Nat \X Nat : ss[1] < ss[2]}
  <1>2. IsWellFoundedOn(R, Nat)
    BY <1>1, NatLessThanWellFounded
  <1>4. \A m, n \in Nat : n < m => <<n, m>> \in R
    OBVIOUS
  <1> HIDE DEF R
  <1>3. \E m \in S : \A n \in S : ~(<<n, m>> \in R)
    BY <1>2, WFMin
  <1>5. PICK m \in S : \A n \in S : ~(<<n, m>> \in R)
    BY <1>3
  <1>6. \A n \in S : m <= n
    <2> TAKE n \in S
    <2>1. m \in Nat /\ n \in Nat OBVIOUS
    <2>2. ~(n < m) BY <1>4, <1>5, <2>1
    <2> QED BY <2>1, <2>2
  <1> QED BY <1>6

LEMMA AncestorWinnerLeast ==
    ASSUME TypeOK, NEW d \in Domains, NEW k \in Tiers
    PROVE  /\ AncestorWinner(d, k) \in 1..(N + 1)
           /\ \A e \in Ancestors(d) : AncestorWinner(d, k) <= slots[e][k]
           /\ AncestorWinner(d, k) # Empty =>
                  \E e \in Ancestors(d) : AncestorWinner(d, k) = slots[e][k]
  <1>1. Ancestors(d) \subseteq Domains
    BY RulesAssumption DEF Ancestors, TypeOK
  <1>2. Inherits(d, k) \subseteq 1..(N + 1) /\ Inherits(d, k) # {}
    BY <1>1, RulesAssumption DEF Inherits, Empty, TypeOK
  <1>3. \E m \in Inherits(d, k) : \A n \in Inherits(d, k) : m <= n
    BY <1>2, HasLeast, RulesAssumption
  <1>4. /\ AncestorWinner(d, k) \in Inherits(d, k)
        /\ \A n \in Inherits(d, k) : AncestorWinner(d, k) <= n
    BY <1>3 DEF AncestorWinner
  <1> QED BY <1>2, <1>4 DEF Inherits

LEMMA NearestSuffix ==
    ASSUME TypeOK, NEW d \in Domains, Reached(d) # {}
    PROVE  Nearest(d) \in Reached(d) /\ \A f \in Reached(d) : f \in Up[Nearest(d)]
  <1> DEFINE Gaps == {Length[d] - Length[e] : e \in Reached(d)}
  <1>1. Reached(d) \subseteq Domains /\ \A e \in Reached(d) : e \in Up[d]
    BY RulesAssumption DEF Reached
  <1>2. \A e \in Reached(d) : Length[e] \in Nat /\ Length[d] \in Nat /\ Length[e] <= Length[d]
    BY <1>1, RulesAssumption
  <1>3. Gaps \in SUBSET Nat /\ Gaps # {}
    BY <1>2
  <1>4. PICK m \in Gaps : \A n \in Gaps : m <= n
    BY <1>3, HasLeast
  <1>5. PICK e \in Reached(d) : m = Length[d] - Length[e]
    BY <1>4
  <1>6. \A f \in Reached(d) : Length[f] <= Length[e]
    BY <1>2, <1>4, <1>5
  <1>7. \A f \in Reached(d) : f \in Up[e]
    <2> TAKE f \in Reached(d)
    <2>1. e \in Up[f] \/ f \in Up[e] BY <1>1, RulesAssumption
    <2>2. e \in Up[f] /\ e # f => Length[e] < Length[f] BY <1>1, RulesAssumption
    <2>3. e \in Up[e] BY <1>1, RulesAssumption
    <2> QED BY <1>2, <1>6, <2>1, <2>2, <2>3
  <1> QED BY <1>7 DEF Nearest

(* A name in the index has a rule of its own. *)
LEMMA FromIndexBest ==
    ASSUME TypeOK, CompileInv, pass = "ready", NEW d \in Domains
    PROVE  /\ FromIndex(d) \in 0..N
           /\ FromIndex(d) # NoHit => Indexed(FromIndex(d)) /\ rules[FromIndex(d)].name \in Up[d]
           /\ \A t \in Tokens : Indexed(t) /\ rules[t].name \in Up[d] =>
                  FromIndex(d) # NoHit /\ Outranks(FromIndex(d), t)
  <1> USE RulesAssumption
  <1>1. CASE Reached(d) = {}
    <2>1. \A t \in Tokens : ~(Indexed(t) /\ rules[t].name \in Up[d])
      BY <1>1 DEF Reached, CompileInv, OwnSlots, Seen
    <2> QED BY <1>1, <2>1 DEF FromIndex, NoHit
  <1>2. CASE Reached(d) # {}
    <2> DEFINE e == Nearest(d)
    <2>1. e \in Reached(d) /\ \A f \in Reached(d) : f \in Up[e]
      BY <1>2, NearestSuffix
    <2>2. e \in Domains /\ e \in Up[d] /\ e \in keys /\ Up[e] \subseteq Up[d]
      BY <2>1 DEF Reached
    <2>3. FromIndex(d) = IndexedWinner(slots[e])
      BY <1>2 DEF FromIndex
    <2> HIDE DEF e
    <2>4. \A k \in Tiers : slots[e][k] \in 1..(N + 1)
      BY <2>2 DEF TypeOK
    <2>5. /\ IndexedWinner(slots[e]) \in 0..N
          /\ IndexedWinner(slots[e]) # NoHit =>
                 \E k \in Tiers : /\ IndexedWinner(slots[e]) = slots[e][k] /\ slots[e][k] # Empty
                                  /\ \A j \in Tiers : slots[e][j] # Empty => j <= k
          /\ IndexedWinner(slots[e]) = NoHit => \A k \in Tiers : slots[e][k] = Empty
      BY <2>4 DEF IndexedWinner, NoHit, Empty, Tiers
    <2>6. ASSUME NEW t \in Tokens, Indexed(t), rules[t].name \in Up[d]
          PROVE  Tier(t) \in Tiers /\ slots[e][Tier(t)] <= t /\ slots[e][Tier(t)] # Empty
      <3>1. rules[t].name \in Reached(d)
        BY <2>6 DEF Reached, CompileInv, OwnSlots, Seen
      <3>2. rules[t].name \in Up[e]
        BY <2>1, <3>1
      <3>3. PICK u \in Tokens : Indexed(u) /\ rules[u].name = e
        BY <2>2 DEF CompileInv, OwnSlots
      <3>4. slots[e][Tier(t)] <= t
        BY <2>6, <3>2, <3>3 DEF CompileInv, ClosedSlots, Closed
      <3>5. Tier(t) \in Tiers
        BY DEF TypeOK, Tier
      <3> QED BY <2>4, <3>4, <3>5 DEF Empty, Tokens
    <2>7. IndexedWinner(slots[e]) # NoHit =>
            \E k \in Tiers : /\ IndexedWinner(slots[e]) = slots[e][k] /\ slots[e][k] # Empty
                             /\ \A j \in Tiers : slots[e][j] # Empty => j <= k
                             /\ Indexed(slots[e][k]) /\ Tier(slots[e][k]) = k
                             /\ rules[slots[e][k]].name \in Up[e]
      BY <2>2, <2>5 DEF CompileInv, SlotsSound
    <2>8. ASSUME NEW t \in Tokens, Indexed(t), rules[t].name \in Up[d]
          PROVE  IndexedWinner(slots[e]) # NoHit /\ Outranks(IndexedWinner(slots[e]), t)
      <3>1. IndexedWinner(slots[e]) # NoHit
        BY <2>5, <2>6, <2>8
      <3>2. PICK k \in Tiers : /\ IndexedWinner(slots[e]) = slots[e][k] /\ slots[e][k] # Empty
                               /\ \A j \in Tiers : slots[e][j] # Empty => j <= k
                               /\ Tier(slots[e][k]) = k
        BY <2>7, <3>1
      <3>3. Tier(t) \in Tiers /\ slots[e][Tier(t)] <= t /\ Tier(t) <= k
        BY <2>6, <2>8, <3>2
      <3> QED BY <3>1, <3>2, <3>3 DEF Outranks, Tiers
    <2> QED BY <2>2, <2>3, <2>5, <2>7, <2>8
  <1> QED BY <1>1, <1>2

(* The index and the advanced rules between them cover what explain()      *)
(* lists.                                                                  *)
LEMMA MatchesSplit ==
    ASSUME TypeOK, NEW t \in Tokens, NEW d \in Domains
    PROVE  /\ Indexed(t) => (Matches(t, d) <=> rules[t].name \in Up[d])
           /\ ~Indexed(t) => rules[t].kind # "exact" /\ (Matches(t, d) <=> AdvancedMatch(t, d))
           /\ rules[t].kind # "exact" /\ AdvancedMatch(t, d) => Matches(t, d)
  <1>1. rules[t].kind \in Kinds /\ rules[t].noapex \in BOOLEAN
    BY RulesAssumption DEF TypeOK
  <1> QED BY <1>1 DEF Indexed, Matches, AdvancedMatch, Kinds

LEMMA TierType == ASSUME TypeOK, NEW t \in Tokens PROVE Tier(t) \in Tiers /\ rules[t].name \in Domains
  BY RulesAssumption DEF TypeOK, Tier

-----------------------------------------------------------------------------
(* The steps.                                                              *)

LEMMA RulesInit == ASSUME Init PROVE RulesInv
  <1> USE RulesAssumption DEF Init
  <1>1. TypeOK
    <2>1. domain \in Domains /\ external \in Externals
      OBVIOUS
    <2>2. slots \in [Domains -> [Tiers -> 1..(N + 1)]]
      BY DEF Empty
    <2>3. next \in 1..(N + 1) /\ winner \in 0..N /\ minLen \in Nat
      BY DEF NoHit, MaxLength
    <2> QED BY <2>1, <2>2, <2>3 DEF TypeOK, Grants
  <1>2. \A d \in Domains, k \in Tiers : slots[d][k] = Empty
    OBVIOUS
  <1>3. SlotsSound
    BY <1>2 DEF SlotsSound
  <1>4. Seen = {} /\ Closed = {} /\ keys = {} /\ advanced = {}
    BY DEF Seen, Closed
  <1>5. OwnSlots /\ ClosedSlots /\ AdvancedSeen
    BY <1>4 DEF OwnSlots, ClosedSlots, AdvancedSeen
  <1> QED BY <1>1, <1>3, <1>5 DEF RulesInv, CompileInv, ScanInv

LEMMA IndexStep ==
    ASSUME RulesInv, Index
    PROVE  RulesInv'
  <1> USE RulesAssumption
  <1> DEFINE d == rules[next].name
  <1>1. next \in Tokens /\ d \in Domains /\ Tier(next) \in Tiers /\ TypeOK
    BY TierType DEF Index, RulesInv
  <1>2. rules' = rules /\ pass = "index" /\ (\A t : Indexed(t)' <=> Indexed(t)) /\ (\A t : Tier(t)' = Tier(t))
    BY DEF Index, Indexed, Tier
  <1>3. Seen' = Seen \cup {next} /\ Seen = 1..(next - 1) /\ Closed' = {}
        /\ pass' \in {"index", "close"} /\ next' \in 1..(N + 1)
    BY <1>1 DEF Index, Advance, Seen, Closed, Tokens
  <1>4. TypeOK'
    <2>1. slots' \in [Domains -> [Tiers -> 1..(N + 1)]]
      <3> DEFINE s == Least(slots[d][Tier(next)], next)
      <3>0. slots \in [Domains -> [Tiers -> 1..(N + 1)]]
        BY <1>1 DEF TypeOK
      <3>1. s \in 1..(N + 1)
        <4>1. slots[d][Tier(next)] \in 1..(N + 1) BY <1>1, <3>0
        <4>2. next \in 1..(N + 1) BY <1>1 DEF Tokens
        <4> QED BY <4>1, <4>2 DEF Least
      <3>2. slots' = slots \/ slots' = [slots EXCEPT ![d][Tier(next)] = s]
        BY DEF Index
      <3> HIDE DEF s, d
      <3>3. ASSUME NEW k \in Tiers, NEW e \in Domains
            PROVE  [slots EXCEPT ![e][k] = s] \in [Domains -> [Tiers -> 1..(N + 1)]]
        BY <3>0, <3>1
      <3> QED BY <1>1, <3>0, <3>2, <3>3
    <2>2. keys' \in SUBSET Domains /\ minLen' \in Nat /\ advanced' \in SUBSET Tokens
      BY <1>1 DEF Index, TypeOK, Least
    <2> QED BY <1>1, <1>3, <2>1, <2>2 DEF Index, TypeOK, requestVars
  <1>5. /\ \A e \in Domains, k \in Tiers :
             slots'[e][k] = IF Indexed(next) /\ e = d /\ k = Tier(next)
                            THEN Least(slots[e][k], next) ELSE slots[e][k]
    BY <1>1 DEF Index, TypeOK
  <1>6. \A e \in Domains, k \in Tiers : slots[e][k] \in 1..(N + 1) /\ next \in 1..N
    BY <1>1 DEF TypeOK, Tokens
  <1>7. SlotsSound'
    BY <1>1, <1>2, <1>5, <1>6 DEF RulesInv, CompileInv, SlotsSound, Least, Empty
  <1>8. OwnSlots'
    <2>1. ASSUME NEW t \in Seen, Indexed(t)
          PROVE  rules[t].name \in keys' /\ slots'[rules[t].name][Tier(t)] <= t
      <3>1. t \in Tokens BY <1>1, <1>3 DEF Tokens
      <3>2. rules[t].name \in Domains /\ Tier(t) \in Tiers BY <1>1, <3>1, TierType
      <3>3. rules[t].name \in keys /\ slots[rules[t].name][Tier(t)] <= t
        BY <2>1 DEF RulesInv, CompileInv, OwnSlots
      <3>4. keys \subseteq keys' BY DEF Index
      <3> QED BY <1>5, <1>6, <3>1, <3>2, <3>3, <3>4 DEF Least, Tokens
    <2>2. Indexed(next) => d \in keys' /\ slots'[d][Tier(next)] <= next
      BY <1>1, <1>5, <1>6 DEF Index, Least
    <2>3. ASSUME NEW e \in keys'
          PROVE  minLen' <= Length[e] /\ \E t \in Tokens : Indexed(t) /\ rules[t].name = e
      <3>1. e \in Domains /\ Length[e] \in Nat /\ Length[d] \in Nat /\ minLen \in Nat
        BY <1>1, <1>4, <2>3 DEF TypeOK
      <3>2. e \in keys \/ (Indexed(next) /\ e = d)
        BY <2>3 DEF Index
      <3>3. CASE e \in keys
        BY <3>1, <3>3 DEF RulesInv, CompileInv, OwnSlots, Index, Least
      <3>4. CASE Indexed(next) /\ e = d
        BY <1>1, <3>1, <3>4 DEF Index, Least
      <3> QED BY <3>2, <3>3, <3>4
    <2>4. \A t \in Seen' : Indexed(t) =>
             rules[t].name \in keys' /\ slots'[rules[t].name][Tier(t)] <= t
      BY <1>3, <2>1, <2>2
    <2> QED BY <1>2, <2>3, <2>4 DEF OwnSlots
  <1>9. ClosedSlots'
    BY <1>3 DEF ClosedSlots
  <1>10. AdvancedSeen'
    BY <1>1, <1>2, <1>3 DEF RulesInv, CompileInv, AdvancedSeen, Index
  <1>11. ScanInv'
    BY <1>3 DEF ScanInv
  <1> QED BY <1>4, <1>7, <1>8, <1>9, <1>10, <1>11 DEF RulesInv, CompileInv

LEMMA CloseStep ==
    ASSUME RulesInv, Close
    PROVE  RulesInv'
  <1> USE RulesAssumption
  <1> DEFINE d == rules[next].name
  <1>1. next \in Tokens /\ d \in Domains /\ Tier(next) \in Tiers /\ TypeOK
    BY TierType DEF Close, RulesInv
  <1>2. /\ rules' = rules /\ keys' = keys /\ minLen' = minLen /\ advanced' = advanced
        /\ pass = "close" /\ (\A t : Indexed(t)' <=> Indexed(t)) /\ (\A t : Tier(t)' = Tier(t))
    BY DEF Close, Indexed, Tier
  <1>3. Closed' = Closed \cup {next} /\ Closed = 1..(next - 1) /\ Seen' = Tokens /\ Seen = Tokens
        /\ pass' \in {"close", "ready"} /\ next' \in 1..(N + 1)
    BY <1>1 DEF Close, Advance, Seen, Closed, Tokens
  <1>4. \A k \in Tiers : AncestorWinner(d, k) \in 1..(N + 1)
    BY <1>1, AncestorWinnerLeast
  <1>5. \A e \in Domains, k \in Tiers :
             slots'[e][k] = IF Indexed(next) /\ e = d
                            THEN Least(slots[e][k], AncestorWinner(d, k)) ELSE slots[e][k]
    BY <1>1 DEF Close, TypeOK
  <1>6. \A e \in Domains, k \in Tiers : slots[e][k] \in 1..(N + 1)
    BY <1>1 DEF TypeOK
  <1>7. TypeOK'
    <2>1. slots' \in [Domains -> [Tiers -> 1..(N + 1)]]
      <3> DEFINE row == [k \in Tiers |-> Least(slots[d][k], AncestorWinner(d, k))]
      <3>1. row \in [Tiers -> 1..(N + 1)]
        BY <1>1, <1>4, <1>6 DEF Least
      <3>2. slots' = slots \/ slots' = [slots EXCEPT ![d] = row]
        BY DEF Close
      <3>3. slots \in [Domains -> [Tiers -> 1..(N + 1)]]
        BY <1>1 DEF TypeOK
      <3> HIDE DEF row, d
      <3> QED BY <1>1, <3>1, <3>2, <3>3
    <2> QED BY <1>1, <1>3, <2>1 DEF Close, TypeOK, requestVars
  <1>8. \A e \in Domains, k \in Tiers : slots'[e][k] <= slots[e][k] /\ slots'[e][k] \in 1..(N + 1)
    BY <1>4, <1>5, <1>6 DEF Least
  <1>9. SlotsSound'
    <2> SUFFICES ASSUME NEW e \in Domains, NEW k \in Tiers, slots'[e][k] # Empty
                 PROVE  /\ Indexed(slots'[e][k]) /\ Tier(slots'[e][k]) = k
                        /\ rules[slots'[e][k]].name \in Up[e]
      BY <1>2 DEF SlotsSound
    <2>1. CASE slots'[e][k] = slots[e][k]
      BY <2>1 DEF RulesInv, CompileInv, SlotsSound
    <2>2. CASE slots'[e][k] # slots[e][k]
      <3>1. e = d /\ slots'[e][k] = AncestorWinner(d, k)
        BY <1>5, <2>2 DEF Least
      <3>2. PICK f \in Ancestors(d) : slots'[e][k] = slots[f][k]
        BY <1>1, <3>1, AncestorWinnerLeast
      <3>3. f \in Domains /\ f \in Up[d] /\ Up[f] \subseteq Up[d]
        BY <1>1 DEF Ancestors
      <3>4. Indexed(slots[f][k]) /\ Tier(slots[f][k]) = k /\ rules[slots[f][k]].name \in Up[f]
        BY <3>2, <3>3 DEF RulesInv, CompileInv, SlotsSound
      <3> QED BY <3>1, <3>2, <3>3, <3>4
    <2> QED BY <2>1, <2>2
  <1>10. ASSUME NEW t \in Tokens, Indexed(t)
         PROVE  /\ rules[t].name \in keys /\ slots[rules[t].name][Tier(t)] <= t
                /\ slots'[rules[t].name][Tier(t)] <= t
    <2>1. rules[t].name \in Domains /\ Tier(t) \in Tiers BY <1>1, TierType
    <2>2. rules[t].name \in keys /\ slots[rules[t].name][Tier(t)] <= t
      BY <1>3, <1>10 DEF RulesInv, CompileInv, OwnSlots
    <2> QED BY <1>6, <1>8, <2>1, <2>2 DEF Tokens
  <1>11. OwnSlots'
    BY <1>2, <1>3, <1>10 DEF RulesInv, CompileInv, OwnSlots
  <1>12. ClosedSlots'
    <2> SUFFICES ASSUME NEW t \in Closed', Indexed(t), NEW u \in Tokens, Indexed(u),
                        rules[u].name \in Up[rules[t].name]
                 PROVE  slots'[rules[t].name][Tier(u)] <= u
      BY <1>2 DEF ClosedSlots
    <2>1. t \in Tokens BY <1>1, <1>3 DEF Tokens
    <2>2. /\ rules[t].name \in Domains /\ rules[u].name \in Domains /\ Tier(u) \in Tiers /\ u \in Nat
      BY <1>1, <2>1, TierType DEF Tokens
    <2>3. CASE t \in Closed
      <3>1. slots[rules[t].name][Tier(u)] <= u
        BY <2>3 DEF RulesInv, CompileInv, ClosedSlots
      <3> QED BY <1>6, <1>8, <2>2, <3>1
    <2>4. CASE t = next
      <3>1. CASE rules[u].name = d
        BY <1>10, <2>4, <3>1
      <3>2. CASE rules[u].name # d
        <4>1. rules[u].name \in Ancestors(d)
          BY <1>10, <2>4, <3>2 DEF Ancestors
        <4>2. AncestorWinner(d, Tier(u)) <= slots[rules[u].name][Tier(u)]
          BY <1>1, <2>2, <4>1, AncestorWinnerLeast
        <4>3. slots[rules[u].name][Tier(u)] <= u
          BY <1>10
        <4>4. slots'[d][Tier(u)] <= AncestorWinner(d, Tier(u))
          BY <1>1, <1>4, <1>5, <1>6, <2>2, <2>4 DEF Least
        <4> HIDE DEF d
        <4> QED BY <1>1, <1>4, <1>6, <1>8, <2>2, <2>4, <4>2, <4>3, <4>4 DEF d
      <3> QED BY <3>1, <3>2
    <2> QED BY <1>3, <2>3, <2>4
  <1>13. AdvancedSeen'
    BY <1>2, <1>3 DEF RulesInv, CompileInv, AdvancedSeen
  <1>14. ScanInv'
    BY <1>3 DEF ScanInv
  <1> QED BY <1>7, <1>9, <1>11, <1>12, <1>13, <1>14 DEF RulesInv, CompileInv

(* A step of a lookup leaves what compile() built alone. *)
LEMMA CompiledStays ==
    ASSUME RulesInv, pass \in {"ready", "scan", "decided"}, pass' \in {"ready", "scan", "decided"},
           UNCHANGED <<rules, keys, slots, advanced, minLen>>
    PROVE  /\ CompileInv' /\ (\A t : Indexed(t)' <=> Indexed(t)) /\ (\A t : Tier(t)' = Tier(t))
  <1>1. Seen' = Seen /\ Closed' = Closed
    BY DEF Seen, Closed
  <1>2. (\A t : Indexed(t)' <=> Indexed(t)) /\ (\A t : Tier(t)' = Tier(t))
    BY DEF Indexed, Tier
  <1> QED BY <1>1, <1>2 DEF RulesInv, CompileInv, SlotsSound, OwnSlots, ClosedSlots, AdvancedSeen

LEMMA LookupStep ==
    ASSUME RulesInv, NEW d \in Domains, NEW g \in Grants, NEW b \in BOOLEAN, NEW x \in Externals,
           Lookup(d, g, b, x)
    PROVE  RulesInv'
  <1>1. /\ pass = "ready" /\ pass' = "scan" /\ next' = 1 /\ domain' = d /\ winner' = FromIndex(d)
        /\ UNCHANGED <<rules, keys, slots, advanced, minLen>> /\ TypeOK /\ CompileInv
    BY DEF Lookup, RulesInv
  <1>2. CompileInv' /\ (\A t : Tier(t)' = Tier(t)) /\ (\A t : Indexed(t)' <=> Indexed(t))
    BY <1>1, CompiledStays
  <1>3. /\ FromIndex(d) \in 0..N
        /\ FromIndex(d) # NoHit => Indexed(FromIndex(d)) /\ rules[FromIndex(d)].name \in Up[d]
        /\ \A t \in Tokens : Indexed(t) /\ rules[t].name \in Up[d] =>
               FromIndex(d) # NoHit /\ Outranks(FromIndex(d), t)
    BY <1>1, FromIndexBest
  <1>4. TypeOK'
    BY <1>1, <1>3, RulesAssumption DEF TypeOK, Lookup
  <1>5. \A t, e : (Matches(t, e)' <=> Matches(t, e'))
    BY <1>1 DEF Matches
  <1>6. FromIndex(d) # NoHit => FromIndex(d) \in Tokens
    BY <1>3, RulesAssumption DEF NoHit, Tokens
  <1>7. winner' # NoHit => Matches(winner', domain')
    BY <1>1, <1>3, <1>6, MatchesSplit
  <1>8. ASSUME NEW t \in Tokens, Matches(t, domain'), Indexed(t) \/ t < next'
        PROVE  winner' # NoHit /\ Outranks(winner', t)
    <2>1. Indexed(t) BY <1>1, <1>8 DEF Tokens
    <2> QED BY <1>1, <1>3, <1>8, <2>1, MatchesSplit
  <1>9. \A t, u : Outranks(t, u)' <=> Outranks(t', u')
    BY <1>2 DEF Outranks
  <1>10. ScanInv'
    BY <1>1, <1>2, <1>7, <1>8 DEF ScanInv, Matches, Outranks, Tier
  <1> QED BY <1>2, <1>4, <1>10 DEF RulesInv

LEMMA ScanStep ==
    ASSUME RulesInv, Scan
    PROVE  RulesInv'
  <1> USE RulesAssumption
  <1>1. /\ pass = "scan" /\ pass' = "scan" /\ next \in Tokens /\ next' = next + 1 /\ domain' = domain
        /\ UNCHANGED <<rules, keys, slots, advanced, minLen>> /\ TypeOK /\ CompileInv
        /\ domain \in Domains /\ winner \in 0..N /\ next \in 1..N
    BY DEF Scan, RulesInv, TypeOK, Tokens
  <1>2. CompileInv' /\ (\A t : Tier(t)' = Tier(t)) /\ (\A t : Indexed(t)' <=> Indexed(t))
    BY <1>1, CompiledStays
  <1> DEFINE Takes == next \in advanced /\ Best(winner, next) # winner /\ AdvancedMatch(next, domain)
  <1>3. winner' = IF Takes THEN Best(winner, next) ELSE winner
    BY DEF Scan
  <1>4. winner' \in {winner, next} /\ (Takes => winner' = next)
    BY <1>3 DEF Best
  <1>5. TypeOK'
    BY <1>1, <1>4 DEF TypeOK, Scan
  <1>6. Tier(next) \in Tiers /\ (winner # NoHit => winner \in Tokens /\ Tier(winner) \in Tiers)
    BY <1>1, TierType DEF NoHit, Tokens
  <1>7. /\ winner # NoHit => Matches(winner, domain)
        /\ \A t \in Tokens : Matches(t, domain) /\ (Indexed(t) \/ t < next) =>
               winner # NoHit /\ Outranks(winner, t)
    BY <1>1 DEF RulesInv, ScanInv
  <1>8. next \in advanced <=> rules[next].kind # "exact"
    BY <1>1 DEF CompileInv, AdvancedSeen, Seen
  <1>9. winner' # NoHit => Matches(winner', domain)
    <2>1. CASE Takes
      <3>1. next \in advanced /\ AdvancedMatch(next, domain) /\ winner' = next BY <1>4, <2>1
      <3> QED BY <1>1, <1>8, <3>1, MatchesSplit
    <2>2. CASE ~Takes
      <3>1. winner' = winner BY <1>3, <2>2
      <3> QED BY <1>7, <3>1
    <2> QED BY <2>1, <2>2
  <1>10. winner # NoHit => winner' # NoHit /\ Outranks(winner', winner)
    BY <1>1, <1>3, <1>6 DEF Best, Outranks, Tiers, Tokens, NoHit
  <1>11. \A t \in Tokens : winner # NoHit /\ Outranks(winner, t) => Outranks(winner', t)
    <2> SUFFICES ASSUME NEW t \in Tokens, winner # NoHit, Outranks(winner, t)
                 PROVE  Outranks(winner', t)
      OBVIOUS
    <2>1. Tier(t) \in Tiers /\ Tier(winner) \in Tiers /\ winner' \in Nat /\ winner \in Nat /\ t \in Nat
      BY <1>1, <1>4, <1>6, TierType DEF Tokens
    <2>2. Tier(winner') \in Tiers
      BY <1>4, <1>6, <1>10
    <2> QED BY <1>10, <2>1, <2>2 DEF Outranks, Tiers
  <1>12. ~Indexed(next) /\ Matches(next, domain) => winner' # NoHit /\ Outranks(winner', next)
    <2> HAVE ~Indexed(next) /\ Matches(next, domain)
    <2>1. next \in advanced /\ AdvancedMatch(next, domain)
      BY <1>1, <1>8, MatchesSplit
    <2>2. winner' = Best(winner, next)
      BY <1>3, <2>1
    <2> QED BY <1>1, <1>6, <2>2 DEF Best, Outranks, Tiers, Tokens, NoHit
  <1>13. ASSUME NEW t \in Tokens, Matches(t, domain), Indexed(t) \/ t < next'
         PROVE  winner' # NoHit /\ Outranks(winner', t)
    <2>1. CASE Indexed(t) \/ t < next
      BY <1>7, <1>10, <1>11, <1>13, <2>1
    <2>2. CASE ~Indexed(t) /\ t = next
      BY <1>12, <1>13, <2>2
    <2> QED BY <1>1, <1>13, <2>1, <2>2 DEF Tokens
  <1>14. ScanInv'
    BY <1>1, <1>2, <1>9, <1>13 DEF ScanInv, Matches, Outranks, Tier
  <1> QED BY <1>2, <1>5, <1>14 DEF RulesInv

LEMMA OtherSteps ==
    ASSUME RulesInv, Decide \/ Return \/ UNCHANGED vars
    PROVE  RulesInv'
  <1> USE RulesAssumption
  <1>1. CASE Decide
    <2>1. /\ pass = "scan" /\ pass' = "decided" /\ next = N + 1 /\ next' = next
          /\ UNCHANGED <<rules, keys, slots, advanced, minLen, domain, winner, grant, blockAll, external>>
          /\ verdict' = Reduce(winner, grant, blockAll, external) /\ TypeOK /\ ScanInv
      BY <1>1 DEF Decide, RulesInv
    <2>2. CompileInv' /\ (\A t : Tier(t)' = Tier(t)) /\ (\A t : Indexed(t)' <=> Indexed(t))
      BY <2>1, CompiledStays
    <2>3. TypeOK' BY <2>1 DEF TypeOK, Reduce
    <2>4. verdict' = Reduce(winner, grant, blockAll, external)'
      BY <2>1 DEF Reduce, Tier
    <2>5. ScanInv' BY <2>1, <2>2, <2>4 DEF ScanInv, Matches, Outranks, Tier
    <2> QED BY <2>2, <2>3, <2>5 DEF RulesInv
  <1>2. CASE Return
    <2>1. /\ pass = "decided" /\ pass' = "ready" /\ UNCHANGED <<rules, keys, slots, advanced, minLen>>
          /\ TypeOK
      BY <1>2 DEF Return, RulesInv
    <2>2. CompileInv' BY <2>1, CompiledStays
    <2>3. domain' \in Domains /\ external' \in Externals
      BY <1>2 DEF Return
    <2>4. TypeOK'
      <3>1. next' \in 1..(N + 1) /\ winner' \in 0..N
        BY <1>2 DEF Return, NoHit
      <3> QED BY <1>2, <2>1, <2>3, <3>1 DEF Return, TypeOK, Grants
    <2>5. ScanInv' BY <2>1 DEF ScanInv
    <2> QED BY <2>2, <2>4, <2>5 DEF RulesInv
  <1>3. CASE UNCHANGED vars
    BY <1>3 DEF vars, requestVars, RulesInv, TypeOK, CompileInv, SlotsSound, OwnSlots, ClosedSlots,
       AdvancedSeen, ScanInv, Seen, Closed, Indexed, Tier, Matches, Outranks, Reduce
  <1> QED BY <1>1, <1>2, <1>3

-----------------------------------------------------------------------------
(* The inductive invariant behind the results below.                       *)
THEOREM RulesInvariant == Spec => []RulesInv
  <1>1. Init => RulesInv
    BY RulesInit
  <1>2. RulesInv /\ [Next]_vars => RulesInv'
    BY IndexStep, CloseStep, LookupStep, ScanStep, OtherSteps DEF Next
  <1> QED BY <1>1, <1>2, PTL DEF Spec

(* Tokens, slots and verdicts stay within their types: a lookup never      *)
(* returns the empty token of a slot.                                      *)
THEOREM RulesTypes == Spec => []TypeOK
  <1>1. RulesInv => TypeOK BY DEF RulesInv
  <1> QED BY <1>1, RulesInvariant, PTL

(* For any rules and any tree of names, the lookup of a compiled profile   *)
(* returns the rule that going through all the mounted rules would.        *)
THEOREM LookupIsBest == Spec => []LookupFindsBest
  <1>1. ASSUME RulesInv, pass = "decided"
        PROVE  IF winner = NoHit
               THEN \A t \in Tokens : ~Matches(t, domain)
               ELSE /\ Matches(winner, domain)
                    /\ \A t \in Tokens : Matches(t, domain) => Outranks(winner, t)
    <2>1. \A t \in Tokens : t < next
      BY <1>1, RulesAssumption DEF RulesInv, ScanInv, Tokens
    <2> QED BY <1>1, <2>1 DEF RulesInv, ScanInv
  <1>2. RulesInv => LookupFindsBest
    BY <1>1 DEF LookupFindsBest
  <1> QED BY <1>2, RulesInvariant, PTL

(* For any rules, the verdict of a profile depends on the tiers of the     *)
(* matching rules and of the grant alone.                                  *)
THEOREM VerdictIsByTiers == Spec => []VerdictByTiers
  <1>1. ASSUME RulesInv, pass = "decided"
        PROVE  verdict = "Block" <=>
                 IF AllowTiers \cup DenyTiers = {} THEN blockAll \/ external = "Deny"
                 ELSE \E k \in DenyTiers : \A j \in AllowTiers : k > j
    <2>1. /\ verdict = Reduce(winner, grant, blockAll, external) /\ TypeOK
          /\ winner # NoHit => Matches(winner, domain) /\ winner \in Tokens
          /\ \A t \in Tokens : Matches(t, domain) => winner # NoHit /\ Outranks(winner, t)
      <3>1. \A t \in Tokens : t < next
        BY <1>1, RulesAssumption DEF RulesInv, ScanInv, Tokens
      <3>2. winner # NoHit => winner \in Tokens
        BY <1>1, RulesAssumption DEF RulesInv, Tokens, TypeOK, NoHit
      <3> QED BY <1>1, <3>1, <3>2 DEF RulesInv, ScanInv
    <2>2. \A t \in Tokens : Tier(t) \in Tiers
      BY <2>1, TierType
    <2>3. grant \in Grants /\ blockAll \in BOOLEAN
      BY <2>1 DEF TypeOK
    <2>4. CASE winner = NoHit
      <3>1. DenyTiers = {} /\ (AllowTiers = {} <=> grant = "none")
        BY <2>1, <2>4 DEF AllowTiers, DenyTiers
      <3> QED BY <2>1, <2>3, <2>4, <3>1 DEF Reduce
    <2>5. CASE winner # NoHit
      <3> DEFINE k == Tier(winner)
      <3>1. k \in Tiers /\ \A t \in Tokens : Matches(t, domain) => Tier(t) <= k
        <4>1. k \in Tiers BY <2>1, <2>2, <2>5
        <4>2. ASSUME NEW t \in Tokens, Matches(t, domain) PROVE Tier(t) <= k
          BY <2>1, <2>2, <4>1, <4>2 DEF Outranks, Tiers
        <4> QED BY <4>1, <4>2
      <3>2. IF IsAllow(k) THEN k \in AllowTiers ELSE k \in DenyTiers
        BY <2>1, <2>5 DEF AllowTiers, DenyTiers
      <3>3. \A j \in DenyTiers : j \in Tiers /\ j <= k
        BY <2>2, <3>1 DEF DenyTiers
      <3>4. \A j \in AllowTiers : j \in Tiers /\ (j <= k \/ (grant # "none" /\ j = GrantTier(grant)))
        BY <2>2, <3>1 DEF AllowTiers, GrantTier, Tiers
      <3>5. grant # "none" => GrantTier(grant) \in AllowTiers /\ GrantTier(grant) \in {1, 3}
        BY DEF AllowTiers, GrantTier
      <3>7. ~IsAllow(k) => \A j \in AllowTiers : j # k
        BY <2>2 DEF AllowTiers, IsAllow, GrantTier
      <3> HIDE DEF k
      <3>8. CASE grant = "none" \/ k > GrantTier(grant)
        <4>1. verdict = IF IsAllow(k) THEN "Forward" ELSE "Block"
          BY <2>1, <2>5, <3>8 DEF Reduce, k
        <4>2. CASE IsAllow(k)
          BY <3>1, <3>2, <3>3, <4>1, <4>2 DEF Tiers
        <4>3. CASE ~IsAllow(k)
          <5>1. k \in DenyTiers BY <3>2, <4>3
          <5>2. \A j \in AllowTiers : k > j
            BY <3>1, <3>4, <3>5, <3>7, <3>8, <4>3 DEF Tiers
          <5> QED BY <4>1, <4>3, <5>1, <5>2
        <4> QED BY <4>2, <4>3
      <3>9. CASE ~(grant = "none" \/ k > GrantTier(grant))
        <4>1. verdict = "Forward"
          BY <2>1, <2>5, <3>9 DEF Reduce, k
        <4>2. \A j \in DenyTiers : ~(j > GrantTier(grant))
          BY <3>1, <3>3, <3>5, <3>9 DEF Tiers
        <4> QED BY <3>5, <3>9, <4>1, <4>2
      <3> QED BY <3>8, <3>9
    <2> QED BY <2>4, <2>5
  <1>2. RulesInv => VerdictByTiers
    BY <1>1 DEF VerdictByTiers
  <1> QED BY <1>2, RulesInvariant, PTL
=============================================================================
