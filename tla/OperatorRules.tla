---------------------------- MODULE OperatorRules ----------------------------
(***************************************************************************)
(* The operator rules of one profile: compile() builds an index of exact   *)
(* rules, closed over their ancestors, and a list of advanced rules        *)
(* (src/filter/operator_rules/compiler.rs); a lookup takes the nearest     *)
(* indexed suffix of the name and lets the advanced rules compete with it, *)
(* and the winner is reduced with an inherited grant and the block lists   *)
(* to a verdict (src/filter/operator_rules/decision.rs).                   *)
(*                                                                         *)
(* A rule is known by its token, its rank in the store.  Names are points  *)
(* of the tree of domains: Up[d] is d and every suffix of it.              *)
(***************************************************************************)
EXTENDS Integers

CONSTANTS
    Domains,     \* names, as rules and requests mention them
    Up,          \* per name: itself and its suffixes
    Length,      \* per name: its length in bytes
    N,           \* number of rules mounted by the profile
    Rules,       \* the rules a list may hold
    Externals    \* the block list matches a request may bring

Tokens == 1..N
Empty  == N + 1          \* EMPTY_TOKEN, larger than any token
NoHit  == 0              \* Option::None for a hit
Tiers  == 0..3           \* OrdinaryDeny, OrdinaryAllow, ImportantDeny, ImportantAllow
Grants == {"none", "ordinary", "important"}
Kinds  == {"exact", "wildcard", "regex"}

ASSUME RulesAssumption ==
    /\ N \in Nat \ {0} /\ Domains # {} /\ Externals # {}
    /\ Up \in [Domains -> SUBSET Domains] /\ Length \in [Domains -> Nat]
    /\ \A d \in Domains : d \in Up[d]
    /\ \A d, e \in Domains : e \in Up[d] => Up[e] \subseteq Up[d]
    /\ \A d, e \in Domains : e \in Up[d] /\ e # d => Length[e] < Length[d]
    /\ \A d, e, f \in Domains : e \in Up[d] /\ f \in Up[d] => e \in Up[f] \/ f \in Up[e]
    /\ Rules \subseteq [kind : Kinds, name : Domains, noapex : BOOLEAN,
                        hits : SUBSET Domains, tier : Tiers]
    /\ Externals \subseteq {"None", "Disabled", "Allow", "Deny", "AllowAndDeny"}

VARIABLES
    rules,     \* the mounted rules, by token
    pass,      \* "index", "close", "ready", "scan", "decided"
    next,      \* the token the loop is at
    keys,      \* the names that have an entry in the index
    slots,     \* the index: per name and tier, a token or Empty
    advanced,  \* the tokens of the advanced rules
    minLen,    \* min_indexed_len
    domain,    \* the name looked up
    winner,    \* the best hit so far
    grant,     \* the grant inherited from the request
    blockAll, external,
    verdict

vars == <<rules, pass, next, keys, slots, advanced, minLen, domain, winner, grant,
          blockAll, external, verdict>>
requestVars == <<domain, winner, grant, blockAll, external, verdict>>

TypeOK ==
    /\ rules \in [Tokens -> Rules]
    /\ pass \in {"index", "close", "ready", "scan", "decided"}
    /\ next \in 1..(N + 1)
    /\ keys \in SUBSET Domains /\ slots \in [Domains -> [Tiers -> 1..(N + 1)]]
    /\ advanced \in SUBSET Tokens /\ minLen \in Nat
    /\ domain \in Domains /\ winner \in 0..N
    /\ grant \in Grants /\ blockAll \in BOOLEAN /\ external \in Externals
    /\ verdict \in {"none", "Forward", "Block"}

Tier(t) == rules[t].tier
IsAllow(k) == k \in {1, 3}
Least(a, b) == IF a <= b THEN a ELSE b

(* The longest name there is, the value min_indexed_len starts from. *)
MaxLength == 255

Init ==
    /\ rules \in [Tokens -> Rules]
    /\ pass = "index" /\ next = 1 /\ keys = {}
    /\ slots = [d \in Domains |-> [k \in Tiers |-> Empty]]
    /\ advanced = {} /\ minLen = MaxLength
    /\ domain = (CHOOSE d \in Domains : TRUE) /\ winner = NoHit
    /\ grant = "none" /\ blockAll = FALSE
    /\ external = (CHOOSE x \in Externals : TRUE) /\ verdict = "none"

-----------------------------------------------------------------------------
(* compile()                                                               *)

(* indexed_domain(): exact rules, and wildcards that include their apex.   *)
Indexed(t) == rules[t].kind = "exact" \/ (rules[t].kind = "wildcard" /\ ~rules[t].noapex)

Advance(to) == IF next < N THEN next' = next + 1 /\ pass' = pass
                           ELSE next' = 1 /\ pass' = to

(* The first loop: every rule into its own slot, wildcards and regular     *)
(* expressions among the advanced rules as well.                           *)
Index ==
    /\ pass = "index" /\ next \in Tokens
    /\ LET d == rules[next].name
       IN  IF Indexed(next)
           THEN /\ keys' = keys \cup {d}
                /\ slots' = [slots EXCEPT ![d][Tier(next)] = Least(@, next)]
                /\ minLen' = Least(minLen, Length[d])
           ELSE UNCHANGED <<keys, slots, minLen>>
    /\ advanced' = IF rules[next].kind = "exact" THEN advanced ELSE advanced \cup {next}
    /\ Advance("close")
    /\ UNCHANGED <<rules, requestVars>>

(* The least token of a tier among the indexed proper suffixes of d. *)
Ancestors(d) == (Up[d] \ {d}) \cap keys
Inherits(d, k) ==
    {slots[e][k] : e \in Ancestors(d)} \cup {Empty}
AncestorWinner(d, k) == CHOOSE t \in Inherits(d, k) : \A u \in Inherits(d, k) : t <= u

(* Mutation: the closure keeps the nearest ancestor's rules only when the  *)
(* name has none of its own.                                               *)
CloseUnlessOwn ==
    /\ pass = "close" /\ next \in Tokens
    /\ IF Indexed(next)
       THEN slots' = [slots EXCEPT ![rules[next].name] =
                         IF \E k \in Tiers : @[k] # Empty THEN @
                         ELSE [k \in Tiers |-> AncestorWinner(rules[next].name, k)]]
       ELSE UNCHANGED slots
    /\ Advance("ready")
    /\ UNCHANGED <<rules, keys, advanced, minLen, requestVars>>

(* The second loop: an indexed name takes over what its ancestors hold, so *)
(* that a lookup may stop at the first name it finds.                      *)
Close ==
    /\ pass = "close" /\ next \in Tokens
    /\ IF Indexed(next)
       THEN LET d == rules[next].name
            IN  slots' = [slots EXCEPT ![d] =
                             [k \in Tiers |-> Least(@[k], AncestorWinner(d, k))]]
       ELSE UNCHANGED slots
    /\ Advance("ready")
    /\ UNCHANGED <<rules, keys, advanced, minLen, requestVars>>

-----------------------------------------------------------------------------
(* lookup_hit(), best() and reduce()                                       *)

Best(a, b) ==
    IF a = NoHit THEN b ELSE IF b = NoHit THEN a
    ELSE IF Tier(b) > Tier(a) \/ (Tier(b) = Tier(a) /\ b < a) THEN b ELSE a

IndexedWinner(s) ==
    IF s[3] # Empty THEN s[3] ELSE IF s[2] # Empty THEN s[2]
    ELSE IF s[1] # Empty THEN s[1] ELSE IF s[0] # Empty THEN s[0] ELSE NoHit

(* The name itself, or its nearest suffix that has an entry; the walk      *)
(* breaks off at suffixes shorter than any indexed name.                   *)
Reached(d) == {e \in Up[d] \cap keys : e = d \/ Length[e] >= minLen}
Nearest(d) == CHOOSE e \in Reached(d) : \A f \in Reached(d) : f \in Up[e]
FromIndex(d) == IF Reached(d) = {} THEN NoHit ELSE IndexedWinner(slots[Nearest(d)])

(* AdvancedPattern: a proper suffix, or the automaton's verdict. *)
AdvancedMatch(t, d) ==
    IF rules[t].kind = "wildcard" THEN rules[t].name \in Up[d] \ {d} ELSE d \in rules[t].hits

Lookup(d, g, b, x) ==
    /\ pass = "ready"
    /\ pass' = "scan" /\ next' = 1
    /\ domain' = d /\ winner' = FromIndex(d)
    /\ grant' = g /\ blockAll' = b /\ external' = x
    /\ UNCHANGED <<rules, keys, slots, advanced, minLen, verdict>>

(* One advanced rule: skipped unless it would win, then matched. *)
Scan ==
    /\ pass = "scan" /\ next \in Tokens
    /\ next' = next + 1
    /\ winner' = IF next \in advanced /\ Best(winner, next) # winner /\ AdvancedMatch(next, domain)
                 THEN Best(winner, next) ELSE winner
    /\ UNCHANGED <<rules, pass, keys, slots, advanced, minLen, domain, grant, blockAll,
                   external, verdict>>

GrantTier(g) == IF g = "important" THEN 3 ELSE 1

(* Mutation: a grant lifts every rule. *)
ReduceGrantFirst(hit, g, b, x) ==
    IF g # "none" THEN "Forward"
    ELSE IF hit # NoHit THEN IF IsAllow(Tier(hit)) THEN "Forward" ELSE "Block"
    ELSE IF b \/ x = "Deny" THEN "Block" ELSE "Forward"

(* reduce() with best_with_grant(): a rule beats the inherited grant only  *)
(* from a higher tier; the lists count when there is neither.              *)
Reduce(hit, g, b, x) ==
    IF hit # NoHit /\ (g = "none" \/ Tier(hit) > GrantTier(g))
    THEN IF IsAllow(Tier(hit)) THEN "Forward" ELSE "Block"
    ELSE IF g # "none" THEN "Forward"
    ELSE IF b \/ x = "Deny" THEN "Block" ELSE "Forward"

Decide ==
    /\ pass = "scan" /\ next = N + 1
    /\ pass' = "decided" /\ verdict' = Reduce(winner, grant, blockAll, external)
    /\ UNCHANGED <<rules, next, keys, slots, advanced, minLen, domain, winner, grant,
                   blockAll, external>>

(* The answer is used, and the profile is ready for the next name. *)
Return ==
    /\ pass = "decided" /\ pass' = "ready" /\ next' = 1
    /\ domain' = (CHOOSE d \in Domains : TRUE) /\ winner' = NoHit
    /\ grant' = "none" /\ blockAll' = FALSE
    /\ external' = (CHOOSE x \in Externals : TRUE) /\ verdict' = "none"
    /\ UNCHANGED <<rules, keys, slots, advanced, minLen>>

Next ==
    \/ Index \/ Close \/ Scan \/ Decide \/ Return
    \/ \E d \in Domains, g \in Grants, b \in BOOLEAN, x \in Externals : Lookup(d, g, b, x)

Spec == Init /\ [][Next]_vars

-----------------------------------------------------------------------------
(* Properties.                                                             *)

(* What a rule says it matches: explain(). *)
Matches(t, d) ==
    CASE rules[t].kind = "exact"    -> rules[t].name \in Up[d]
      [] rules[t].kind = "wildcard" -> /\ rules[t].name \in Up[d]
                                       /\ rules[t].name = d => ~rules[t].noapex
      [] OTHER                      -> d \in rules[t].hits

Outranks(t, u) == Tier(t) > Tier(u) \/ (Tier(t) = Tier(u) /\ t <= u)

(* The closed index, its early break and the skipping scan find what going *)
(* through all the rules would: a rule that matches, of the highest tier   *)
(* among those that do, the first of its tier; none when none matches.     *)
LookupFindsBest ==
    pass = "decided" =>
        IF winner = NoHit
        THEN \A t \in Tokens : ~Matches(t, domain)
        ELSE /\ Matches(winner, domain)
             /\ \A t \in Tokens : Matches(t, domain) => Outranks(winner, t)

(* The verdict is what the tiers alone say of all the matching rules and   *)
(* the inherited grant, in whichever order they were listed or mounted: an *)
(* important allow beats an important deny beats an allow beats a deny,    *)
(* and only where nothing matches do block_all and the block lists count.  *)
AllowTiers == {Tier(t) : t \in {u \in Tokens : Matches(u, domain) /\ IsAllow(Tier(u))}}
              \cup (IF grant = "none" THEN {} ELSE {GrantTier(grant)})
DenyTiers  == {Tier(t) : t \in {u \in Tokens : Matches(u, domain) /\ ~IsAllow(Tier(u))}}
VerdictByTiers ==
    pass = "decided" =>
        (verdict = "Block" <=>
            IF AllowTiers \cup DenyTiers = {} THEN blockAll \/ external = "Deny"
            ELSE \E k \in DenyTiers : \A j \in AllowTiers : k > j)
=============================================================================
