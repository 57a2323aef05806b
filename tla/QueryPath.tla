------------------------------ MODULE QueryPath ------------------------------
(***************************************************************************)
(* A DNS query from the socket to its answer (src/dns/handler.rs), through *)
(* the response cache and its single flight (src/dns/cache.rs), with the   *)
(* prefetch tasks that refresh the cache behind the queries, and the       *)
(* reload that replaces the upstream generation, the block lists and the   *)
(* profiles underneath all of them (src/upstream/reloadable.rs,            *)
(* install_runtime_reload in src/cli/commands/start.rs).                   *)
(*                                                                         *)
(* A response is kept as what the filter looks at: the generation that     *)
(* produced it and the set of CNAME targets and addresses it carries.  A   *)
(* profile is what a request holds on to from its start: rules that deny   *)
(* or allow a name whatever the lists say, whether the lists apply, and a  *)
(* rewrite.  The lists are read afresh at every evaluation.                *)
(***************************************************************************)
EXTENDS Integers, FiniteSets

CONSTANTS
    Queries,     \* the requests that can be inside handle_request at once
    Tasks,       \* the permits of the prefetch semaphore
    Names,       \* domain names; the cache key is the name after rewriting
    Addrs,       \* addresses a response may carry
    Profiles,    \* profile snapshots a request can resolve to
    Requests,    \* the pairs of a name asked for and the profile asking
    Listable,    \* what the block lists of a run may name
    Answers,     \* what an upstream response may carry besides the name asked for
    Denied,      \* per profile: names an operator rule denies
    Allowed,     \* per profile: names an operator rule allows, hence grants
    Filtered,    \* profiles the block lists apply to (the others: unfiltered)
    Rewrite,     \* per profile: the rewrite rules, a function on Names
    MaxGen       \* bound on the upstream generations of one run

ASSUME QueryPathAssumption ==
    /\ IsFiniteSet(Queries) /\ Requests # {} /\ MaxGen \in Nat \ {0}
    /\ Denied \in [Profiles -> SUBSET Names] /\ Allowed \in [Profiles -> SUBSET Names]
    /\ Filtered \subseteq Profiles /\ Requests \subseteq Names \X Profiles
    /\ Answers \subseteq SUBSET (Names \cup Addrs) /\ Listable \subseteq Names \cup Addrs
    /\ Rewrite \in [Profiles -> [Names -> Names]]

Contents == Names \cup Addrs

(* What the slot of a query that is not in use holds. *)
Nobody == CHOOSE r \in Requests : TRUE

VARIABLES
    gen,       \* ReloadableUpstream.generation, by its id
    current,   \* ReloadableUpstream.current_generation
    phase,     \* where install_runtime_reload stands
    listed,    \* the names and addresses on the installed block lists
    ready,     \* filter_ready
    cache,     \* DnsCache, per key
    fresh,     \* the keys whose entry is within its TTL
    pc, prof, asked, key,
    hand,      \* per query: the entry it holds, fetched, hit or kept as stale_prior
    via,       \* per query: how it came by that entry, or how its fetch failed
    fgen,      \* per query: the generation a single-flight leader loaded
    since,     \* history, per query: listed ever since the request arrived
    tpc, tkey, tgen

queryVars == <<pc, prof, asked, key, hand, via, fgen, since>>
taskVars  == <<tpc, tkey, tgen>>
cacheVars == <<cache, fresh>>
envVars   == <<gen, current, phase, listed, ready>>
vars == <<gen, current, phase, listed, ready, cache, fresh, pc, prof, asked, key, hand,
          via, fgen, since, tpc, tkey, tgen>>

Steps == {"idle", "decide", "rewrite", "probe", "recheck", "miss", "join",
          "fetching", "waiting", "check", "drop", "failed",
          "send"}
TaskSteps == {"idle", "spawned", "refresh", "lookup", "verify", "drop"}
Paths == {"none", "hit", "fetched", "stale", "uncacheable", "error"}
(* Generation ids start at one: no upstream produced the empty slot. *)
NoEntry == [gen |-> 0, holds |-> {}]
Entries == [gen : Nat \ {0}, holds : SUBSET Contents] \cup {NoEntry}
Entry(g, holds) == [gen |-> g, holds |-> holds]

TypeOK ==
    /\ gen \in Nat \ {0} /\ current \in Nat \ {0}
    /\ phase \in {"idle", "stored", "published"}
    /\ listed \in SUBSET Contents /\ ready \in BOOLEAN
    /\ cache \in [Names -> Entries] /\ fresh \in SUBSET Names
    /\ pc \in [Queries -> Steps] /\ prof \in [Queries -> Profiles]
    /\ asked \in [Queries -> Names] /\ key \in [Queries -> Names]
    /\ hand \in [Queries -> Entries] /\ via \in [Queries -> Paths]
    /\ fgen \in [Queries -> Nat] /\ since \in [Queries -> SUBSET Contents]
    /\ tpc \in [Tasks -> TaskSteps] /\ tkey \in [Tasks -> Names] /\ tgen \in [Tasks -> Nat]

Init ==
    /\ gen = 1 /\ current = 1 /\ phase = "idle"
    /\ listed = {} /\ ready \in BOOLEAN
    /\ cache = [n \in Names |-> NoEntry] /\ fresh = {}
    /\ pc = [q \in Queries |-> "idle"]
    /\ asked = [q \in Queries |-> Nobody[1]] /\ key = asked
    /\ prof = [q \in Queries |-> Nobody[2]]
    /\ hand = [q \in Queries |-> NoEntry] /\ via = [q \in Queries |-> "none"]
    /\ fgen = [q \in Queries |-> 0] /\ since = [q \in Queries |-> {}]
    /\ tpc = [t \in Tasks |-> "idle"] /\ tgen = [t \in Tasks |-> 0]
    /\ tkey = [t \in Tasks |-> Nobody[1]]

-----------------------------------------------------------------------------
(* The filter.                                                             *)

(* The reduction of an operator rule hit, an inherited grant and the list  *)
(* matches: a denying rule wins, a grant of the request or an allowing     *)
(* rule lifts the lists, and the address list knows no profiles.           *)
Granted(p, qname) == qname \in Allowed[p]
BlocksTarget(p, qname, lists, n) ==
    \/ n \in Names /\ n \in Denied[p]
    \/ /\ n \in lists /\ (n \in Addrs \/ p \in Filtered)
       /\ ~Granted(p, qname) /\ n \notin Allowed[p]

BlocksAny(q, lists, S) == \E n \in S : BlocksTarget(prof[q], asked[q], lists, n)

Goto(q, step) == pc' = [pc EXCEPT ![q] = step]

(* The response is sent, and the request's state goes with it. *)
Answer(q) ==
    /\ Goto(q, "idle")
    /\ asked' = [asked EXCEPT ![q] = Nobody[1]] /\ key' = [key EXCEPT ![q] = Nobody[1]]
    /\ prof' = [prof EXCEPT ![q] = Nobody[2]]
    /\ hand' = [hand EXCEPT ![q] = NoEntry] /\ via' = [via EXCEPT ![q] = "none"]
    /\ fgen' = [fgen EXCEPT ![q] = 0] /\ since' = [since EXCEPT ![q] = {}]

Store(n, e) == cache' = [cache EXCEPT ![n] = e] /\ fresh' = fresh \cup {n}
Invalidate(n) == cache' = [cache EXCEPT ![n] = NoEntry] /\ fresh' = fresh \ {n}

-----------------------------------------------------------------------------
(* handle_inner(), up to the cache.                                        *)

(* The client access list, the readiness gate, the query validation, the   *)
(* pre-query security checks and response rate limiting turn a request     *)
(* away before it holds anything; the others resolve their profile.  While *)
(* no filter generation is installed the gate turns every request away.    *)
Arrive(q, n, p) ==
    /\ pc[q] = "idle" /\ ready
    /\ Goto(q, "decide")
    /\ asked' = [asked EXCEPT ![q] = n] /\ key' = [key EXCEPT ![q] = n]
    /\ prof' = [prof EXCEPT ![q] = p] /\ since' = [since EXCEPT ![q] = listed]
    /\ UNCHANGED <<envVars, cacheVars, hand, via, fgen, taskVars>>

(* Profile and global local records and the device's network name answer   *)
(* before the filter; a client without a profile is refused.               *)
AnswerLocally(q) ==
    /\ pc[q] = "decide"
    /\ Answer(q)
    /\ UNCHANGED <<envVars, cacheVars, taskVars>>

(* evaluate_active_operator_policy() on the name asked for. *)
Decide(q) ==
    /\ pc[q] = "decide"
    /\ IF BlocksTarget(prof[q], asked[q], listed, asked[q])
       THEN Answer(q)
       ELSE Goto(q, "rewrite") /\ UNCHANGED <<prof, asked, key, hand, via, fgen, since>>
    /\ UNCHANGED <<envVars, cacheVars, taskVars>>

(* A rewrite is a synthetic CNAME hop and is filtered as one.              *)
RewriteName(q) ==
    /\ pc[q] = "rewrite"
    /\ LET n == Rewrite[prof[q]][asked[q]]
       IN  IF n # asked[q] /\ BlocksTarget(prof[q], asked[q], listed, n)
           THEN Invalidate(n) /\ Answer(q)
           ELSE /\ key' = [key EXCEPT ![q] = n] /\ Goto(q, "probe")
                /\ UNCHANGED <<cacheVars, prof, asked, hand, via, fgen, since>>
    /\ UNCHANGED <<envVars, taskVars>>

(* lookup_keyed(): fresh entries are re-checked and served; a stale one is *)
(* taken along as the fallback of the fetch.                               *)
Probe(q) ==
    /\ pc[q] = "probe"
    /\ hand' = [hand EXCEPT ![q] = cache[key[q]]]
    /\ IF key[q] \in fresh
       THEN Goto(q, "recheck") /\ via' = [via EXCEPT ![q] = "hit"]
       ELSE Goto(q, "miss") /\ UNCHANGED via
    /\ UNCHANGED <<envVars, cacheVars, prof, asked, key, fgen, since, taskVars>>

-----------------------------------------------------------------------------
(* Serving an entry: every path re-checks it against the filter first.     *)

(* needs_prefetch() and a free permit: the hit starts a refresh of its key. *)
MaySpawn(q) ==
    \/ UNCHANGED taskVars
    \/ \E t \in Tasks :
         /\ tpc[t] = "idle"
         /\ tpc' = [tpc EXCEPT ![t] = "spawned"]
         /\ tkey' = [tkey EXCEPT ![t] = key[q]]
         /\ UNCHANGED tgen

(* Mutation: an entry served for want of an upstream is not re-checked. *)
RecheckLive(q) ==
    /\ pc[q] = "recheck"
    /\ IF via[q] # "stale" /\ BlocksAny(q, listed, hand[q].holds)
       THEN Invalidate(key[q]) /\ Answer(q) /\ UNCHANGED taskVars
       ELSE /\ Goto(q, "send") /\ via' = [via EXCEPT ![q] = "none"]
            /\ UNCHANGED <<cacheVars, prof, asked, key, hand, fgen, since>>
            /\ IF via[q] = "hit" THEN MaySpawn(q) ELSE UNCHANGED taskVars
    /\ UNCHANGED envVars

Recheck(q) ==
    /\ pc[q] = "recheck"
    /\ IF BlocksAny(q, listed, hand[q].holds)
       THEN Invalidate(key[q]) /\ Answer(q) /\ UNCHANGED taskVars
       ELSE /\ Goto(q, "send") /\ via' = [via EXCEPT ![q] = "none"]
            /\ UNCHANGED <<cacheVars, prof, asked, key, hand, fgen, since>>
            /\ IF via[q] = "hit" THEN MaySpawn(q) ELSE UNCHANGED taskVars
    /\ UNCHANGED envVars

(* send_cached_validated(): the validator is that of the entry's own       *)
(* generation.                                                             *)
Send(q) ==
    /\ pc[q] = "send" /\ Answer(q)
    /\ UNCHANGED <<envVars, cacheVars, taskVars>>

-----------------------------------------------------------------------------
(* fetch_with_keyed_state(): the single flight.                            *)

(* ANY is answered with HINFO and a tunnelling name refused before the     *)
(* fetch; a stale entry is dropped so that the fetch runs at all.          *)
Miss(q) ==
    /\ pc[q] = "miss"
    /\ \/ Answer(q) /\ UNCHANGED cacheVars
       \/ /\ Goto(q, "join")
          /\ IF hand[q] # NoEntry THEN Invalidate(key[q]) ELSE UNCHANGED cacheVars
          /\ UNCHANGED <<prof, asked, key, hand, via, fgen, since>>
    /\ UNCHANGED <<envVars, taskVars>>

Leads(q, n) == pc[q] = "fetching" /\ key[q] = n

(* moka's try_get_with: an entry that has appeared is returned as it is,   *)
(* one caller per key fetches, and the rest wait for its result.  The      *)
(* fetch loads the generation it will be stamped with.                     *)
Join(q) ==
    /\ pc[q] = "join"
    /\ \/ /\ cache[key[q]] # NoEntry
          /\ hand' = [hand EXCEPT ![q] = cache[key[q]]]
          /\ via' = [via EXCEPT ![q] = "fetched"]
          /\ Goto(q, "check") /\ UNCHANGED fgen
       \/ /\ cache[key[q]] = NoEntry /\ \E r \in Queries : Leads(r, key[q])
          /\ Goto(q, "waiting") /\ UNCHANGED <<hand, via, fgen>>
       \/ /\ cache[key[q]] = NoEntry /\ ~\E r \in Queries : Leads(r, key[q])
          /\ Goto(q, "fetching") /\ fgen' = [fgen EXCEPT ![q] = gen]
          /\ UNCHANGED <<hand, via>>
    /\ UNCHANGED <<envVars, cacheVars, prof, asked, key, since, taskVars>>

(* The leader and everyone waiting on its key. *)
Flight(q) == {q} \cup {r \in Queries : pc[r] = "waiting" /\ key[r] = key[q]}

(* The upstream answers, and the flight has its entry. *)
FetchOk(q, holds) ==
    /\ pc[q] = "fetching"
    /\ LET e == Entry(fgen[q], holds)
       IN  /\ Store(key[q], e)
           /\ hand' = [r \in Queries |-> IF r \in Flight(q) THEN e ELSE hand[r]]
    /\ pc' = [r \in Queries |-> IF r \in Flight(q) THEN "check" ELSE pc[r]]
    /\ via' = [r \in Queries |-> IF r \in Flight(q) THEN "fetched" ELSE via[r]]
    /\ fgen' = [fgen EXCEPT ![q] = 0]
    /\ UNCHANGED <<envVars, prof, asked, key, since, taskVars>>

(* SERVFAIL and REFUSED are never cached; they and a transport error reach *)
(* the whole flight.                                                       *)
FetchErr(q, why) ==
    /\ pc[q] = "fetching" /\ why \in {"uncacheable", "error"}
    /\ pc' = [r \in Queries |-> IF r \in Flight(q) THEN "failed" ELSE pc[r]]
    /\ via' = [r \in Queries |-> IF r \in Flight(q) THEN why ELSE via[r]]
    /\ fgen' = [fgen EXCEPT ![q] = 0]
    /\ UNCHANGED <<envVars, cacheVars, prof, asked, key, hand, since, taskVars>>

(* Mutation: the generation of a fetched entry is not looked at again. *)
CheckNothing(q) ==
    /\ pc[q] = "check" /\ Goto(q, "recheck")
    /\ UNCHANGED <<envVars, cacheVars, prof, asked, key, hand, via, fgen, since, taskVars>>

(* Everyone who comes out of the flight looks whether the generation has   *)
(* been replaced meanwhile, and if so drops the key.                       *)
Check(q) ==
    /\ pc[q] = "check"
    /\ Goto(q, IF hand[q].gen = current THEN "recheck" ELSE "drop")
    /\ UNCHANGED <<envVars, cacheVars, prof, asked, key, hand, via, fgen, since, taskVars>>

Drop(q) ==
    /\ pc[q] = "drop" /\ Invalidate(key[q]) /\ Goto(q, "recheck")
    /\ UNCHANGED <<envVars, prof, asked, key, hand, via, fgen, since, taskVars>>

(* An uncacheable rcode is forwarded; an error falls back on the stale     *)
(* entry, re-checked, and is SERVFAIL without one.                         *)
Failed(q) ==
    /\ pc[q] = "failed"
    /\ IF via[q] = "error" /\ hand[q] # NoEntry
       THEN /\ Goto(q, "recheck") /\ via' = [via EXCEPT ![q] = "stale"]
            /\ UNCHANGED <<prof, asked, key, hand, fgen, since>>
       ELSE Answer(q)
    /\ UNCHANGED <<envVars, cacheVars, taskVars>>

-----------------------------------------------------------------------------
(* The prefetch tasks: one spawned by a hit, or by the background worker   *)
(* for a promoted name whose entry is fresh.                               *)

TaskGoto(t, step) == tpc' = [tpc EXCEPT ![t] = step]
TaskEnd(t) == /\ TaskGoto(t, "idle")
              /\ tkey' = [tkey EXCEPT ![t] = Nobody[1]] /\ tgen' = [tgen EXCEPT ![t] = 0]

Tick(t, n) ==
    /\ tpc[t] = "idle" /\ n \in fresh
    /\ TaskGoto(t, "refresh") /\ tkey' = [tkey EXCEPT ![t] = n]
    /\ UNCHANGED <<envVars, cacheVars, queryVars, tgen>>

(* refresh_one() skips a name that is blocked by now; both load the        *)
(* generation they will be stamped with.                                   *)
TaskStart(t) ==
    /\ tpc[t] \in {"spawned", "refresh"}
    /\ IF tpc[t] = "refresh" /\ tkey[t] \in listed
       THEN TaskEnd(t)
       ELSE TaskGoto(t, "lookup") /\ tgen' = [tgen EXCEPT ![t] = gen] /\ UNCHANGED tkey
    /\ UNCHANGED <<envVars, cacheVars, queryVars>>

(* insert_with_upstream_generation(), up to the insert. *)
TaskInsert(t, holds) ==
    /\ tpc[t] = "lookup" /\ holds \cap listed = {}
    /\ Store(tkey[t], Entry(tgen[t], holds))
    /\ TaskGoto(t, "verify") /\ tgen' = [tgen EXCEPT ![t] = 0]
    /\ UNCHANGED <<envVars, queryVars, tkey>>

(* A failed or empty response, or one that holds something listed. *)
TaskSkip(t) ==
    /\ tpc[t] = "lookup" /\ TaskEnd(t)
    /\ UNCHANGED <<envVars, cacheVars, queryVars>>

(* It reads back whatever the key holds now. *)
TaskVerify(t) ==
    /\ tpc[t] = "verify"
    /\ IF cache[tkey[t]] # NoEntry /\ cache[tkey[t]].gen # current
       THEN TaskGoto(t, "drop") /\ UNCHANGED <<tkey, tgen>>
       ELSE TaskEnd(t)
    /\ UNCHANGED <<envVars, cacheVars, queryVars>>

TaskDrop(t) ==
    /\ tpc[t] = "drop" /\ Invalidate(tkey[t]) /\ TaskEnd(t)
    /\ UNCHANGED <<envVars, queryVars>>

-----------------------------------------------------------------------------
(* The reload, and time.                                                   *)

(* install(): the pointer, then the id the stamps are compared with, and   *)
(* only then cache.clear().                                                *)
InstallStore ==
    /\ phase = "idle" /\ gen < MaxGen /\ gen' = gen + 1 /\ phase' = "stored"
    /\ UNCHANGED <<current, listed, ready, cacheVars, queryVars, taskVars>>

InstallPublish ==
    /\ phase = "stored" /\ current' = gen /\ phase' = "published"
    /\ UNCHANGED <<gen, listed, ready, cacheVars, queryVars, taskVars>>

InstallClear ==
    /\ phase = "published" /\ phase' = "idle"
    /\ cache' = [n \in Names |-> NoEntry] /\ fresh' = {}
    /\ UNCHANGED <<gen, current, listed, ready, queryVars, taskVars>>

(* A list refresh or a reload installs other lists; the first one opens    *)
(* the readiness gate, which never closes again. Shards are stored one at  *)
(* a time: each store is a step of this action, any set following any set. *)
InstallLists(lists) ==
    /\ listed' = lists
    /\ since' = [q \in Queries |-> since[q] \cap listed']
    /\ ready' = TRUE
    /\ UNCHANGED <<gen, current, phase, cacheVars, pc, prof, asked, key, hand, via, fgen,
                   taskVars>>

(* An entry outlives its TTL by the stale buffer, and may be evicted.      *)
Age(n) ==
    /\ cache[n] # NoEntry
    /\ \/ fresh' = fresh \ {n} /\ UNCHANGED cache
       \/ Invalidate(n)
    /\ UNCHANGED <<envVars, queryVars, taskVars>>

QueryStep(q) ==
    \/ AnswerLocally(q) \/ Decide(q) \/ RewriteName(q) \/ Probe(q) \/ Recheck(q) \/ Send(q)
    \/ Miss(q) \/ Join(q) \/ Check(q) \/ Drop(q) \/ Failed(q)
    \/ \E holds \in Answers : FetchOk(q, holds)
    \/ \E why \in {"uncacheable", "error"} : FetchErr(q, why)

TaskStep(t) ==
    \/ TaskStart(t) \/ TaskSkip(t) \/ TaskVerify(t) \/ TaskDrop(t)
    \/ \E holds \in Answers : TaskInsert(t, holds)

Install == InstallStore \/ InstallPublish \/ InstallClear

Next ==
    \/ \E q \in Queries : QueryStep(q) \/ \E r \in Requests : Arrive(q, r[1], r[2])
    \/ \E t \in Tasks : TaskStep(t) \/ \E n \in Names : Tick(t, n)
    \/ Install
    \/ \E lists \in SUBSET Listable : InstallLists(lists)
    \/ \E n \in Names : Age(n)

Spec == Init /\ [][Next]_vars

-----------------------------------------------------------------------------
(* Properties.                                                             *)

(* Someone is about to drop key n whatever else happens. *)
Doomed(n) ==
    \/ \E q \in Queries :
         /\ key[q] = n
         /\ pc[q] = "drop" \/ (pc[q] = "check" /\ hand[q].gen = cache[n].gen)
    \/ \E t \in Tasks : tkey[t] = n /\ tpc[t] \in {"verify", "drop"}

(* Once a reload has cleared the cache, an entry of a replaced upstream    *)
(* generation is in it only while the query or the prefetch task that put  *)
(* it there is still on its way to remove it: no answer of the old         *)
(* upstream is left behind for its TTL (fetch_with_keyed_state,            *)
(* insert_with_upstream_generation, install and clear, in this order).     *)
OldAnswersDoomed ==
    phase # "published" =>
        \A n \in Names : cache[n] # NoEntry /\ cache[n].gen # current => Doomed(n)

(* No path serves a client a name or address that its profile blocked for  *)
(* as long as the request took: not a shared cache entry another profile   *)
(* fetched, not a prefetched or a stale one, not the target of a rewrite   *)
(* (the re-checks of handle_inner).                                        *)
ServedIsUnblocked ==
    \A q \in Queries :
        pc[q] = "send" => ~BlocksAny(q, since[q], {asked[q], key[q]} \cup hand[q].holds)
=============================================================================
