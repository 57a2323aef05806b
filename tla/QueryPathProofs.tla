-------------------------- MODULE QueryPathProofs --------------------------
(***************************************************************************)
(* The invariants of the query path, for any number of queries, prefetch   *)
(* tasks, names, profiles and reloads.                                     *)
(***************************************************************************)
EXTENDS QueryPath, TLAPS

(* A fetch under way carries a generation. *)
Stamped ==
    /\ \A q \in Queries : pc[q] = "fetching" => fgen[q] # 0
    /\ \A t \in Tasks : tpc[t] = "lookup" => tgen[t] # 0

(* What a request has established about the names it goes by. *)
Cleared ==
    \A q \in Queries :
        /\ since[q] \subseteq listed
        /\ pc[q] \notin {"idle", "decide"} =>
               ~BlocksTarget(prof[q], asked[q], since[q], asked[q])
        /\ pc[q] \notin {"idle", "decide", "rewrite"} =>
               ~BlocksTarget(prof[q], asked[q], since[q], key[q])
        /\ pc[q] = "send" => ~BlocksAny(q, since[q], hand[q].holds)

Types == TypeOK /\ Stamped

-----------------------------------------------------------------------------
(* The slot of a query that is not in use still holds a name and a profile. *)
LEMMA NobodyType == Nobody[1] \in Names /\ Nobody[2] \in Profiles
  BY QueryPathAssumption DEF Nobody

LEMMA NoEntryType == NoEntry \in Entries /\ NoEntry.holds = {} /\ NoEntry.gen = 0
  BY DEF Entries, NoEntry

LEMMA EntryType ==
    ASSUME NEW g \in Nat \ {0}, NEW h \in SUBSET Contents
    PROVE  /\ Entry(g, h) \in Entries /\ Entry(g, h).gen = g /\ Entry(g, h).holds = h
           /\ Entry(g, h) # NoEntry
  BY DEF Entries, Entry, NoEntry

(* What the filter blocks under some lists it blocks under longer ones. *)
LEMMA BlocksMonotone ==
    ASSUME NEW p, NEW n, NEW m, NEW S, NEW T, S \subseteq T, BlocksTarget(p, n, S, m)
    PROVE  BlocksTarget(p, n, T, m)
  BY DEF BlocksTarget

-----------------------------------------------------------------------------
(* Types.                                                                  *)

LEMMA AnswerTypes ==
    ASSUME TypeOK, NEW q \in Queries, Answer(q)
    PROVE  /\ pc' \in [Queries -> Steps] /\ prof' \in [Queries -> Profiles]
           /\ asked' \in [Queries -> Names] /\ key' \in [Queries -> Names]
           /\ hand' \in [Queries -> Entries] /\ via' \in [Queries -> Paths]
           /\ fgen' \in [Queries -> Nat] /\ since' \in [Queries -> SUBSET Contents]
           /\ \A r \in Queries : pc'[r] = "fetching" => pc[r] = "fetching" /\ fgen'[r] = fgen[r]
  BY NobodyType, NoEntryType DEF TypeOK, Answer, Goto, Steps, Paths

LEMMA InvalidateTypes ==
    ASSUME TypeOK, NEW n \in Names, Invalidate(n)
    PROVE  cache' \in [Names -> Entries] /\ fresh' \in SUBSET Names
  BY NoEntryType DEF TypeOK, Invalidate

LEMMA TypesInit == Init => Types
  BY NobodyType, NoEntryType, QueryPathAssumption
  DEF Init, Types, TypeOK, Stamped, Steps, TaskSteps, Paths, Contents

LEMMA SpawnTypes ==
    ASSUME Types, NEW q \in Queries, UNCHANGED taskVars \/ MaySpawn(q)
    PROVE  /\ tpc' \in [Tasks -> TaskSteps] /\ tkey' \in [Tasks -> Names]
           /\ tgen' \in [Tasks -> Nat]
           /\ \A t \in Tasks : tpc'[t] = "lookup" => tgen'[t] # 0
  <1> USE DEF Types, TypeOK, Stamped
  <1>1. CASE UNCHANGED taskVars
    BY <1>1 DEF taskVars
  <1>2. CASE \E u \in Tasks :
               /\ tpc' = [tpc EXCEPT ![u] = "spawned"]
               /\ tkey' = [tkey EXCEPT ![u] = key[q]]
               /\ UNCHANGED tgen
    BY <1>2 DEF TaskSteps
  <1> QED BY <1>1, <1>2 DEF MaySpawn

LEMMA TypesQuery ==
    ASSUME Types, NEW q \in Queries, QueryStep(q)
    PROVE  Types'
  <1> USE DEF Types, TypeOK, Stamped, envVars, cacheVars, taskVars, queryVars, Goto, Steps, Paths
  <1>1. CASE AnswerLocally(q) \/ Send(q)
    BY <1>1, AnswerTypes DEF AnswerLocally, Send
  <1>2. CASE Decide(q)
    BY <1>2, AnswerTypes DEF Decide
  <1>3. CASE RewriteName(q)
    <2> DEFINE n == Rewrite[prof[q]][asked[q]]
    <2>1. n \in Names BY QueryPathAssumption
    <2>2. CASE Invalidate(n) /\ Answer(q)
      BY <1>3, <2>1, <2>2, AnswerTypes, InvalidateTypes DEF RewriteName
    <2>3. CASE ~(Invalidate(n) /\ Answer(q))
      BY <1>3, <2>1, <2>3 DEF RewriteName
    <2> QED BY <2>2, <2>3
  <1>4. CASE Probe(q)
    BY <1>4 DEF Probe
  <1>5. CASE Recheck(q)
    <2>1. CASE BlocksAny(q, listed, hand[q].holds)
      BY <1>5, <2>1, AnswerTypes, InvalidateTypes DEF Recheck
    <2>2. CASE ~BlocksAny(q, listed, hand[q].holds)
      <3>1. UNCHANGED taskVars \/ MaySpawn(q)
        BY <1>5, <2>2 DEF Recheck
      <3>2. /\ tpc' \in [Tasks -> TaskSteps] /\ tkey' \in [Tasks -> Names]
            /\ tgen' \in [Tasks -> Nat]
            /\ \A t \in Tasks : tpc'[t] = "lookup" => tgen'[t] # 0
        BY <3>1, SpawnTypes
      <3> QED BY <1>5, <2>2, <3>2 DEF Recheck
    <2> QED BY <2>1, <2>2
  <1>6. CASE Miss(q)
    <2>1. CASE Answer(q) /\ UNCHANGED cacheVars
      BY <1>6, <2>1, AnswerTypes DEF Miss
    <2>2. CASE ~(Answer(q) /\ UNCHANGED cacheVars)
      BY <1>6, <2>2, InvalidateTypes DEF Miss
    <2> QED BY <2>1, <2>2
  <1>7. CASE Join(q)
    BY <1>7 DEF Join
  <1>8. CASE Check(q) \/ Drop(q)
    BY <1>8, InvalidateTypes DEF Check, Drop
  <1>9. CASE Failed(q)
    BY <1>9, AnswerTypes DEF Failed
  <1>10. CASE \E holds \in Answers : FetchOk(q, holds)
    <2>1. PICK holds \in Answers : FetchOk(q, holds) BY <1>10
    <2>2. Entry(fgen[q], holds) \in Entries
      BY <2>1, EntryType, QueryPathAssumption DEF FetchOk, Contents
    <2>3. cache' \in [Names -> Entries] /\ fresh' \in SUBSET Names
      BY <2>1, <2>2 DEF FetchOk, Store
    <2> QED BY <2>1, <2>2, <2>3 DEF FetchOk, Flight
  <1>11. CASE \E why \in {"uncacheable", "error"} : FetchErr(q, why)
    BY <1>11 DEF FetchErr, Flight
  <1> QED BY <1>1, <1>2, <1>3, <1>4, <1>5, <1>6, <1>7, <1>8, <1>9, <1>10, <1>11 DEF QueryStep

LEMMA TypesRest ==
    ASSUME Types,
           \/ \E q \in Queries, r \in Requests : Arrive(q, r[1], r[2])
           \/ \E t \in Tasks : TaskStep(t) \/ \E n \in Names : Tick(t, n)
           \/ Install
           \/ \E lists \in SUBSET Listable : InstallLists(lists)
           \/ \E n \in Names : Age(n)
           \/ UNCHANGED vars
    PROVE  Types'
  <1> USE DEF Types, TypeOK, Stamped, envVars, cacheVars, taskVars, queryVars, Goto, Steps,
              TaskSteps, TaskGoto
  <1>1. CASE \E q \in Queries, r \in Requests : Arrive(q, r[1], r[2])
    BY <1>1, QueryPathAssumption DEF Arrive
  <1>2. ASSUME NEW t \in Tasks, TaskStep(t)
        PROVE  Types'
    <2>1. CASE TaskStart(t) \/ TaskSkip(t) \/ TaskVerify(t)
      BY <2>1, NobodyType DEF TaskStart, TaskSkip, TaskVerify, TaskEnd
    <2>2. CASE TaskDrop(t)
      BY <2>2, NobodyType, InvalidateTypes DEF TaskDrop, TaskEnd
    <2>3. CASE \E holds \in Answers : TaskInsert(t, holds)
      <3>1. PICK holds \in Answers : TaskInsert(t, holds) BY <2>3
      <3>2. Entry(tgen[t], holds) \in Entries
        BY <3>1, EntryType, QueryPathAssumption DEF TaskInsert, Contents
      <3>3. cache' \in [Names -> Entries] /\ fresh' \in SUBSET Names
        BY <3>1, <3>2 DEF TaskInsert, Store
      <3> QED BY <3>1, <3>3 DEF TaskInsert
    <2> QED BY <1>2, <2>1, <2>2, <2>3 DEF TaskStep
  <1>3. CASE \E t \in Tasks, n \in Names : Tick(t, n)
    BY <1>3 DEF Tick
  <1>4. CASE Install
    BY <1>4, NoEntryType DEF Install, InstallStore, InstallPublish, InstallClear
  <1>5. CASE \E lists \in SUBSET Listable : InstallLists(lists)
    BY <1>5, QueryPathAssumption DEF InstallLists, Contents
  <1>6. CASE \E n \in Names : Age(n)
    BY <1>6, InvalidateTypes DEF Age
  <1>7. CASE UNCHANGED vars
    BY <1>7 DEF vars
  <1> QED BY <1>1, <1>2, <1>3, <1>4, <1>5, <1>6, <1>7

LEMMA TypesStep == Types /\ [Next]_vars => Types'
  BY TypesQuery, TypesRest DEF Next

-----------------------------------------------------------------------------
(* Old answers.                                                            *)

(* A step that leaves the current generation alone keeps the invariant if  *)
(* every old entry it leaves or puts behind is still on someone's list.    *)
LEMMA DoomedFrame ==
    ASSUME OldAnswersDoomed, current' = current, phase' = phase \/ phase' = "stored",
           phase' = "stored" => phase # "published",
           \A n \in Names :
               \/ cache'[n] = NoEntry
               \/ cache'[n] = cache[n] /\ (Doomed(n) /\ cache[n].gen # current => Doomed(n)')
               \/ Doomed(n)'
    PROVE  OldAnswersDoomed'
  BY DEF OldAnswersDoomed

LEMMA DoomedQuery ==
    ASSUME Types, OldAnswersDoomed, NEW q \in Queries, QueryStep(q)
    PROVE  OldAnswersDoomed'
  <1>0. phase' = phase /\ current' = current
    BY DEF QueryStep, AnswerLocally, Decide, RewriteName, Probe, Recheck, Send, Miss, Join,
           Check, Drop, Failed, FetchOk, FetchErr, envVars
  <1> USE DEF Types, TypeOK, envVars, cacheVars, taskVars, Goto, Answer, Invalidate, Doomed
  <1>1. CASE AnswerLocally(q) \/ Send(q) \/ Decide(q) \/ Failed(q)
    BY <1>0, <1>1, DoomedFrame DEF AnswerLocally, Send, Decide, Failed
  <1>2. CASE RewriteName(q)
    BY <1>0, <1>2, DoomedFrame DEF RewriteName
  <1>3. CASE Probe(q) \/ Join(q)
    BY <1>0, <1>3, DoomedFrame DEF Probe, Join
  <1>4. CASE Recheck(q)
    <2>1. \A t \in Tasks : tpc[t] \in {"verify", "drop"} => tpc'[t] = tpc[t] /\ tkey'[t] = tkey[t]
      BY <1>4 DEF Recheck, MaySpawn
    <2>2. /\ cache' = cache \/ cache' = [cache EXCEPT ![key[q]] = NoEntry]
          /\ \A r \in Queries : pc[r] \in {"check", "drop"} =>
                  pc'[r] = pc[r] /\ key'[r] = key[r] /\ hand'[r] = hand[r]
      BY <1>4 DEF Recheck
    <2> QED BY <1>0, <2>1, <2>2, DoomedFrame
  <1>5. CASE Miss(q) \/ Drop(q)
    BY <1>0, <1>5, DoomedFrame DEF Miss, Drop
  <1>6. CASE Check(q)
    BY <1>0, <1>6, DoomedFrame DEF Check
  <1>7. CASE \E holds \in Answers : FetchOk(q, holds)
    <2>1. PICK holds \in Answers : FetchOk(q, holds) BY <1>7
    <2>2. cache' = [cache EXCEPT ![key[q]] = Entry(fgen[q], holds)]
      BY <2>1 DEF FetchOk, Store
    <2>3. pc'[q] = "check" /\ hand'[q] = Entry(fgen[q], holds) /\ key' = key
      BY <2>1 DEF FetchOk, Flight
    <2>4. \A r \in Queries : pc[r] \in {"check", "drop"} => pc'[r] = pc[r] /\ hand'[r] = hand[r]
      BY <2>1 DEF FetchOk, Flight
    <2>5. tpc' = tpc /\ tkey' = tkey
      BY <2>1 DEF FetchOk
    <2>6. ASSUME NEW n \in Names
          PROVE  \/ cache'[n] = cache[n] /\ (Doomed(n) /\ cache[n].gen # current => Doomed(n)')
                 \/ Doomed(n)'
      <3>1. CASE n = key[q] BY <2>2, <2>3, <3>1
      <3>2. CASE n # key[q] BY <2>2, <2>3, <2>4, <2>5, <3>2
      <3> QED BY <3>1, <3>2
    <2> QED BY <1>0, <2>6, DoomedFrame
  <1>8. CASE \E why \in {"uncacheable", "error"} : FetchErr(q, why)
    BY <1>0, <1>8, DoomedFrame DEF FetchErr, Flight
  <1> QED BY <1>1, <1>2, <1>3, <1>4, <1>5, <1>6, <1>7, <1>8 DEF QueryStep

LEMMA DoomedTask ==
    ASSUME Types, OldAnswersDoomed, NEW t \in Tasks,
           TaskStep(t) \/ \E n \in Names : Tick(t, n)
    PROVE  OldAnswersDoomed'
  <1>0. phase' = phase /\ current' = current
    BY DEF TaskStep, TaskStart, TaskSkip, TaskVerify, TaskDrop, TaskInsert, Tick, envVars
  <1> USE DEF Types, TypeOK, envVars, cacheVars, queryVars, TaskGoto, TaskEnd, Invalidate, Doomed
  <1>1. CASE TaskStart(t) \/ TaskSkip(t) \/ TaskDrop(t)
    BY <1>0, <1>1, DoomedFrame DEF TaskStart, TaskSkip, TaskDrop
  <1>2. CASE \E n \in Names : Tick(t, n)
    BY <1>0, <1>2, DoomedFrame DEF Tick
  <1>3. CASE TaskVerify(t)
    <2>1. CASE cache[tkey[t]] # NoEntry /\ cache[tkey[t]].gen # current
      BY <1>0, <1>3, <2>1, DoomedFrame DEF TaskVerify
    <2>2. CASE cache[tkey[t]] = NoEntry
      BY <1>0, <1>3, <2>2, DoomedFrame DEF TaskVerify
    <2>3. CASE cache[tkey[t]].gen = current
      BY <1>0, <1>3, <2>3, DoomedFrame DEF TaskVerify
    <2> QED BY <2>1, <2>2, <2>3
  <1>4. CASE \E holds \in Answers : TaskInsert(t, holds)
    BY <1>0, <1>4, DoomedFrame DEF TaskInsert, Store
  <1> QED BY <1>1, <1>2, <1>3, <1>4 DEF TaskStep

LEMMA DoomedRest ==
    ASSUME Types, OldAnswersDoomed,
           \/ \E q \in Queries, r \in Requests : Arrive(q, r[1], r[2])
           \/ Install
           \/ \E lists \in SUBSET Listable : InstallLists(lists)
           \/ \E n \in Names : Age(n)
           \/ UNCHANGED vars
    PROVE  OldAnswersDoomed'
  <1> USE DEF Types, TypeOK, envVars, cacheVars, taskVars, queryVars, Goto, Doomed
  <1>1. CASE \E q \in Queries, r \in Requests : Arrive(q, r[1], r[2])
    BY <1>1, DoomedFrame DEF Arrive
  <1>2. CASE InstallStore
    BY <1>2, DoomedFrame DEF InstallStore
  <1>3. CASE InstallPublish \/ InstallClear
    BY <1>3 DEF InstallPublish, InstallClear, OldAnswersDoomed
  <1>4. CASE \E lists \in SUBSET Listable : InstallLists(lists)
    BY <1>4, DoomedFrame DEF InstallLists
  <1>5. CASE \E n \in Names : Age(n)
    BY <1>5, DoomedFrame DEF Age, Invalidate
  <1>6. CASE UNCHANGED vars
    BY <1>6, DoomedFrame DEF vars
  <1> QED BY <1>1, <1>2, <1>3, <1>4, <1>5, <1>6 DEF Install

LEMMA DoomedStep == Types /\ OldAnswersDoomed /\ [Next]_vars => OldAnswersDoomed'
  BY DoomedQuery, DoomedTask, DoomedRest DEF Next

-----------------------------------------------------------------------------
(* What is served.                                                         *)

LEMMA ClearedQuery ==
    ASSUME Types, Cleared, NEW q \in Queries, QueryStep(q)
    PROVE  Cleared'
  <1>0. listed' = listed
    BY DEF QueryStep, AnswerLocally, Decide, RewriteName, Probe, Recheck, Send, Miss, Join,
           Check, Drop, Failed, FetchOk, FetchErr, envVars
  <1> USE DEF Types, TypeOK, envVars, cacheVars, taskVars, Goto, Cleared, BlocksAny
  <1>1. CASE Answer(q)
    BY <1>0, <1>1 DEF Answer
  <1>2. CASE Decide(q) /\ ~Answer(q)
    <2>1. ~BlocksTarget(prof[q], asked[q], since[q], asked[q])
      BY <1>2, BlocksMonotone DEF Decide
    <2> QED BY <1>0, <1>2, <2>1 DEF Decide
  <1>3. CASE RewriteName(q) /\ ~Answer(q)
    <2> DEFINE n == Rewrite[prof[q]][asked[q]]
    <2>1. ~BlocksTarget(prof[q], asked[q], since[q], n)
      <3>1. CASE n = asked[q] BY <1>3, <3>1 DEF RewriteName
      <3>2. CASE n # asked[q] BY <1>3, <3>2, BlocksMonotone DEF RewriteName
      <3> QED BY <3>1, <3>2
    <2> QED BY <1>0, <1>3, <2>1 DEF RewriteName
  <1>4. CASE Recheck(q) /\ ~Answer(q)
    <2>1. ~BlocksAny(q, since[q], hand[q].holds)
      BY <1>4, BlocksMonotone DEF Recheck
    <2>2. /\ pc[q] = "recheck" /\ pc' = [pc EXCEPT ![q] = "send"]
          /\ UNCHANGED <<prof, asked, key, hand, since>>
      BY <1>4 DEF Recheck
    <2>3. ~BlocksAny(q, since[q], hand[q].holds)'
      BY <2>1, <2>2
    <2> QED BY <1>0, <2>2, <2>3
  <1>5. CASE Probe(q) \/ Join(q) \/ Check(q) \/ Drop(q)
    BY <1>0, <1>5 DEF Probe, Join, Check, Drop
  <1>6. CASE (Miss(q) \/ Failed(q)) /\ ~Answer(q)
    BY <1>0, <1>6 DEF Miss, Failed
  <1>7. CASE \E holds \in Answers : FetchOk(q, holds)
    BY <1>0, <1>7 DEF FetchOk, Flight
  <1>8. CASE \E why \in {"uncacheable", "error"} : FetchErr(q, why)
    BY <1>0, <1>8 DEF FetchErr, Flight
  <1>9. CASE AnswerLocally(q) \/ Send(q)
    BY <1>1, <1>9 DEF AnswerLocally, Send
  <1> QED BY <1>1, <1>2, <1>3, <1>4, <1>5, <1>6, <1>7, <1>8, <1>9 DEF QueryStep

LEMMA ClearedStep == Types /\ Cleared /\ [Next]_vars => Cleared'
  <1> SUFFICES ASSUME Types, Cleared, [Next]_vars
               PROVE  Cleared'
    OBVIOUS
  <1> USE DEF Types, TypeOK, envVars, cacheVars, queryVars, Goto, Cleared, BlocksAny
  <1>1. CASE \E q \in Queries : QueryStep(q)
    BY <1>1, ClearedQuery
  <1>2. CASE \E q \in Queries, r \in Requests : Arrive(q, r[1], r[2])
    BY <1>2 DEF Arrive
  <1>3. CASE \E t \in Tasks : TaskStep(t) \/ \E n \in Names : Tick(t, n)
    <2>1. UNCHANGED <<listed, pc, prof, asked, key, hand, since>>
      BY <1>3 DEF TaskStep, TaskStart, TaskSkip, TaskVerify, TaskDrop, TaskInsert, Tick
    <2> QED BY <2>1
  <1>4. CASE Install
    BY <1>4 DEF Install, InstallStore, InstallPublish, InstallClear
  <1>5. CASE \E lists \in SUBSET Listable : InstallLists(lists)
    <2>1. PICK lists \in SUBSET Listable : InstallLists(lists) BY <1>5
    <2>2. \A q \in Queries : since'[q] \subseteq since[q] /\ since'[q] \subseteq listed'
      BY <2>1 DEF InstallLists
    <2>3. UNCHANGED <<pc, prof, asked, key, hand>>
      BY <2>1 DEF InstallLists
    <2> QED BY <2>2, <2>3, BlocksMonotone
  <1>6. CASE \E n \in Names : Age(n)
    BY <1>6 DEF Age
  <1>7. CASE UNCHANGED vars
    BY <1>7 DEF vars
  <1> QED BY <1>1, <1>2, <1>3, <1>4, <1>5, <1>6, <1>7 DEF Next

LEMMA ClearedServes == Types /\ Cleared => ServedIsUnblocked
  BY DEF Types, TypeOK, Cleared, ServedIsUnblocked, BlocksAny

-----------------------------------------------------------------------------
(* The theorems.                                                           *)

QueryInv == Types /\ OldAnswersDoomed /\ Cleared

LEMMA QueryInvInit == Init => QueryInv
  <1> SUFFICES ASSUME Init PROVE QueryInv
    OBVIOUS
  <1>1. Types BY TypesInit
  <1>2. OldAnswersDoomed
    BY DEF Init, OldAnswersDoomed
  <1>3. Cleared BY DEF Init, Cleared
  <1> QED BY <1>1, <1>2, <1>3 DEF QueryInv

LEMMA QueryInvStep == QueryInv /\ [Next]_vars => QueryInv'
  BY TypesStep, DoomedStep, ClearedStep DEF QueryInv

(* Every variable keeps its type, and every cached response the stamp of   *)
(* the generation that produced it (fetch_with_keyed_state,                *)
(* insert_with_upstream_generation).                                       *)
THEOREM QueryTypes == Spec => []TypeOK
  <1>1. QueryInv => TypeOK BY DEF QueryInv, Types
  <1> QED BY <1>1, QueryInvInit, QueryInvStep, PTL DEF Spec

(* For any number of queries, prefetch tasks and reloads: once a reload    *)
(* has cleared the cache, an answer of a replaced upstream is only there   *)
(* while its fetcher is on its way to remove it.                           *)
THEOREM OldAnswersGo == Spec => []OldAnswersDoomed
  <1>1. QueryInv => OldAnswersDoomed BY DEF QueryInv
  <1> QED BY <1>1, QueryInvInit, QueryInvStep, PTL DEF Spec

(* For any profiles, rules, rewrites and lists: nothing a profile blocked  *)
(* for as long as the request took is served, on any path.                 *)
THEOREM NothingBlockedIsServed == Spec => []ServedIsUnblocked
  <1>1. QueryInv => ServedIsUnblocked BY ClearedServes DEF QueryInv
  <1> QED BY <1>1, QueryInvInit, QueryInvStep, PTL DEF Spec
=============================================================================
