--------------------------- MODULE CircuitBreaker ---------------------------
(***************************************************************************)
(* The lock-free circuit breaker around an upstream resolver               *)
(* (src/upstream/circuit.rs).  Any number of DNS queries are inside        *)
(* lookup() at once; the failure count, the state and the opening time are *)
(* three separate atomics, so every load, store, fetch_add and             *)
(* compare_exchange is a step of its own here.                             *)
(*                                                                         *)
(* Time only ever enters as "whole seconds since", compared with the probe *)
(* interval, so a clock reading is kept as its age, saturating at          *)
(* ProbeInterval: age is now - opened_at, and read[q] is how long ago      *)
(* query q took the reading it holds.                                      *)
(***************************************************************************)
EXTENDS Integers, FiniteSets

CONSTANTS
    Queries,         \* the queries that can be inside lookup() at once
    Threshold,       \* FAILURE_THRESHOLD
    ProbeInterval    \* PROBE_INTERVAL_SECS

ASSUME BreakerAssumption ==
    /\ IsFiniteSet(Queries)
    /\ Threshold \in Nat \ {0} /\ ProbeInterval \in Nat \ {0}

VARIABLES
    state,      \* state
    failures,   \* failures
    age,        \* seconds since opened_at
    up,         \* whether the wrapped upstream answers
    pc,         \* per query: its next step
    probing,    \* history, per query: it won the compare_exchange
    count,      \* per query: what its fetch_add returned, plus one
    read        \* per query: the age of the clock reading it holds

vars == <<state, failures, age, up, pc, probing, count, read>>

States == {"Closed", "Open", "HalfOpen"}
Succeeding == {"loadFailures", "clearFailures", "loadState", "close"}
Opening    == {"readClock", "storeOpened", "open"}
Steps == {"idle", "inner", "loadOpened", "compareExchange", "bump", "cap"}
         \cup Succeeding \cup Opening

TypeOK ==
    /\ state \in States
    /\ failures \in Nat
    /\ age \in 0..ProbeInterval
    /\ up \in BOOLEAN
    /\ pc \in [Queries -> Steps]
    /\ probing \in [Queries -> BOOLEAN]
    /\ count \in [Queries -> Nat]
    /\ read \in [Queries -> 0..ProbeInterval]

Init ==
    /\ state = "Closed" /\ failures = 0
    /\ age = 0                       \* opened_at = 0, the anchor itself
    /\ up \in BOOLEAN
    /\ pc = [q \in Queries |-> "idle"]
    /\ probing = [q \in Queries |-> FALSE]
    /\ count = [q \in Queries |-> 0]
    /\ read = [q \in Queries |-> 0]

Goto(q, step) == pc' = [pc EXCEPT ![q] = step]
Return(q) == /\ Goto(q, "idle")
             /\ probing' = [probing EXCEPT ![q] = FALSE]
             /\ count' = [count EXCEPT ![q] = 0]
             /\ read' = [read EXCEPT ![q] = 0]

-----------------------------------------------------------------------------
(* The world: time passes, and the upstream fails and recovers.            *)

Later(a) == IF a < ProbeInterval THEN a + 1 ELSE a
HoldsReading(q) == pc[q] \in {"compareExchange", "storeOpened"}

Tick ==
    /\ age' = Later(age)
    /\ read' = [q \in Queries |-> IF HoldsReading(q) THEN Later(read[q]) ELSE read[q]]
    /\ UNCHANGED <<state, failures, up, pc, probing, count>>

Toggle ==
    /\ up' = ~up
    /\ UNCHANGED <<state, failures, age, pc, probing, count, read>>

-----------------------------------------------------------------------------
(* lookup(): the dispatch on the state, and the probe.                     *)

(* Mutation: an open circuit rejects like a half-open one. *)
EnterRejectsOpen(q) ==
    /\ pc[q] = "idle"
    /\ \/ state = "Closed" /\ Goto(q, "inner")
       \/ state # "Closed" /\ Goto(q, "idle")
    /\ UNCHANGED <<state, failures, age, up, probing, count, read>>

(* A query reads the state once: Closed goes to the upstream, Open goes on *)
(* to should_probe(), HalfOpen is rejected on the spot.                    *)
Enter(q) ==
    /\ pc[q] = "idle"
    /\ \/ state = "Closed" /\ Goto(q, "inner")
       \/ state = "Open" /\ Goto(q, "loadOpened")
       \/ state = "HalfOpen" /\ Goto(q, "idle")
    /\ UNCHANGED <<state, failures, age, up, probing, count, read>>

LoadOpened(q) ==
    /\ pc[q] = "loadOpened" /\ Goto(q, "compareExchange")
    /\ read' = [read EXCEPT ![q] = age]
    /\ UNCHANGED <<state, failures, age, up, probing, count>>

(* should_probe() compares, and the winner of the compare_exchange probes. *)
TryProbe(q) ==
    /\ pc[q] = "compareExchange"
    /\ IF read[q] >= ProbeInterval /\ state = "Open"
       THEN /\ state' = "HalfOpen" /\ Goto(q, "inner")
            /\ probing' = [probing EXCEPT ![q] = TRUE]
            /\ read' = [read EXCEPT ![q] = 0]
            /\ UNCHANGED count
       ELSE Return(q) /\ UNCHANGED state
    /\ UNCHANGED <<failures, age, up>>

(* The wrapped upstream answers.  A failed probe goes straight to          *)
(* re-opening the circuit; it is not counted.                              *)
Answer(q) ==
    /\ pc[q] = "inner"
    /\ Goto(q, IF up THEN "loadFailures" ELSE IF probing[q] THEN "readClock" ELSE "bump")
    /\ UNCHANGED <<state, failures, age, up, probing, count, read>>

-----------------------------------------------------------------------------
(* record_success()                                                        *)

(* Mutation: the state is only looked at when there were failures. *)
LoadFailuresNested(q) ==
    /\ pc[q] = "loadFailures"
    /\ IF failures > 0 THEN Goto(q, "clearFailures") /\ UNCHANGED <<probing, count, read>>
                       ELSE Return(q)
    /\ UNCHANGED <<state, failures, age, up>>

LoadFailures(q) ==
    /\ pc[q] = "loadFailures"
    /\ Goto(q, IF failures > 0 THEN "clearFailures" ELSE "loadState")
    /\ UNCHANGED <<state, failures, age, up, probing, count, read>>

ClearFailures(q) ==
    /\ pc[q] = "clearFailures" /\ failures' = 0 /\ Goto(q, "loadState")
    /\ UNCHANGED <<state, age, up, probing, count, read>>

LoadState(q) ==
    /\ pc[q] = "loadState"
    /\ IF state # "Closed" THEN Goto(q, "close") /\ UNCHANGED <<probing, count, read>>
                           ELSE Return(q)
    /\ UNCHANGED <<state, failures, age, up>>

Close(q) ==
    /\ pc[q] = "close" /\ state' = "Closed" /\ Return(q)
    /\ UNCHANGED <<failures, age, up>>

-----------------------------------------------------------------------------
(* record_failure(), and the failure arm of the probe from readClock on.   *)

(* Mutation: a saturating count opens the circuit on reaching the threshold only. *)
BumpOpensOnce(q) ==
    /\ pc[q] = "bump"
    /\ failures' = IF failures < Threshold THEN failures + 1 ELSE failures
    /\ IF failures + 1 = Threshold
       THEN /\ Goto(q, "readClock")
            /\ count' = [count EXCEPT ![q] = failures + 1]
            /\ UNCHANGED <<probing, read>>
       ELSE Return(q)
    /\ UNCHANGED <<state, age, up>>

Bump(q) ==
    /\ pc[q] = "bump"
    /\ failures' = failures + 1
    /\ IF failures + 1 >= Threshold
       THEN /\ Goto(q, "readClock")
            /\ count' = [count EXCEPT ![q] = failures + 1]
            /\ UNCHANGED <<probing, read>>
       ELSE Return(q)
    /\ UNCHANGED <<state, age, up>>

ReadClock(q) ==
    /\ pc[q] = "readClock" /\ Goto(q, "storeOpened")
    /\ read' = [read EXCEPT ![q] = 0]
    /\ UNCHANGED <<state, failures, age, up, probing, count>>

StoreOpened(q) ==
    /\ pc[q] = "storeOpened" /\ Goto(q, "open")
    /\ age' = read[q]
    /\ UNCHANGED <<state, failures, up, probing, count, read>>

(* Mutation: the count is never capped. *)
OpenUncapped(q) ==
    /\ pc[q] = "open" /\ state' = "Open" /\ Return(q)
    /\ UNCHANGED <<failures, age, up>>

Open(q) ==
    /\ pc[q] = "open" /\ state' = "Open"
    /\ IF count[q] > 2 * Threshold
       THEN Goto(q, "cap") /\ UNCHANGED <<probing, count, read>>
       ELSE Return(q)
    /\ UNCHANGED <<failures, age, up>>

Cap(q) ==
    /\ pc[q] = "cap" /\ failures' = Threshold /\ Return(q)
    /\ UNCHANGED <<state, age, up>>

-----------------------------------------------------------------------------
Lookup(q) ==
    \/ Enter(q) \/ LoadOpened(q) \/ TryProbe(q) \/ Answer(q)
    \/ LoadFailures(q) \/ ClearFailures(q) \/ LoadState(q) \/ Close(q)
    \/ Bump(q) \/ ReadClock(q) \/ StoreOpened(q) \/ Open(q) \/ Cap(q)

Next == Tick \/ Toggle \/ \E q \in Queries : Lookup(q)

Spec == Init /\ [][Next]_vars

(* Every task inside lookup() is polled, every inner lookup ends (each     *)
(* transport bounds its own exchange with a timeout) and clients go on     *)
(* asking: without traffic the breaker takes no step at all.               *)
FairSpec == Spec /\ WF_vars(Tick) /\ \A q \in Queries : WF_vars(Lookup(q))

-----------------------------------------------------------------------------
(* A half-open circuit rejects every query, so it must always be some      *)
(* query's job to leave it: the winner of a compare_exchange is still on   *)
(* its way to closing or re-opening the circuit, whatever late answers of  *)
(* queries admitted before the outage do in between.                       *)
HalfOpenOwned ==
    state = "HalfOpen" =>
        \E q \in Queries : probing[q] /\ pc[q] \in {"inner"} \cup Succeeding \cup Opening

(* The failure count stays near twice the threshold: every query that took *)
(* it above that is still on its way to pulling it back, so no long outage *)
(* can run the counter up to a wrap-around.                                *)
Excess == {q \in Queries : pc[q] \in Opening \cup {"cap"} /\ count[q] > 2 * Threshold}
FailuresCapped == failures <= 2 * Threshold + Cardinality(Excess)

(* Once the upstream answers for good, the circuit closes and stays        *)
(* closed, whatever mix of count, state and opening time the race of late  *)
(* answers left behind.                                                    *)
Recovers == <>[]up => <>[](state = "Closed")

(* An upstream that stays down does not keep a closed circuit.             *)
Trips == (state = "Closed" /\ ~up) ~> (state # "Closed" \/ up)

=============================================================================
