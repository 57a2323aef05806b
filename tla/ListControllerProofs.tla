------------------------ MODULE ListControllerProofs ------------------------
(***************************************************************************)
(* What the list controller keeps true for any number of requests, shards, *)
(* deadlines and rejected reloads.                                         *)
(***************************************************************************)
EXTENDS ListController, TLAPS

(* The types of what is not a sequence. *)
FlatTypes ==
    /\ kind \in [Requests -> Kinds] /\ stage \in [Requests -> Stages]
    /\ after \in [Requests -> SUBSET Requests]
    /\ active \in [mode : {"none", "scheduled", "force"}, waiting : SUBSET Requests,
                   seqAtStart : Nat, seen : SUBSET Requests]
    /\ forgot \in SUBSET Requests
    /\ seq \in Nat /\ panics \in Nat

(* Where the controller is, what it holds there, and how far the worker    *)
(* may have got.                                                           *)
Control ==
    /\ ctl \in {"loop", "prepare", "wait", "commit", "returned", "panicked"}
    /\ intake \in {"open", "sink", "gone"}
    /\ pc \in Running \cup Finished \cup {"none"}
    /\ active.mode = "none" <=> pc = "none"
    /\ ctl # "loop" => active.mode = "none"
    /\ ctl \in {"prepare", "wait", "commit"} => rebind \in Requests /\ kind[rebind] = "rebind"
    /\ ctl \in {"wait", "commit"} => ~disturbed

(* A claimed phase stays claimed until the worker is joined. *)
Phases ==
    /\ pc \in {"after", "publish", "return", "completed"} => phase = "COMMITTING"
    /\ swapped => phase = "COMMITTING"
    /\ pc = "cancelled" => phase = "CANCELLED"
    /\ pc = "panicked" \/ ctl = "panicked" => panics > 0

Intake ==
    /\ retiring => retireSent /\ intake = "sink" /\ ctl \in {"loop", "returned", "panicked"}
    /\ intake = "gone" => ctl \in {"returned", "panicked"}
    /\ \A r \in Requests : stage[r] = "stranded" => intake = "gone"

(* The worker's snapshot is newer than its start, and newer than whoever   *)
(* waits for it.                                                           *)
Covered ==
    /\ \A r \in active.waiting : stage[r] # "none" /\ kind[r] = "force"
    /\ active.mode # "none" => active.seqAtStart <= seq
    /\ pc \in {"return", "completed"} => active.seqAtStart < seq /\ active.waiting \subseteq covers

Flat == FlatTypes /\ Control /\ Phases /\ Intake /\ Covered

(* Some forget of the queue, up to a place, is f. *)
QueuedUpTo(f, n) == \E j \in 1..n : queued[j].kind = "forget" /\ f \in queued[j].reqs
Ahead(f, n) == f \in forgot \/ QueuedUpTo(f, n)

(* Every acknowledged forget that a request was sent after is done, or     *)
(* waits in front of it.                                                   *)
Channels ==
    /\ buf \in Seq(Requests) /\ queued \in Seq(Work)
    /\ intake # "open" => buf = <<>>
    /\ \A i \in 1..Len(buf) : stage[buf[i]] # "none"
    /\ \A i \in 1..Len(queued) : \A r \in queued[i].reqs :
          stage[r] # "none" /\ kind[r] = queued[i].kind

QueueOrder ==
    \A i \in 1..Len(queued) : \A r \in queued[i].reqs : \A f \in after[r] : Ahead(f, i - 1)

IntakeOrder ==
    /\ \A i \in 1..Len(buf) : \A f \in after[buf[i]] : Ahead(f, Len(queued))
    /\ intake = "open" =>
          /\ \A r \in Requests : stage[r] = "permit" => \A f \in after[r] : Ahead(f, Len(queued))
          /\ \A f \in Acknowledged : Ahead(f, Len(queued))

ServedOrder ==
    /\ active.mode # "none" => active.seen = forgot
    /\ \A r \in active.waiting : after[r] \subseteq active.seen

Ordered == Channels /\ QueueOrder /\ IntakeOrder /\ ServedOrder

ControllerInv == Flat /\ Ordered

-----------------------------------------------------------------------------
LEMMA FlatInit == Init => Flat
  BY ControllerAssumption
  DEF Init, Flat, FlatTypes, Control, Phases, Intake, Covered, NoRefresh, Kinds, Stages, Running

LEMMA FlatWorker ==
    ASSUME Flat, WorkerSteps \/ WorkerPanics
    PROVE  Flat'
  <1> USE DEF Flat, FlatTypes, Control, Phases, Intake, Covered, reqVars, ctlVars, rebindVars,
              boundVars, Running, Finished, Cancelled
  <1>1. CASE WorkerCancelled BY <1>1 DEF WorkerCancelled
  <1>2. CASE WorkerStart BY <1>2 DEF WorkerStart
  <1>3. CASE WorkerRefuses BY <1>3 DEF WorkerRefuses, BeginCommit, Record
  <1>4. CASE WorkerPrepared BY <1>4 DEF WorkerPrepared
  <1>5. CASE WorkerBuilds BY <1>5 DEF WorkerBuilds
  <1>6. CASE WorkerDegrades BY <1>6 DEF WorkerDegrades, NextShard
  <1>7. CASE WorkerSwaps BY <1>7 DEF WorkerSwaps, BeginCommit
  <1>8. CASE WorkerSwapped BY <1>8 DEF WorkerSwapped, NextShard
  <1>9. CASE WorkerCommits BY <1>9 DEF WorkerCommits, BeginCommit
  <1>10. CASE WorkerPublishes BY <1>10 DEF WorkerPublishes, Record
  <1>11. CASE WorkerReturns BY <1>11 DEF WorkerReturns
  <1>12. CASE WorkerPanics BY <1>12 DEF WorkerPanics
  <1> QED
    BY <1>1, <1>2, <1>3, <1>4, <1>5, <1>6, <1>7, <1>8, <1>9, <1>10, <1>11, <1>12 DEF WorkerSteps

LEMMA FlatClients ==
    ASSUME Flat,
           \/ \E r \in Requests : Reserve(r) \/ Push(r)
           \/ \E d \in {"yes", "no"} : Decide(d)
           \/ RejectReload \/ Retire
    PROVE  Flat'
  <1> USE DEF Flat, FlatTypes, Control, Phases, Intake, Covered, reqVars, ctlVars, rebindVars,
              workVars, boundVars, Running, Finished, Kinds, Stages
  <1>1. ASSUME NEW r \in Requests, Reserve(r) PROVE Flat'
    BY <1>1 DEF Reserve, Acknowledged
  <1>2. ASSUME NEW r \in Requests, Push(r) PROVE Flat'
    BY <1>2 DEF Push
  <1>3. ASSUME NEW d \in {"yes", "no"}, Decide(d) PROVE Flat'
    BY <1>3 DEF Decide
  <1>4. CASE RejectReload BY <1>4 DEF RejectReload
  <1>5. CASE Retire BY <1>5 DEF Retire
  <1> QED BY <1>1, <1>2, <1>3, <1>4, <1>5

(* What is performed comes from the head of the queue or from the intake,  *)
(* and either way the requests are of the kind performed.                  *)
LEMMA FlatPerform ==
    ASSUME Flat, Idle, NEW k \in Kinds, NEW reqs \in SUBSET Requests,
           \A r \in reqs : kind[r] = k,
           Perform(k, reqs), UNCHANGED <<kind, after, intake, retiring, retireSent, boundVars>>
    PROVE  Flat'
  <1> USE DEF Flat, FlatTypes, Control, Phases, Intake, Covered, rebindVars, workVars, boundVars,
              Running, Finished, Kinds, Stages, Idle, Perform
  <1>1. CASE k = "forget" BY <1>1
  <1>2. CASE k = "force" BY <1>2 DEF start_refresh_worker
  <1>3. CASE k = "rebind" BY <1>3
  <1> QED BY <1>1, <1>2, <1>3

LEMMA WorkQueued ==
    ASSUME Ordered, NEW i \in 1..Len(queued)
    PROVE  queued[i] \in Work /\ queued[i].kind \in Kinds /\ queued[i].reqs \in SUBSET Requests
  <1>1. queued[i] \in Work BY DEF Ordered, Channels
  <1> QED BY <1>1 DEF Work

LEMMA HeadOfQueue ==
    ASSUME Ordered, queued # <<>>
    PROVE  /\ Head(queued) \in Work /\ Head(queued) = queued[1] /\ 1 \in 1..Len(queued)
           /\ Head(queued).kind \in Kinds /\ Head(queued).reqs \in SUBSET Requests
           /\ \A r \in Head(queued).reqs : kind[r] = Head(queued).kind
           /\ Len(Tail(queued)) = Len(queued) - 1 /\ Tail(queued) \in Seq(Work)
           /\ \A i \in 1..Len(Tail(queued)) : Tail(queued)[i] = queued[i + 1]
  <1>1. queued \in Seq(Work) /\ Len(queued) \in Nat /\ Len(queued) > 0 BY DEF Ordered, Channels
  <1>2. queued[1] \in Work /\ Head(queued) = queued[1] BY <1>1
  <1>3. /\ Len(Tail(queued)) = Len(queued) - 1 /\ Tail(queued) \in Seq(Work)
        /\ \A i \in 1..Len(Tail(queued)) : Tail(queued)[i] = queued[i + 1]
    BY <1>1
  <1>4. \A r \in queued[1].reqs : kind[r] = queued[1].kind BY <1>1 DEF Ordered, Channels
  <1>5. queued[1].kind \in Kinds /\ queued[1].reqs \in SUBSET Requests BY <1>2 DEF Work
  <1> QED BY <1>1, <1>2, <1>3, <1>4, <1>5

LEMMA HeadOfIntake ==
    ASSUME Ordered, NEW r \in Requests, Take(r)
    PROVE  /\ r = buf[1] /\ 1 \in 1..Len(buf) /\ intake = "open"
           /\ buf' \in Seq(Requests) /\ Len(buf') = Len(buf) - 1
           /\ \A i \in 1..Len(buf') : buf'[i] = buf[i + 1]
  BY DEF Ordered, Channels, Take

LEMMA FlatController ==
    ASSUME Flat, Ordered, ControllerSteps \/ Deadline \/ RebindPanics
    PROVE  Flat'
  <1> USE DEF Flat, FlatTypes, Control, Phases, Intake, Covered, reqVars, ctlVars, rebindVars,
              workVars, boundVars, Running, Finished, Kinds, Stages
  <1>1. ASSUME NEW r \in Requests, accept_while_active(r) PROVE Flat'
    BY <1>1 DEF accept_while_active, Joins
  <1>2. ASSUME NEW r \in Requests, accept_when_idle(r) PROVE Flat'
    <2>1. kind[r] \in Kinds /\ {r} \in SUBSET Requests BY DEF Kinds
    <2> QED BY <1>2, <2>1, FlatPerform DEF accept_when_idle
  <1>3. ASSUME NEW r \in Requests, AcceptInRebind(r) PROVE Flat'
    BY <1>3 DEF AcceptInRebind
  <1>4. CASE Dispatch
    BY <1>4, HeadOfQueue, FlatPerform DEF Dispatch
  <1>5. CASE BeginRetiring BY <1>5 DEF BeginRetiring, Return
  <1>6. CASE Completed BY <1>6 DEF Completed, Joined, NoRefresh, Return
  <1>7. CASE WasCancelled BY <1>7 DEF WasCancelled, Joined, NoRefresh, Return
  <1>8. CASE WorkerLost BY <1>8 DEF WorkerLost, Joined, NoRefresh, Release
  <1>9. CASE Prepared BY <1>9 DEF Prepared
  <1>10. CASE NotPrepared BY <1>10 DEF NotPrepared, EndRebind
  <1>11. CASE RebindDecided BY <1>11 DEF RebindDecided, EndRebind
  <1>12. CASE RebindCommitted BY <1>12 DEF RebindCommitted, EndRebind
  <1>13. CASE RetireInRebind BY <1>13 DEF RetireInRebind, LeaveInRebind, Release
  <1>14. CASE RebindPanics BY <1>14 DEF RebindPanics, LeaveInRebind, Release
  <1>15. CASE Deadline BY <1>15 DEF Deadline, start_refresh_worker, Idle
  <1> QED
    BY <1>1, <1>2, <1>3, <1>4, <1>5, <1>6, <1>7, <1>8, <1>9, <1>10, <1>11, <1>12, <1>13, <1>14, <1>15
    DEF ControllerSteps

-----------------------------------------------------------------------------
(* The order of forgets and refreshes. *)

LEMMA OrderedInit == Init => Ordered
  BY DEF Init, Ordered, Channels, QueueOrder, IntakeOrder, ServedOrder, NoRefresh, Acknowledged

(* A step that leaves the queues alone and neither hands out a permit nor  *)
(* acknowledges a forget.                                                  *)
LEMMA OrderedAlone ==
    ASSUME Flat, Ordered, UNCHANGED <<kind, after, intake, buf, queued, forgot>>,
           active' = active \/ active' = NoRefresh,
           \A r \in Requests :
              /\ stage'[r] = "none" => stage[r] = "none"
              /\ stage'[r] = "permit" => stage[r] = "permit"
              /\ kind[r] = "forget" /\ stage'[r] \in {"taken", "answered"}
                   => stage[r] \in {"taken", "answered"}
    PROVE  Ordered'
  <1>1. \A f, n : Ahead(f, n)' <=> Ahead(f, n) BY DEF Ahead, QueuedUpTo
  <1>2. Acknowledged' \subseteq Acknowledged BY DEF Acknowledged
  <1>3. \A i \in 1..Len(buf) : buf[i] \in Requests BY DEF Ordered, Channels
  <1>4. \A i \in 1..Len(queued) : queued[i].reqs \in SUBSET Requests BY WorkQueued
  <1>5. \A r \in active'.waiting : r \in active.waiting BY DEF NoRefresh
  <1>6. active'.mode # "none" => active' = active BY DEF NoRefresh
  <1>7. Channels' BY <1>1, <1>2, <1>3, <1>4, <1>5, <1>6 DEF Ordered, Channels
  <1>8. QueueOrder' BY <1>1, <1>2, <1>3, <1>4, <1>5, <1>6 DEF Ordered, QueueOrder
  <1>9. IntakeOrder' BY <1>1, <1>2, <1>3, <1>4, <1>5, <1>6 DEF Ordered, IntakeOrder
  <1>10. ServedOrder' BY DEF Ordered, ServedOrder, NoRefresh
  <1> QED BY <1>7, <1>8, <1>9, <1>10 DEF Ordered

(* A step that ends the intake and the queue. *)
LEMMA OrderedEnded ==
    ASSUME Flat, Ordered, UNCHANGED <<kind, after, forgot>>,
           active' = active \/ active' = NoRefresh,
           intake' # "open", buf' = <<>>, queued' = <<>>
    PROVE  Ordered'
  BY DEF Ordered, Channels, QueueOrder, IntakeOrder, ServedOrder, NoRefresh

LEMMA OrderedWorker ==
    ASSUME Flat, Ordered, WorkerSteps \/ WorkerPanics
    PROVE  Ordered'
  BY OrderedAlone
  DEF WorkerSteps, WorkerPanics, WorkerCancelled, WorkerStart, WorkerRefuses, WorkerPrepared,
      WorkerBuilds, WorkerDegrades, WorkerSwaps, WorkerSwapped, WorkerCommits, WorkerPublishes,
      WorkerReturns, reqVars, ctlVars

LEMMA OrderedReserve ==
    ASSUME Flat, Ordered, NEW r \in Requests, Reserve(r)
    PROVE  Ordered'
  <1> USE DEF Reserve, ctlVars
  <1>1. \A f, n : Ahead(f, n)' <=> Ahead(f, n) BY DEF Ahead, QueuedUpTo
  <1>2. Acknowledged' \subseteq Acknowledged BY DEF Acknowledged, Flat, FlatTypes
  <1>3. \A o \in Requests \ {r} : after'[o] = after[o] /\ stage'[o] = stage[o]
    BY DEF Flat, FlatTypes
  <1>4. after'[r] = Acknowledged /\ stage'[r] # "none" BY DEF Flat, FlatTypes
  <1>5. \A i \in 1..Len(buf) : buf[i] \in Requests \ {r} BY DEF Ordered, Channels
  <1>6. \A i \in 1..Len(queued) : queued[i].reqs \in SUBSET (Requests \ {r})
    BY WorkQueued DEF Ordered, Channels
  <1>7. active.waiting \subseteq Requests \ {r} BY DEF Flat, FlatTypes, Covered
  <1>8. Channels' BY <1>1, <1>2, <1>3, <1>4, <1>5, <1>6, <1>7 DEF Ordered, Channels
  <1>9. QueueOrder' BY <1>1, <1>2, <1>3, <1>4, <1>5, <1>6, <1>7 DEF Ordered, QueueOrder
  <1>10. IntakeOrder' BY <1>1, <1>2, <1>3, <1>4, <1>5, <1>6, <1>7 DEF Ordered, IntakeOrder
  <1>11. ServedOrder' BY <1>1, <1>2, <1>3, <1>4, <1>5, <1>6, <1>7 DEF Ordered, ServedOrder
  <1> QED BY <1>8, <1>9, <1>10, <1>11 DEF Ordered

LEMMA OrderedPush ==
    ASSUME Flat, Ordered, NEW r \in Requests, Push(r)
    PROVE  Ordered'
  <1> USE DEF Push
  <1>1. \A f, n : Ahead(f, n)' <=> Ahead(f, n) BY DEF Ahead, QueuedUpTo
  <1>2. Acknowledged' \subseteq Acknowledged BY DEF Acknowledged, Flat, FlatTypes
  <1>3. \A o \in Requests : /\ stage'[o] = "none" => stage[o] = "none"
                            /\ stage'[o] = "permit" => stage[o] = "permit"
    BY DEF Flat, FlatTypes
  <1>4. \A i \in 1..Len(queued) : queued[i].reqs \in SUBSET Requests BY WorkQueued
  <1>5. /\ buf' \in Seq(Requests) /\ intake # "open" => buf' = <<>>
        /\ \A i \in 1..Len(buf') : /\ buf'[i] \in Requests
                                  /\ \/ i \in 1..Len(buf) /\ buf'[i] = buf[i]
                                     \/ buf'[i] = r /\ intake = "open"
    BY DEF Ordered, Channels
  <1>6. stage'[r] # "none" BY DEF Flat, FlatTypes
  <1>7. Channels' BY <1>1, <1>2, <1>3, <1>4, <1>5, <1>6 DEF Ordered, Channels
  <1>8. QueueOrder' BY <1>1, <1>2, <1>3, <1>4, <1>5, <1>6 DEF Ordered, QueueOrder
  <1>9. IntakeOrder' BY <1>1, <1>2, <1>3, <1>4, <1>5, <1>6 DEF Ordered, IntakeOrder
  <1>10. ServedOrder' BY <1>1, <1>2, <1>3, <1>4, <1>5, <1>6 DEF Ordered, ServedOrder
  <1> QED BY <1>7, <1>8, <1>9, <1>10 DEF Ordered

LEMMA OrderedClients ==
    ASSUME Flat, Ordered,
           \/ \E r \in Requests : Reserve(r) \/ Push(r)
           \/ \E d \in {"yes", "no"} : Decide(d)
           \/ RejectReload \/ Retire
    PROVE  Ordered'
  <1>1. CASE \E d \in {"yes", "no"} : Decide(d)
    BY <1>1, OrderedAlone DEF Decide, reqVars, ctlVars
  <1>2. CASE RejectReload \/ Retire
    BY <1>2, OrderedAlone DEF RejectReload, Retire, reqVars, ctlVars
  <1> QED BY <1>1, <1>2, OrderedReserve, OrderedPush

(* A request that waits its turn goes behind every forget there is. *)
LEMMA QueueGrows ==
    ASSUME Ordered, NEW r \in Requests, kind \in [Requests -> Kinds], queued' = Enqueued(r), UNCHANGED forgot
    PROVE  /\ queued' \in Seq(Work) /\ Len(queued') \in Nat /\ Len(queued) <= Len(queued')
           /\ \A i \in 1..Len(queued') :
                 \/ /\ i \in 1..Len(queued) /\ queued'[i] = queued[i]
                 \/ /\ queued'[i].kind = kind[r] /\ r \in queued'[i].reqs /\ i = Len(queued')
                    /\ \/ i = Len(queued) + 1 /\ queued'[i].reqs = {r}
                       \/ /\ i = Len(queued) /\ queued[i].kind = "force" /\ kind[r] = "force"
                          /\ queued'[i].reqs = queued[i].reqs \cup {r}
           /\ \A f : \A n \in 1..Len(queued) : QueuedUpTo(f, n) => QueuedUpTo(f, n)'
           /\ \E i \in 1..Len(queued') : queued'[i].kind = kind[r] /\ r \in queued'[i].reqs
  <1>1. queued \in Seq(Work) /\ Len(queued) \in Nat BY DEF Ordered, Channels
  <1>2. kind[r] \in Kinds BY DEF Kinds
  <1>3. CASE kind[r] = "force" /\ queued # <<>> /\ queued[Len(queued)].kind = "force"
    <2> DEFINE n == Len(queued)
    <2>1. n \in 1..Len(queued) BY <1>1, <1>3
    <2>2. queued[n] \in Work /\ queued[n].reqs \in SUBSET Requests BY <2>1, WorkQueued
    <2> DEFINE w == [queued[n] EXCEPT !.reqs = @ \cup {r}]
    <2>3. w \in Work /\ w.kind = "force" /\ w.reqs = queued[n].reqs \cup {r}
      BY <1>3, <2>2 DEF Work, Kinds
    <2>4. queued' = [queued EXCEPT ![n] = w] BY <1>3 DEF Enqueued
    <2> HIDE DEF w, n
    <2>5. queued' \in Seq(Work) /\ Len(queued') = Len(queued) BY <1>1, <2>1, <2>3, <2>4
    <2>6. queued'[n] = w /\ \A i \in 1..Len(queued) : i # n => queued'[i] = queued[i]
      BY <1>1, <2>1, <2>4
    <2>7. \A f : \A m \in 1..Len(queued) : QueuedUpTo(f, m) => QueuedUpTo(f, m)'
      BY <1>3, <2>3, <2>5, <2>6 DEF QueuedUpTo, n
    <2> QED BY <1>1, <1>3, <2>1, <2>3, <2>5, <2>6, <2>7 DEF n
  <1>4. CASE ~(kind[r] = "force" /\ queued # <<>> /\ queued[Len(queued)].kind = "force")
    <2> DEFINE w == [kind |-> kind[r], reqs |-> {r}]
    <2>1. w \in Work /\ w.kind = kind[r] /\ w.reqs = {r} BY <1>2 DEF Work
    <2>2. queued' = Append(queued, w) BY <1>4 DEF Enqueued
    <2> HIDE DEF w
    <2>3. /\ queued' \in Seq(Work) /\ Len(queued') = Len(queued) + 1
          /\ queued'[Len(queued) + 1] = w
          /\ \A i \in 1..Len(queued) : queued'[i] = queued[i]
      BY <1>1, <2>1, <2>2
    <2>4. \A f : \A m \in 1..Len(queued) : QueuedUpTo(f, m) => QueuedUpTo(f, m)'
      BY <1>1, <2>3 DEF QueuedUpTo
    <2> QED BY <1>1, <2>1, <2>3, <2>4
  <1> QED BY <1>3, <1>4

LEMMA OrderedEnqueue ==
    ASSUME Flat, Ordered, NEW r \in Requests, Take(r), queued' = Enqueued(r),
           stage' = [stage EXCEPT ![r] = "taken"], UNCHANGED <<kind, after, intake, active, forgot>>
    PROVE  Ordered'
  <1>1. kind \in [Requests -> Kinds] BY DEF Flat, FlatTypes
  <1> DEFINE n == Len(queued)  m == Len(queued')
  <1>2. n \in Nat /\ m \in Nat /\ n <= m /\ queued' \in Seq(Work) BY <1>1, QueueGrows DEF Ordered, Channels
  <1>3. \A f : \A i \in 0..n : Ahead(f, i) => Ahead(f, i)'
    BY <1>1, <1>2, QueueGrows DEF Ahead, QueuedUpTo
  <1>4. PICK k \in Nat : k = n BY <1>2
  <1>5. \A f : Ahead(f, k)' => Ahead(f, Len(queued))'
    BY <1>2, <1>4 DEF Ahead, QueuedUpTo
  <1>6. \A f : Ahead(f, n) => Ahead(f, Len(queued))'
    BY <1>3, <1>4, <1>5
  <1>7. /\ r = buf[1] /\ 1 \in 1..Len(buf) /\ intake = "open" /\ buf' \in Seq(Requests)
        /\ \A i \in 1..Len(buf') : i + 1 \in 1..Len(buf) /\ buf'[i] = buf[i + 1]
    BY HeadOfIntake DEF Ordered, Channels
  <1>8. \A i \in 1..Len(buf') : buf'[i] \in Requests BY <1>7
  <1>9. \A o \in Requests : /\ stage'[o] = "none" => stage[o] = "none"
                            /\ stage'[o] = "permit" => stage[o] = "permit"
                            /\ o # r => stage'[o] = stage[o]
        /\ stage'[r] = "taken"
    BY DEF Flat, FlatTypes
  <1>10. \A i \in 1..n : queued[i].reqs \in SUBSET Requests BY WorkQueued
  <1>11. Channels'
    <2>1. \A i \in 1..Len(buf') : stage'[buf'[i]] # "none"
      BY <1>7, <1>8, <1>9 DEF Ordered, Channels
    <2>2. \A i \in 1..m : \A o \in queued'[i].reqs : stage'[o] # "none" /\ kind[o] = queued'[i].kind
      <3> SUFFICES ASSUME NEW i \in 1..m, NEW o \in queued'[i].reqs
                   PROVE  stage'[o] # "none" /\ kind[o] = queued'[i].kind
        OBVIOUS
      <3>1. \/ i \in 1..n /\ o \in queued[i].reqs /\ queued'[i].kind = queued[i].kind
            \/ o = r /\ queued'[i].kind = kind[r]
        BY <1>1, QueueGrows
      <3>2. CASE i \in 1..n /\ o \in queued[i].reqs /\ queued'[i].kind = queued[i].kind
        BY <1>9, <1>10, <3>2 DEF Ordered, Channels
      <3> QED BY <1>9, <3>1, <3>2
    <2> QED BY <1>2, <1>7, <2>1, <2>2 DEF Channels
  <1>12. \A f \in after[r] : Ahead(f, n) BY <1>7 DEF Ordered, IntakeOrder
  <1>13. QueueOrder'
    <2> SUFFICES ASSUME NEW i \in 1..m, NEW o \in queued'[i].reqs, NEW f \in after[o]
                 PROVE  Ahead(f, i - 1)'
      BY DEF QueueOrder
    <2>1. CASE i \in 1..n /\ o \in queued[i].reqs
      <3>1. Ahead(f, i - 1) BY <2>1 DEF Ordered, QueueOrder
      <3> QED BY <1>2, <1>3, <2>1, <3>1
    <2>2. CASE o = r /\ i = n + 1
      BY <1>2, <1>3, <1>12, <2>2
    <2>3. CASE o = r /\ i = n /\ queued[n].kind = "force" /\ n \in 1..n
      <3>1. Ahead(f, n - 1) BY <1>2, <1>12, <2>3 DEF Ahead, QueuedUpTo
      <3> QED BY <1>2, <1>3, <2>3, <3>1
    <2> QED BY <1>1, <1>2, <2>1, <2>2, <2>3, QueueGrows
  <1>14. IntakeOrder'
    <2>1. \A i \in 1..Len(buf') : \A f \in after[buf'[i]] : Ahead(f, n)
      BY <1>7 DEF Ordered, IntakeOrder
    <2>2. \A o \in Requests : stage'[o] = "permit" => \A f \in after[o] : Ahead(f, n)
      BY <1>7, <1>9 DEF Ordered, IntakeOrder
    <2>3. \A f \in Acknowledged' : f \in Acknowledged \/ (f = r /\ kind[r] = "forget")
      BY <1>9 DEF Acknowledged
    <2>4. \A f \in Acknowledged : Ahead(f, n) BY <1>7 DEF Ordered, IntakeOrder
    <2>5. kind[r] = "forget" => Ahead(r, Len(queued))'
      BY <1>1, QueueGrows DEF Ahead, QueuedUpTo
    <2> QED BY <1>6, <2>1, <2>2, <2>3, <2>4, <2>5 DEF IntakeOrder
  <1>15. ServedOrder' BY DEF Ordered, ServedOrder
  <1> QED BY <1>11, <1>13, <1>14, <1>15 DEF Ordered

LEMMA OrderedActive ==
    ASSUME Flat, Ordered, NEW r \in Requests, accept_while_active(r)
    PROVE  Ordered'
  <1>1. CASE ~Joins(r)
    BY <1>1, OrderedEnqueue DEF accept_while_active
  <1>2. CASE Joins(r)
    <2>1. /\ queued = <<>> /\ active.mode # "none" /\ kind[r] = "force"
          /\ active' = [active EXCEPT !.waiting = @ \cup {r}]
          /\ stage' = [stage EXCEPT ![r] = "taken"]
          /\ UNCHANGED <<kind, after, intake, forgot, queued>> /\ Take(r)
      BY <1>2 DEF accept_while_active, Joins
    <2>2. /\ active'.waiting = active.waiting \cup {r} /\ active'.seen = active.seen
          /\ active'.mode = active.mode
      BY <2>1 DEF Flat, FlatTypes
    <2>3. /\ r = buf[1] /\ 1 \in 1..Len(buf) /\ intake = "open" /\ buf' \in Seq(Requests)
          /\ \A i \in 1..Len(buf') : i + 1 \in 1..Len(buf) /\ buf'[i] = buf[i + 1]
      BY <2>1, HeadOfIntake DEF Ordered, Channels
    <2>4. \A i \in 1..Len(buf') : buf'[i] \in Requests BY <2>3
    <2>5. \A f, n : Ahead(f, n)' <=> Ahead(f, n) BY <2>1 DEF Ahead, QueuedUpTo
    <2>6. \A o \in Requests : /\ stage'[o] = "none" => stage[o] = "none"
                              /\ stage'[o] = "permit" => stage[o] = "permit"
                              /\ o # r => stage'[o] = stage[o]
      BY <2>1 DEF Flat, FlatTypes
    <2>7. Acknowledged' \subseteq Acknowledged BY <2>1, <2>6 DEF Acknowledged
    <2>8. \A f \in after[r] : f \in forgot
      BY <2>1, <2>3 DEF Ordered, IntakeOrder, Ahead, QueuedUpTo
    <2>9. Channels' BY <2>1, <2>3, <2>4, <2>6 DEF Ordered, Channels
    <2>10. QueueOrder' BY <2>1 DEF QueueOrder
    <2>11. IntakeOrder' BY <2>1, <2>3, <2>5, <2>6, <2>7 DEF Ordered, IntakeOrder
    <2>12. ServedOrder' BY <2>1, <2>2, <2>8 DEF Ordered, ServedOrder
    <2> QED BY <2>9, <2>10, <2>11, <2>12 DEF Ordered
  <1> QED BY <1>1, <1>2

(* With nothing in the queue every forget that matters is done. *)
LEMMA OrderedIdle ==
    ASSUME Flat, Ordered, NEW r \in Requests, accept_when_idle(r)
    PROVE  Ordered'
  <1> USE DEF accept_when_idle
  <1>1. /\ queued = <<>> /\ queued' = <<>> /\ active.mode = "none" /\ Take(r)
        /\ UNCHANGED <<kind, after, intake>>
    BY DEF Idle
  <1>2. /\ r = buf[1] /\ 1 \in 1..Len(buf) /\ intake = "open" /\ buf' \in Seq(Requests)
        /\ \A i \in 1..Len(buf') : i + 1 \in 1..Len(buf) /\ buf'[i] = buf[i + 1]
    BY <1>1, HeadOfIntake DEF Ordered, Channels
  <1>3. \A i \in 1..Len(buf') : buf'[i] \in Requests BY <1>2
  <1>4. /\ \A f : Ahead(f, Len(queued)) => f \in forgot
        /\ \A f : f \in forgot' => Ahead(f, Len(queued))'
    BY <1>1 DEF Ahead, QueuedUpTo
  <1>5. \A o \in Requests : /\ stage'[o] = "none" => stage[o] = "none"
                            /\ stage'[o] = "permit" => stage[o] = "permit"
                            /\ o # r => stage'[o] = stage[o]
    BY DEF Perform, Flat, FlatTypes
  <1>6. forgot \subseteq forgot' /\ (kind[r] = "forget" => r \in forgot')
    BY DEF Perform
  <1>7. \A f \in Acknowledged' : f \in Acknowledged \/ (f = r /\ kind[r] = "forget")
    BY <1>1, <1>5 DEF Acknowledged
  <1> HIDE DEF accept_when_idle
  <1>8. /\ \A i \in 1..Len(buf) : \A f \in after[buf[i]] : f \in forgot
        /\ \A o \in Requests : stage[o] = "permit" => \A f \in after[o] : f \in forgot
        /\ \A f \in Acknowledged : f \in forgot
    <2>1. IntakeOrder BY DEF Ordered
    <2>2. \A f : Ahead(f, Len(queued)) => f \in forgot BY <1>4
    <2> QED BY <1>2, <2>1, <2>2 DEF IntakeOrder
  <1>9. Channels' BY <1>1, <1>2, <1>3, <1>5 DEF Ordered, Channels
  <1>10. QueueOrder' BY <1>1 DEF QueueOrder
  <1>11. IntakeOrder'
    <2>1. \A i \in 1..Len(buf') : \A f \in after[buf'[i]] : f \in forgot' BY <1>2, <1>6, <1>8
    <2>2. \A o \in Requests : stage'[o] = "permit" => \A f \in after[o] : f \in forgot'
      BY <1>5, <1>6, <1>8
    <2>3. \A f \in Acknowledged' : f \in forgot' BY <1>6, <1>7, <1>8
    <2>4. \A f \in forgot' : Ahead(f, Len(queued))' BY <1>4
    <2>5. after' = after BY <1>1
    <2> QED BY <2>1, <2>2, <2>3, <2>4, <2>5 DEF IntakeOrder
  <1>12. ServedOrder'
    <2> USE DEF accept_when_idle
    <2>1. CASE kind[r] = "force"
      <3>1. active'.waiting = {r} /\ active'.seen = forgot /\ forgot' = forgot
        BY <2>1 DEF Perform, start_refresh_worker
      <3> QED BY <1>1, <1>2, <1>8, <3>1 DEF ServedOrder
    <2>2. CASE kind[r] # "force"
      BY <1>1, <2>2 DEF Perform, Ordered, ServedOrder
    <2> QED BY <2>1, <2>2
  <1> QED BY <1>9, <1>10, <1>11, <1>12 DEF Ordered

(* The front of the queue is performed, and the rest moves up. *)
LEMMA OrderedDispatch ==
    ASSUME Flat, Ordered, Dispatch
    PROVE  Ordered'
  <1> DEFINE w == queued[1]
  <1>1. /\ queued # <<>> /\ queued' = Tail(queued) /\ active.mode = "none"
        /\ UNCHANGED <<kind, after, intake, buf>>
    BY DEF Dispatch, Idle
  <1>2. /\ w.kind \in Kinds /\ w.reqs \in SUBSET Requests /\ 1 \in 1..Len(queued)
        /\ \A r \in w.reqs : kind[r] = w.kind
        /\ Len(queued') = Len(queued) - 1 /\ queued' \in Seq(Work) /\ Len(queued) \in Nat
        /\ \A i \in 1..Len(queued') : i + 1 \in 1..Len(queued) /\ queued'[i] = queued[i + 1]
    BY <1>1, HeadOfQueue DEF Ordered, Channels
  <1>3. Perform(w.kind, w.reqs) BY <1>1, HeadOfQueue DEF Dispatch
  <1> HIDE DEF w
  <1>4. \A o \in Requests : /\ stage'[o] = "none" => stage[o] = "none"
                            /\ stage'[o] = "permit" => stage[o] = "permit"
                            /\ o \notin w.reqs => stage'[o] = stage[o]
    BY <1>2, <1>3 DEF Perform, Flat, FlatTypes
  <1>5. forgot \subseteq forgot' /\ (w.kind = "forget" => w.reqs \subseteq forgot')
    BY <1>3 DEF Perform
  <1>6. \A f : \A n \in 1..Len(queued) : Ahead(f, n) => Ahead(f, n - 1)'
    <2> SUFFICES ASSUME NEW f, NEW n \in 1..Len(queued), Ahead(f, n), f \notin forgot'
                 PROVE  \E j \in 1..n - 1 : queued'[j].kind = "forget" /\ f \in queued'[j].reqs
      BY DEF Ahead, QueuedUpTo
    <2>1. PICK j \in 1..n : queued[j].kind = "forget" /\ f \in queued[j].reqs
      BY <1>5 DEF Ahead, QueuedUpTo
    <2>2. j # 1 BY <1>5, <2>1 DEF w
    <2>3. j - 1 \in 1..Len(queued') /\ j - 1 \in 1..n - 1 /\ (j - 1) + 1 = j BY <1>2, <2>1, <2>2
    <2>4. queued'[j - 1] = queued[j] BY <1>2, <2>3
    <2> QED BY <2>1, <2>3, <2>4
  <1>7. Acknowledged' \subseteq Acknowledged \cup forgot'
    BY <1>1, <1>2, <1>3, <1>4 DEF Acknowledged, Perform
  <1>8. \A f : Ahead(f, Len(queued)) => Ahead(f, Len(queued))'
    <2>1. PICK k \in Nat : k = Len(queued) /\ k \in 1..Len(queued) /\ Len(queued') = k - 1
      BY <1>2
    <2>2. \A f : Ahead(f, k) => Ahead(f, k - 1)' BY <1>6, <2>1
    <2>3. \A f : Ahead(f, k - 1)' => Ahead(f, Len(queued))' BY <2>1 DEF Ahead, QueuedUpTo
    <2> QED BY <2>1, <2>2, <2>3
  <1>9. \A i \in 1..Len(queued) : queued[i].reqs \in SUBSET Requests BY WorkQueued
  <1>10. \A i \in 1..Len(buf) : buf[i] \in Requests BY DEF Ordered, Channels
  <1>11. Channels' BY <1>1, <1>2, <1>4, <1>9, <1>10 DEF Ordered, Channels
  <1>12. QueueOrder'
    <2> SUFFICES ASSUME NEW i \in 1..Len(queued'), NEW o \in queued'[i].reqs, NEW f \in after[o]
                 PROVE  Ahead(f, i - 1)'
      BY <1>1 DEF QueueOrder
    <2>1. i + 1 \in 1..Len(queued) /\ i \in 1..Len(queued) /\ (i + 1) - 1 = i /\ o \in queued[i + 1].reqs
      BY <1>2
    <2>2. Ahead(f, i) BY <2>1 DEF Ordered, QueueOrder
    <2> QED BY <1>6, <2>1, <2>2
  <1>13. IntakeOrder'
    <2>1. \A f \in forgot' : Ahead(f, Len(queued))' BY DEF Ahead
    <2> QED BY <1>1, <1>4, <1>7, <1>8, <2>1 DEF Ordered, IntakeOrder
  <1>14. ServedOrder'
    <2>1. CASE w.kind = "force"
      <3>1. active'.waiting = w.reqs /\ active'.seen = forgot /\ forgot' = forgot
        BY <1>3, <2>1 DEF Perform, start_refresh_worker
      <3>2. \A r \in w.reqs : \A f \in after[r] : Ahead(f, 1 - 1)
        BY <1>2 DEF Ordered, QueueOrder, w
      <3>3. \A r \in w.reqs : after[r] \subseteq forgot
        BY <3>2 DEF Ahead, QueuedUpTo
      <3> QED BY <1>1, <3>1, <3>3 DEF ServedOrder
    <2>2. CASE w.kind # "force"
      BY <1>1, <1>3, <2>2 DEF Perform, Ordered, ServedOrder
    <2> QED BY <2>1, <2>2
  <1> QED BY <1>11, <1>12, <1>13, <1>14 DEF Ordered

LEMMA OrderedController ==
    ASSUME Flat, Ordered, ControllerSteps \/ Deadline \/ RebindPanics
    PROVE  Ordered'
  <1>1. ASSUME NEW r \in Requests, AcceptInRebind(r) PROVE Ordered'
    BY <1>1, OrderedEnqueue DEF AcceptInRebind
  <1>2. CASE BeginRetiring
    BY <1>2, OrderedEnded DEF BeginRetiring
  <1>3. CASE Completed
    <2>1. \A r \in active.waiting : kind[r] = "force" BY DEF Flat, Covered
    <2> QED BY <1>3, <2>1, OrderedAlone DEF Completed, Joined
  <1>4. CASE WasCancelled
    BY <1>4, OrderedAlone DEF WasCancelled, Joined
  <1>5. CASE WorkerLost
    BY <1>5, OrderedEnded DEF WorkerLost, Joined
  <1>6. CASE Prepared
    BY <1>6, OrderedAlone DEF Prepared, reqVars
  <1>7. CASE NotPrepared \/ RebindCommitted
    <2>1. rebind \in Requests /\ kind[rebind] = "rebind"
      BY <1>7 DEF NotPrepared, RebindCommitted, Flat, Control
    <2>2. \A r \in Requests : stage'[r] = stage[r] \/ (stage'[r] = "answered" /\ kind[r] = "rebind")
      BY <1>7, <2>1 DEF NotPrepared, RebindCommitted, EndRebind, Flat, FlatTypes
    <2> QED BY <1>7, <2>2, OrderedAlone DEF NotPrepared, RebindCommitted
  <1>8. CASE RebindDecided
    <2>1. \A r \in Requests : stage'[r] = stage[r] \/ stage'[r] = "dropped"
      BY <1>8 DEF RebindDecided, EndRebind, Flat, FlatTypes
    <2> QED BY <1>8, <2>1, OrderedAlone DEF RebindDecided
  <1>9. CASE RetireInRebind \/ RebindPanics
    BY <1>9, OrderedEnded DEF RetireInRebind, RebindPanics, LeaveInRebind
  <1>10. CASE Deadline
    <2>1. /\ active'.waiting = {} /\ active'.seen = forgot /\ forgot' = forgot
          /\ UNCHANGED <<reqVars, intake, buf, queued>>
      BY <1>10 DEF Deadline, start_refresh_worker
    <2>2. \A f, n : Ahead(f, n)' <=> Ahead(f, n) BY <2>1 DEF Ahead, QueuedUpTo
    <2>3. Acknowledged' = Acknowledged BY <2>1 DEF Acknowledged, reqVars
    <2>4. ServedOrder' BY <2>1 DEF ServedOrder
    <2> QED BY <2>1, <2>2, <2>3, <2>4 DEF Ordered, Channels, QueueOrder, IntakeOrder, reqVars
  <1> QED
    BY <1>1, <1>2, <1>3, <1>4, <1>5, <1>6, <1>7, <1>8, <1>9, <1>10, OrderedActive, OrderedIdle,
       OrderedDispatch
    DEF ControllerSteps

LEMMA StepKeepsInv == ControllerInv /\ [Next]_vars => ControllerInv'
  <1> SUFFICES ASSUME Flat, Ordered, [Next]_vars PROVE Flat' /\ Ordered'
    BY DEF ControllerInv
  <1>1. CASE WorkerSteps \/ WorkerPanics BY <1>1, FlatWorker, OrderedWorker
  <1>2. CASE \/ \E r \in Requests : Reserve(r) \/ Push(r)
             \/ \E d \in {"yes", "no"} : Decide(d)
             \/ RejectReload \/ Retire
    BY <1>2, FlatClients, OrderedClients
  <1>3. CASE ControllerSteps \/ Deadline \/ RebindPanics BY <1>3, FlatController, OrderedController
  <1>4. CASE UNCHANGED vars
    <2> USE <1>4 DEF vars, reqVars, ctlVars, rebindVars, workVars, boundVars
    <2>1. Flat' BY DEF Flat, FlatTypes, Control, Phases, Intake, Covered
    <2>2. Ordered' BY OrderedAlone
    <2> QED BY <2>1, <2>2
  <1> QED BY <1>1, <1>2, <1>3, <1>4 DEF Next

-----------------------------------------------------------------------------
(* The controller, the worker's phase, the intake, and the order of        *)
(* forgets and refreshes agree in every reachable state                    *)
(* (list_manager_controller).                                              *)
THEOREM ControllerInvariant == Spec => []ControllerInv
  <1>1. Init => ControllerInv BY FlatInit, OrderedInit DEF ControllerInv
  <1> QED BY <1>1, StepKeepsInv, PTL DEF Spec

(* A worker that was cancelled has replaced no shard (begin_commit). *)
THEOREM CancelledIsHarmless == Spec => []CancelledLeavesCorpus
  <1>1. ControllerInv => CancelledLeavesCorpus
    BY DEF ControllerInv, Flat, Phases, CancelledLeavesCorpus
  <1> QED BY <1>1, ControllerInvariant, PTL

(* The worker never reaches the panic of a cancelled completion            *)
(* (spawn_list_refresh_worker).                                            *)
THEOREM CompletionStands == Spec => []CompletedIsNotCancelled
  <1>1. ControllerInv => CompletedIsNotCancelled
    BY DEF ControllerInv, Flat, Phases, CompletedIsNotCancelled
  <1> QED BY <1>1, ControllerInvariant, PTL

(* Nothing is published between the preparation and the commit of a rebind *)
(* (run_policy_rebind).                                                    *)
THEOREM RebindIsABarrier == Spec => []RebindBarrier
  <1>1. ControllerInv => RebindBarrier
    BY DEF ControllerInv, Flat, Control, RebindBarrier
  <1> QED BY <1>1, ControllerInvariant, PTL

(* A controller that has ended leaves no worker behind                     *)
(* (ListManagerTask::retire).                                              *)
THEOREM RetirementIsQuiet == Spec => []RetiredIsQuiet
  <1>1. ControllerInv => RetiredIsQuiet
    BY DEF ControllerInv, Flat, Control, RetiredIsQuiet, Running
  <1> QED BY <1>1, ControllerInvariant, PTL

(* A retirement strands no responder (drop_command_intake). *)
THEOREM RetirementStrandsNobody == Spec => []NobodyStranded
  <1>1. ControllerInv => NobodyStranded
    BY DEF ControllerInv, Flat, Intake, NobodyStranded
  <1> QED BY <1>1, ControllerInvariant, PTL

(* Only the join of a completed worker answers a force refresh. *)
LEMMA OnlyJoinAnswers ==
    ASSUME ControllerInv, [Next]_vars, NEW r \in Requests, Answered(r)
    PROVE  Completed /\ r \in active.waiting
  <1> USE DEF Answered, ControllerInv, Flat, FlatTypes
  <1>1. CASE WorkerSteps \/ WorkerPanics
    BY <1>1 DEF WorkerSteps, WorkerPanics, WorkerCancelled, WorkerStart, WorkerRefuses,
        WorkerPrepared, WorkerBuilds, WorkerDegrades, WorkerSwaps, WorkerSwapped, WorkerCommits,
        WorkerPublishes, WorkerReturns, reqVars
  <1>2. CASE \/ \E o \in Requests : Reserve(o) \/ Push(o)
             \/ \E d \in {"yes", "no"} : Decide(d)
             \/ RejectReload \/ Retire
    BY <1>2 DEF Reserve, Push, Decide, RejectReload, Retire, reqVars
  <1>3. ASSUME NEW o \in Requests, accept_while_active(o) \/ AcceptInRebind(o) PROVE FALSE
    BY <1>3 DEF accept_while_active, AcceptInRebind
  <1>4. ASSUME NEW o \in Requests, accept_when_idle(o) PROVE FALSE
    BY <1>4 DEF accept_when_idle, Perform
  <1>5. CASE Dispatch
    <2>1. Perform(Head(queued).kind, Head(queued).reqs) BY <1>5 DEF Dispatch
    <2>2. \A o \in Head(queued).reqs : kind[o] = Head(queued).kind
      BY <1>5, HeadOfQueue DEF Dispatch
    <2> QED BY <2>1, <2>2 DEF Perform
  <1>6. CASE Completed BY <1>6 DEF Completed
  <1>7. CASE BeginRetiring \/ WasCancelled \/ WorkerLost \/ Prepared \/ RetireInRebind
             \/ RebindPanics \/ Deadline
    BY <1>7 DEF BeginRetiring, WasCancelled, WorkerLost, Prepared, RetireInRebind, RebindPanics,
        Deadline, LeaveInRebind, Release, reqVars
  <1>8. CASE NotPrepared \/ RebindDecided \/ RebindCommitted
    <2>1. rebind \in Requests /\ kind[rebind] = "rebind"
      BY <1>8 DEF NotPrepared, RebindDecided, RebindCommitted, Control
    <2> QED BY <1>8, <2>1 DEF NotPrepared, RebindDecided, RebindCommitted, EndRebind
  <1>9. CASE UNCHANGED vars BY <1>9 DEF vars, reqVars
  <1> QED BY <1>1, <1>2, <1>3, <1>4, <1>5, <1>6, <1>7, <1>8, <1>9 DEF Next, ControllerSteps

(* A force refresh is answered with a snapshot recorded after it was sent, *)
(* whether it joined, coalesced or waited (accept_while_active).           *)
THEOREM SnapshotsAreNewer == Spec => AnsweredAfterwards
  <1>1. ControllerInv /\ [Next]_vars => [\A r \in Requests : Answered(r) => r \in covers]_vars
    BY OnlyJoinAnswers DEF ControllerInv, Flat, Covered, Completed, Joined
  <1> QED BY <1>1, ControllerInvariant, PTL DEF Spec, AnsweredAfterwards

(* No force refresh overtakes a forget that was acknowledged before it was *)
(* sent (accept_while_active).                                             *)
THEOREM ForgetsAreFirst == Spec => ForgetsComeFirst
  <1>1. ControllerInv /\ [Next]_vars
          => [\A r \in Requests : Answered(r) => after[r] \subseteq active.seen]_vars
    BY OnlyJoinAnswers DEF ControllerInv, Ordered, ServedOrder
  <1> QED BY <1>1, ControllerInvariant, PTL DEF Spec, ForgetsComeFirst

-----------------------------------------------------------------------------
(* The types the invariant has no use for. *)
RestTypes ==
    /\ retiring \in BOOLEAN /\ retireSent \in BOOLEAN
    /\ rebind \in Requests \cup {NoRequest} /\ decision \in {"open", "yes", "no"}
    /\ disturbed \in BOOLEAN
    /\ phase \in {"RUNNING", "CANCELLED", "COMMITTING"}
    /\ swapped \in BOOLEAN /\ covers \in SUBSET Requests

(* The worker is never at a shard past the last. *)
ShardTypes ==
    /\ shard \in 1..ShardCount + 1
    /\ pc \in {"start", "prepare", "build", "swap", "after"} => shard \in 1..ShardCount
    /\ scheduled \in 0..MaxScheduled /\ rejected \in 0..MaxRejected /\ panics \in 0..MaxPanics

Types == RestTypes /\ ShardTypes

LEMMA TypesFresh ==
    ASSUME RestTypes, ShardTypes, phase' = "RUNNING", shard' = 1, swapped' = FALSE, covers' = {},
           UNCHANGED <<retiring, retireSent, rebind, decision, disturbed>>,
           /\ scheduled' \in 0..MaxScheduled /\ rejected' \in 0..MaxRejected
           /\ panics' \in 0..MaxPanics
    PROVE  Types'
  <1>1. RestTypes'
    <2>1. swapped' \in BOOLEAN /\ covers' \in SUBSET Requests OBVIOUS
    <2> QED BY <2>1 DEF RestTypes
  <1>2. 1 \in 1..ShardCount /\ 1 \in 1..ShardCount + 1 BY ControllerAssumption
  <1>3. ShardTypes' BY <1>2 DEF ShardTypes
  <1> QED BY <1>1, <1>3 DEF Types

LEMMA TypesPerform ==
    ASSUME Types, NEW k \in Kinds, NEW reqs \in SUBSET Requests, Perform(k, reqs),
           UNCHANGED <<retiring, retireSent, boundVars>>
    PROVE  Types'
  <1> USE DEF Types, RestTypes, ShardTypes, rebindVars, workVars, boundVars, Perform, Kinds
  <1>1. CASE k = "forget" BY <1>1
  <1>2. CASE k = "force"
    <2>1. start_refresh_worker("force", reqs) /\ UNCHANGED rebindVars BY <1>2
    <2> QED BY <2>1, TypesFresh DEF start_refresh_worker
  <1>3. CASE k = "rebind" BY <1>3
  <1> QED BY <1>1, <1>2, <1>3

LEMMA TypesWorker ==
    ASSUME Types, WorkerSteps \/ WorkerPanics
    PROVE  Types'
  <1> USE ControllerAssumption DEF Types, RestTypes, ShardTypes, ctlVars, rebindVars, boundVars, Running
  <1>1. CASE WorkerCancelled BY <1>1 DEF WorkerCancelled
  <1>2. CASE WorkerStart BY <1>2 DEF WorkerStart
  <1>3. CASE WorkerRefuses BY <1>3 DEF WorkerRefuses, BeginCommit, Record
  <1>4. CASE WorkerPrepared BY <1>4 DEF WorkerPrepared
  <1>5. CASE WorkerBuilds BY <1>5 DEF WorkerBuilds
  <1>6. CASE WorkerDegrades BY <1>6 DEF WorkerDegrades, NextShard
  <1>7. CASE WorkerSwaps BY <1>7 DEF WorkerSwaps, BeginCommit
  <1>8. CASE WorkerSwapped BY <1>8 DEF WorkerSwapped, NextShard
  <1>9. CASE WorkerCommits BY <1>9 DEF WorkerCommits, BeginCommit
  <1>10. CASE WorkerPublishes BY <1>10 DEF WorkerPublishes, Record
  <1>11. CASE WorkerReturns BY <1>11 DEF WorkerReturns
  <1>12. CASE WorkerPanics BY <1>12 DEF WorkerPanics
  <1> QED
    BY <1>1, <1>2, <1>3, <1>4, <1>5, <1>6, <1>7, <1>8, <1>9, <1>10, <1>11, <1>12 DEF WorkerSteps

LEMMA TypesClients ==
    ASSUME Types,
           \/ \E r \in Requests : Reserve(r) \/ Push(r)
           \/ \E d \in {"yes", "no"} : Decide(d)
           \/ RejectReload \/ Retire
    PROVE  Types'
  <1> USE ControllerAssumption DEF Types, RestTypes, ShardTypes, ctlVars, rebindVars, workVars, boundVars
  <1>1. ASSUME NEW r \in Requests, Reserve(r) \/ Push(r) PROVE Types'
    BY <1>1 DEF Reserve, Push
  <1>2. ASSUME NEW d \in {"yes", "no"}, Decide(d) PROVE Types'
    BY <1>2 DEF Decide
  <1>3. CASE RejectReload BY <1>3 DEF RejectReload
  <1>4. CASE Retire BY <1>4 DEF Retire
  <1> QED BY <1>1, <1>2, <1>3, <1>4

LEMMA TypesController ==
    ASSUME Types, Flat, Ordered, ControllerSteps \/ Deadline \/ RebindPanics
    PROVE  Types'
  <1> USE ControllerAssumption
      DEF Types, RestTypes, ShardTypes, ctlVars, rebindVars, workVars, boundVars
  <1>1. ASSUME NEW r \in Requests, accept_while_active(r) \/ AcceptInRebind(r) PROVE Types'
    BY <1>1 DEF accept_while_active, AcceptInRebind
  <1>2. ASSUME NEW r \in Requests, accept_when_idle(r) PROVE Types'
    BY <1>2, TypesPerform DEF accept_when_idle, Flat, FlatTypes
  <1>3. CASE Dispatch
    <2>1. Head(queued).reqs \in SUBSET Requests /\ Head(queued).kind \in Kinds
      BY <1>3, HeadOfQueue DEF Dispatch
    <2> QED BY <1>3, <2>1, TypesPerform DEF Dispatch
  <1>4. CASE BeginRetiring BY <1>4 DEF BeginRetiring, Release, Return
  <1>5. CASE Completed \/ WasCancelled \/ WorkerLost
    BY <1>5, TypesFresh DEF Completed, WasCancelled, WorkerLost, Joined
  <1>6. CASE Prepared \/ NotPrepared BY <1>6 DEF Prepared, NotPrepared, EndRebind
  <1>7. CASE RebindDecided \/ RebindCommitted
    BY <1>7 DEF RebindDecided, RebindCommitted, EndRebind
  <1>8. CASE RetireInRebind \/ RebindPanics
    BY <1>8 DEF RetireInRebind, RebindPanics, LeaveInRebind
  <1>9. CASE Deadline
    <2>1. scheduled' \in 0..MaxScheduled /\ UNCHANGED <<rejected, panics>> BY <1>9 DEF Deadline
    <2> QED BY <1>9, <2>1, TypesFresh DEF Deadline, start_refresh_worker
  <1> QED BY <1>1, <1>2, <1>3, <1>4, <1>5, <1>6, <1>7, <1>8, <1>9 DEF ControllerSteps

(* Every request, queue, phase, shard and program counter is well formed,  *)
(* and the worker never builds a shard past the last                       *)
(* (list_manager_controller, spawn_list_refresh_worker).                   *)
THEOREM ControllerTypes == Spec => []TypeOK
  <1>1. Init => Types
    <2> SUFFICES ASSUME Init PROVE RestTypes /\ ShardTypes BY DEF Types
    <2>1. RestTypes BY DEF Init, RestTypes
    <2>2. ShardTypes BY ControllerAssumption DEF Init, ShardTypes
    <2> QED BY <2>1, <2>2
  <1>2. ControllerInv /\ Types /\ [Next]_vars => Types'
    <2> SUFFICES ASSUME Flat, Ordered, Types, [Next]_vars PROVE Types' BY DEF ControllerInv
    <2>1. CASE UNCHANGED vars
      BY <2>1 DEF Types, RestTypes, ShardTypes, vars, ctlVars, rebindVars, workVars, boundVars
    <2> QED BY <2>1, TypesWorker, TypesClients, TypesController DEF Next
  <1>3. ControllerInv /\ Types => TypeOK
    BY DEF ControllerInv, Flat, FlatTypes, Control, Ordered, Channels, Types, RestTypes, ShardTypes, TypeOK
  <1> QED BY <1>1, <1>2, <1>3, ControllerInvariant, PTL DEF Spec
=============================================================================
