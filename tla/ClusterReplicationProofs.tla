---------------------- MODULE ClusterReplicationProofs ----------------------
(***************************************************************************)
(* The safety of ClusterReplication for every set of policies, requests    *)
(* and objects and every bound: a node is never ahead of what is           *)
(* advertised, what is published was the primary's policy, promises are    *)
(* kept, and convergence is reported only when it is so.                   *)
(***************************************************************************)
EXTENDS ClusterReplication, FiniteSetTheorems, NaturalsInduction, TLAPS

USE ConstantsAssumption, NoneAssumption

JobSteps == {"idle", "allocate", "write", "record", "prepare", "commit", "finalize", "collect"}
Draft    == {"allocate", "write", "record"}
Bound    == {"prepare", "commit", "finalize"}
Fetching == {"manifest", "objects", "prepare", "commit", "complete"}
Talking  == {"idle", "looked", "asked", "activate"}
States   == {"none", "prepared", "committed", "aborted"}
AllObjects == UNION {Objects[r] : r \in Revs}

TypeOK ==
    /\ up \in BOOLEAN /\ tree \in Revs /\ stamp \in Nat /\ was \in SUBSET Revs
    /\ receipts \in [Requests -> States]
    /\ high \in 0..MaxEpoch /\ clock \in Nat
    /\ recs \in [Epochs -> Records \cup {None}]
    /\ job \in [at : JobSteps, kind : {"none", "batch", "capture"}, req : Requests \cup {None},
                rev : Revs \cup {None}, proof : Nat]
    /\ rel \in [at : {"idle", "captured", "prepared", "installed"}, rev : Revs \cup {None},
                epoch : 0..MaxEpoch]
    /\ adv \in Artifacts \cup {None} /\ ack \in Artifacts \cup {None}
    /\ ledger \in Artifacts \cup {None} /\ pending \in Artifacts \cup {None}
    /\ ntree \in Revs \cup {None} /\ nactive \in Revs \cup {None} /\ nrel \in Revs \cup {None}
    /\ nreceipt \in States
    /\ poll \in [at : Fetching \cup Talking, want : Artifacts \cup {None},
                 got : SUBSET AllObjects]
    /\ promised \in [Epochs -> Nat]

\* What the holder of the write lock relies on from one write to the next.
JobInv ==
    /\ ~up => job.at = "idle" /\ rel.at = "idle"
    /\ job.at = "allocate" => high < MaxEpoch
    /\ job.at \in {"write", "record"} \cup Bound => high \in Epochs
    /\ job.at \in Draft => job.kind \in {"batch", "capture"} /\ job.rev \in Revs
    /\ job.at \in Draft /\ job.kind = "capture" => rel.at = "captured" /\ job.rev = rel.rev
    /\ job.at = "collect" => rel.at = "captured" /\ rel.epoch \in Epochs
    /\ job.at \in Bound => job.kind = "batch"
    /\ job.kind = "batch" => job.req \in Requests /\ job.rev = Target[job.req]
    /\ job.kind = "batch" /\ job.at \in Draft \cup {"prepare"} => Prepared = {}
    /\ job.at = "commit" => receipts[job.req] = "prepared"
    /\ job.at = "finalize" => receipts[job.req] = "committed"
    /\ job.at \in Bound => recs[high] = Rec(job.rev, job.req, job.proof, 0)
    /\ rel.at # "idle" => rel.rev \in Revs
    /\ rel.at \in {"prepared", "installed"} => rel.epoch \in Epochs

\* The store: epochs are given out once, an uncommitted record is an intent
\* for its request's policy, and every file a record names is there.
StoreInv ==
    /\ \A e \in Held(recs) :
          /\ e <= high
          /\ recs[e].until = 0 =>
                recs[e].intent \in Requests /\ recs[e].rev = Target[recs[e].intent]
          /\ FilesOf(e, recs[e].rev) \subseteq files
    /\ job.at \in {"write", "record"} => \A e \in Held(recs) : e # high
    /\ job.at = "record" => FilesOf(high, job.rev) \subseteq files

\* Only policies the tree has had are captured, committed and followed.
WasInv ==
    /\ tree \in was
    /\ \A r, q \in Requests : receipts[r] = "prepared" /\ receipts[q] = "prepared" => r = q
    /\ \A r \in Requests : receipts[r] = "committed" => Target[r] \in was
    /\ \A e \in Committed(recs) : recs[e].rev \in was
    /\ rel.at # "idle" => rel.rev \in was
    /\ \A a \in {adv, pending} : a # None => a.rev \in was
    /\ poll.at \in Fetching => poll.want # None /\ poll.want.rev \in was
    /\ ntree # None => ntree \in was

PromiseInv ==
    \A e \in Epochs : promised[e] > clock =>
        e \in Committed(recs) /\ recs[e].until >= promised[e]

\* a is b or was published before it.
UpTo(a, b) == a = b \/ a.epoch < b.epoch

\* a was published: it, or something newer, still is.
Passed(a, rs) == \E e \in Committed(rs) : UpTo(a, Artifact(e, rs[e].rev))

\* What is on its way to the node or with it.
Followed == {ledger, pending, IF poll.at \in Fetching THEN poll.want ELSE None} \ {None}

RelReady    == rel.at \in {"prepared", "installed"} \/ job.at = "collect"
RelArtifact == Artifact(rel.epoch, rel.rev)

\* Epochs reach the node in the order in which they were given out.
OrderInv ==
    /\ \A a \in Followed \cup ({adv} \ {None}) : Passed(a, recs)
    /\ adv # None => \A a \in Followed : UpTo(a, adv)
    /\ RelReady =>
          /\ Passed(RelArtifact, recs)
          /\ \A a \in Followed \cup ({adv} \ {None}) : UpTo(a, RelArtifact)

\* The node's disk follows its receipt; what it last acknowledged is what it
\* has, or an older artifact than the one it owns.
Undecided == pending = None \/ nreceipt # "committed"

Owns(a) ==
    \/ ledger # None /\ a.epoch < ledger.epoch
    \/ ledger = a /\ (pending # None => a.epoch < pending.epoch)

Applying == poll.at \in {"prepare", "commit", "complete"}

NodeInv ==
    /\ nreceipt \in {"prepared", "committed"} => pending # None
    /\ Applying => pending # None
    /\ poll.at \in {"asked", "manifest", "objects", "activate"} => pending = None
    /\ poll.at = "prepare" => nreceipt = "none"
    /\ poll.at = "commit" => nreceipt = "prepared"
    /\ poll.at = "complete" => nreceipt = "committed"
    /\ pending # None /\ ledger # None => ledger.epoch < pending.epoch
    /\ ledger # None /\ Undecided => ntree = ledger.rev
    /\ pending # None /\ nreceipt = "committed" => ntree = pending.rev
    /\ ack # None => Owns(ack)
    /\ poll.at = "asked" /\ poll.want # None => Owns(poll.want)

\* What the node has said of its resolver is so, or is marked as stale.
SaidInv ==
    /\ ack # None /\ "ack" \notin stale => nactive = ack.rev
    /\ poll.at = "looked" /\ "poll" \notin stale => saw = nactive
    /\ poll.at = "asked" /\ poll.want # None /\ "poll" \notin stale => nactive = poll.want.rev

\* As long as nothing has failed, a reload is on its way that captures the
\* tree as it is, whenever the resolver, or the capture of the reload under
\* way, is of another revision.
Requested == nasked \/ poll.at \in {"complete", "activate"}

RepairInv ==
    /\ faults \in Nat
    /\ faults = 0 =>
          /\ pending # None => Applying
          /\ nactive # ntree => Requested \/ nrel = ntree
          /\ nrel # None /\ nrel # ntree => Requested

IInv ==
    /\ TypeOK /\ JobInv /\ StoreInv /\ WasInv /\ PromiseInv /\ OrderInv /\ NodeInv
    /\ SaidInv /\ RepairInv

-----------------------------------------------------------------------------
(* What the operators of the store keep.                                   *)

Stores == [Epochs -> Records \cup {None}]

\* rt holds nothing that rs does not, under the same revision.
Thins(rs, rt) ==
    \A e \in Epochs : rt[e] # None =>
        /\ rs[e] # None /\ rt[e].rev = rs[e].rev
        /\ rt[e].until = 0 => rt[e] = rs[e]

\* For what is committed in rs, it or something newer is committed in rt.
Keeps(rs, rt) == \A e \in Committed(rs) : \E f \in Committed(rt) : f >= e

\* A set of epochs that is not empty has a newest member.
LEMMA NewestExists ==
    ASSUME NEW S \in SUBSET Epochs, S # {}
    PROVE  \E m \in S : \A f \in S : f <= m
<1> DEFINE T == {MaxEpoch - e : e \in S}
<1>1. T \subseteq Nat BY DEF Epochs
<1>2. T # {} OBVIOUS
<1>3. IsWellFoundedOn(OpToRel(<, Nat), Nat) BY NatLessThanWellFounded
<1> HIDE DEF T
<1>4. PICK x \in T : \A y \in T : ~(<<y, x>> \in OpToRel(<, Nat))
  BY <1>1, <1>2, <1>3, WFMin
<1>5. \A y \in T : x <= y
  <2> SUFFICES ASSUME NEW y \in T, ~(x <= y) PROVE FALSE OBVIOUS
  <2>1. x \in Nat /\ y \in Nat /\ y < x BY <1>1
  <2>2. <<y, x>> \in {ss \in Nat \X Nat : ss[1] < ss[2]} BY <2>1
  <2> QED BY <1>4, <2>2 DEF OpToRel
<1>6. PICK m \in S : x = MaxEpoch - m BY DEF T
<1>7. ASSUME NEW f \in S PROVE f <= m
  <2>1. MaxEpoch - f \in T BY DEF T
  <2> QED BY <2>1, <1>5, <1>6 DEF Epochs
<1> QED BY <1>6, <1>7

\* Collecting drops records and changes none; what is promised stays, and
\* so does the newest committed record.
LEMMA GCKeeps ==
    ASSUME NEW rs \in Stores, NEW now \in Nat
    PROVE  /\ GC(rs, now) \in Stores
           /\ Thins(rs, GC(rs, now))
           /\ Keeps(rs, GC(rs, now))
           /\ \A e \in Epochs : GC(rs, now)[e] # None => GC(rs, now)[e] = rs[e]
           /\ \A e \in Committed(rs) : rs[e].until > now => GC(rs, now)[e] = rs[e]
<1> DEFINE rt == GC(rs, now)
<1>1. rt \in Stores BY DEF GC, Stores
<1>2. \A e \in Epochs : rt[e] # None => rt[e] = rs[e] BY DEF GC, Stores
<1>3. \A e \in Committed(rs) : rs[e].until > now => rt[e] = rs[e]
  BY DEF GC, Stores, Committed, Held, Retained
<1>4. Thins(rs, rt) BY <1>2 DEF Thins
<1>5. Keeps(rs, rt)
  <2> SUFFICES ASSUME NEW e \in Committed(rs)
               PROVE  \E f \in Committed(rt) : f >= e
    BY DEF Keeps
  <2>1. Committed(rs) \in SUBSET Epochs BY DEF Committed, Held
  <2>2. PICK m \in Committed(rs) : \A f \in Committed(rs) : f <= m BY <2>1, NewestExists
  <2>3. {f \in Committed(rs) : f > m} = {} BY <2>1, <2>2 DEF Epochs
  <2>4. Cardinality({f \in Committed(rs) : f > m}) = 0 BY <2>3, FS_EmptySet
  <2>5. m \in LastTwo(rs) BY <2>4 DEF LastTwo
  <2>6. rs[m] # None /\ rs[m].until > 0 /\ m \in Epochs BY DEF Committed, Held
  <2>7. rt[m] = rs[m] BY <2>5, <2>6 DEF GC, Retained
  <2>8. m \in Committed(rt) BY <2>6, <2>7 DEF Committed, Held
  <2>9. m >= e BY <2>1, <2>2 DEF Epochs
  <2> QED BY <2>8, <2>9
<1> QED BY <1>1, <1>2, <1>3, <1>4, <1>5

\* What was passed stays passed.
LEMMA PassedKept ==
    ASSUME NEW rs \in Stores, NEW rt \in Stores, Thins(rs, rt), Keeps(rs, rt),
           NEW x \in Artifacts, Passed(x, rs)
    PROVE  Passed(x, rt)
<1>1. PICK e \in Committed(rs) : UpTo(x, Artifact(e, rs[e].rev)) BY DEF Passed
<1>2. PICK f \in Committed(rt) : f >= e BY DEF Keeps
<1>3. e \in Epochs /\ f \in Epochs BY DEF Committed, Held
<1>4. CASE f = e
  <2>1. rt[f].rev = rs[e].rev BY <1>2, <1>3, <1>4 DEF Thins, Committed, Held
  <2> QED BY <1>1, <1>4, <2>1 DEF Passed
<1>5. CASE f > e
  <2>1. x.epoch <= e BY <1>1, <1>3 DEF UpTo, Artifact, Artifacts, Epochs
  <2>2. x.epoch < Artifact(f, rt[f].rev).epoch
    BY <2>1, <1>3, <1>5 DEF Artifact, Artifacts, Epochs
  <2> QED BY <2>2 DEF Passed, UpTo
<1> QED BY <1>2, <1>3, <1>4, <1>5 DEF Epochs

LEMMA LaterIsNat ==
    ASSUME NEW x \in Nat, NEW y \in Nat
    PROVE  Later(x, y) \in Nat /\ Later(x, y) >= y /\ Later(x, y) >= x
BY DEF Later

\* Recovery commits an intent whose batch is committed and drops the others;
\* it leaves what is committed alone.
LEMMA RecoveredKeeps ==
    ASSUME TypeOK, StoreInv, NEW d \in Decisions, NEW now \in Times
    PROVE  /\ Recovered(d, now) \in Stores
           /\ Thins(recs, Recovered(d, now))
           /\ Keeps(recs, Recovered(d, now))
           /\ \A e \in Committed(recs) : Recovered(d, now)[e] = recs[e]
           /\ \A e \in Held(Recovered(d, now)) :
                 /\ e \in Committed(Recovered(d, now))
                 /\ \/ e \in Committed(recs)
                    \/ /\ e \in PendingIntents(recs)
                       /\ Settled(d)[recs[e].intent] = "committed"
<1> DEFINE rt == Recovered(d, now)
<1>a. now \in Nat BY DEF Times
<1>b. clock \in Nat BY DEF TypeOK
<1>0. Later(now, clock) \in Nat BY <1>a, <1>b, LaterIsNat
<1>1. rt \in Stores
  BY <1>0 DEF Recovered, Stores, TypeOK, PendingIntents, Held, Records
<1>2. \A e \in Committed(recs) : rt[e] = recs[e]
  BY DEF Recovered, Committed, PendingIntents, Held
<1>3. ASSUME NEW e \in Epochs, rt[e] # None
      PROVE  /\ recs[e] # None /\ rt[e].rev = recs[e].rev /\ rt[e].until > 0
             /\ \/ e \in Committed(recs)
                \/ e \in PendingIntents(recs) /\ Settled(d)[recs[e].intent] = "committed"
  <2>1. CASE e \in PendingIntents(recs)
    <3>1. Settled(d)[recs[e].intent] = "committed" BY <1>3, <2>1 DEF Recovered
    <3>2. recs[e] \in Records /\ recs[e] # None BY <2>1 DEF PendingIntents, Held, TypeOK
    <3>3. rt[e] = [recs[e] EXCEPT !.until = Later(now, clock) + Availability]
      BY <2>1, <3>1 DEF Recovered
    <3> QED BY <1>0, <2>1, <3>1, <3>2, <3>3 DEF Records
  <2>2. CASE e \notin PendingIntents(recs)
    <3>1. rt[e] = recs[e] BY <2>2 DEF Recovered
    <3>2. recs[e] \in Records /\ recs[e] # None BY <1>3, <3>1 DEF TypeOK
    <3>3. recs[e].until # 0 BY <2>2, <3>2 DEF StoreInv, PendingIntents, Held
    <3> QED BY <3>1, <3>2, <3>3 DEF Records, Committed, Held
  <2> QED BY <2>1, <2>2
<1>4. Thins(recs, rt) BY <1>3 DEF Thins
<1>5. Keeps(recs, rt)
  <2> SUFFICES ASSUME NEW e \in Committed(recs) PROVE e \in Committed(rt) /\ e >= e
    BY DEF Keeps
  <2> QED BY <1>2 DEF Committed, Held, Epochs
<1>6. \A e \in Held(rt) : e \in Committed(rt)
  BY <1>3 DEF Committed, Held
<1> QED BY <1>1, <1>2, <1>3, <1>4, <1>5, <1>6 DEF Held

-----------------------------------------------------------------------------
(* How a step changes the store: it collects, adds one record, or not.     *)

\* The steps of the node that leave the primary alone.
NodeStep ==
    \/ \E d \in Decisions : Ask(d) \/ NodeRestart(d)
    \/ Look \/ Heartbeat \/ Unavailable \/ Begin \/ PrepareApply \/ CommitApply \/ Complete
    \/ Activate \/ PollFails \/ NodeReload \/ NodeReloadFails

\* Records are dropped or committed, files no record names are removed, and
\* nothing that is promised goes.
Collects ==
    /\ recs' \in Stores /\ Thins(recs, recs') /\ Keeps(recs, recs')
    /\ CollectOrphans(recs')
    /\ high' = high /\ clock' \in Nat /\ clock' >= clock
    /\ \A e \in Committed(recs) : recs[e].until > clock' =>
          e \in Committed(recs') /\ recs'[e].until >= recs[e].until
    /\ job'.at \notin {"write", "record"}

Quiet ==
    /\ UNCHANGED <<recs, files, clock, high>>
    /\ job'.at \in {"write", "record"} => job' = job

LEMMA RecoverCollects ==
    ASSUME TypeOK, StoreInv, NEW d \in Decisions, NEW now \in Times,
           RecoverStore(d, now), high' = high, job'.at \notin {"write", "record"}
    PROVE  Collects
<1>a. now \in Nat BY DEF Times
<1>b. clock \in Nat BY DEF TypeOK
<1>1. Later(now, clock) \in Nat /\ Later(now, clock) >= clock BY <1>a, <1>b, LaterIsNat
<1>2. clock' \in Nat /\ clock' >= clock BY <1>1, <1>b DEF RecoverStore
<1>3. recs' = Recovered(d, now) /\ CollectOrphans(recs') BY DEF RecoverStore
<1>4. \A e \in Committed(recs) : e \in Committed(recs') /\ recs'[e].until >= recs[e].until
  <2> SUFFICES ASSUME NEW e \in Committed(recs)
               PROVE  e \in Committed(recs') /\ recs'[e].until >= recs[e].until
    OBVIOUS
  <2>1. recs'[e] = recs[e] BY <1>3, RecoveredKeeps
  <2>2. e \in Epochs /\ recs[e] \in Records /\ recs[e].until > 0 /\ recs[e] # None
    BY DEF Committed, Held, TypeOK
  <2> QED BY <2>1, <2>2 DEF Committed, Held, Records
<1> QED BY <1>2, <1>3, <1>4, RecoveredKeeps DEF Collects

LEMMA GCCollects ==
    ASSUME TypeOK, NEW now \in Times, clock' = Later(now, clock), recs' = GC(recs, clock'),
           CollectOrphans(recs'), high' = high, job'.at \notin {"write", "record"}
    PROVE  Collects
<1>a. now \in Nat BY DEF Times
<1>b. clock \in Nat /\ recs \in Stores BY DEF TypeOK, Stores
<1>1. clock' \in Nat /\ clock' >= clock BY <1>a, <1>b, LaterIsNat
<1>2. \A e \in Committed(recs) : recs[e].until > clock' =>
          e \in Committed(recs') /\ recs'[e].until >= recs[e].until
  <2> SUFFICES ASSUME NEW e \in Committed(recs), recs[e].until > clock'
               PROVE  e \in Committed(recs') /\ recs'[e].until >= recs[e].until
    OBVIOUS
  <2>1. recs'[e] = recs[e] BY <1>b, <1>1, GCKeeps
  <2>2. e \in Epochs /\ recs[e] \in Records /\ recs[e].until > 0 /\ recs[e] # None
    BY DEF Committed, Held, TypeOK
  <2> QED BY <2>1, <2>2 DEF Committed, Held, Records
<1> QED BY <1>b, <1>1, <1>2, GCKeeps DEF Collects

LEMMA AvailabilityPositive ==
    ASSUME NEW x \in Nat
    PROVE  x + Availability \in Nat /\ x + Availability > 0
<1>1. Availability \in Nat /\ Availability > 0 OBVIOUS
<1> QED BY <1>1

\* Lengthening or starting the availability of a record collects nothing.
LEMMA UntilCollects ==
    ASSUME TypeOK, NEW e \in Epochs, recs[e] # None, NEW until \in Nat,
           until > 0, until >= recs[e].until,
           recs' = [recs EXCEPT ![e].until = until], CollectOrphans(recs'),
           high' = high, clock' \in Nat, clock' >= clock, job'.at \notin {"write", "record"}
    PROVE  Collects
<1>1. recs \in Stores /\ recs[e] \in Records BY DEF TypeOK, Stores
<1>2. recs' \in Stores BY <1>1 DEF Stores, Records
<1>3. \A f \in Epochs \ {e} : recs'[f] = recs[f] BY <1>1 DEF Stores
<1>4. recs'[e].rev = recs[e].rev /\ recs'[e].until = until /\ recs'[e] # None
  BY <1>1, <1>2 DEF Stores, Records
<1>5. Thins(recs, recs') BY <1>3, <1>4 DEF Thins
<1>6. \A f \in Committed(recs) : f \in Committed(recs') /\ recs'[f].until >= recs[f].until
  <2> SUFFICES ASSUME NEW f \in Committed(recs)
               PROVE  f \in Committed(recs') /\ recs'[f].until >= recs[f].until
    OBVIOUS
  <2>1. f \in Epochs /\ recs[f] \in Records /\ recs[f].until > 0 /\ recs[f] # None
    BY DEF Committed, Held, TypeOK
  <2>2. CASE f = e BY <1>4, <2>1, <2>2 DEF Committed, Held
  <2>3. CASE f # e BY <1>3, <2>1, <2>3 DEF Committed, Held, Records
  <2> QED BY <2>2, <2>3
<1>7. Keeps(recs, recs')
  <2>1. \A f \in Committed(recs) : f >= f BY DEF Committed, Held, Epochs
  <2> QED BY <1>6, <2>1 DEF Keeps
<1> QED BY <1>2, <1>5, <1>6, <1>7 DEF Collects

\* publisher::reserve recovers and then collects.
LEMMA ReserveCollects ==
    ASSUME TypeOK, StoreInv, NEW r \in Requests, NEW d \in Decisions, NEW now \in Times,
           Reserve(r, d, now)
    PROVE  Collects
<1> DEFINE rs == Recovered(d, now)
<1>a. now \in Nat BY DEF Times
<1>b. clock \in Nat BY DEF TypeOK
<1>1. clock' \in Nat /\ clock' >= clock BY <1>a, <1>b, LaterIsNat DEF Reserve
<1>2. recs' = GC(rs, clock') /\ CollectOrphans(recs') /\ high' = high BY DEF Reserve
<1>3. job'.at \notin {"write", "record"} BY DEF Reserve
<1>4. /\ rs \in Stores /\ Thins(recs, rs) /\ Keeps(recs, rs)
      /\ \A e \in Committed(recs) : rs[e] = recs[e]
  BY RecoveredKeeps
<1> HIDE DEF rs
<1>5. /\ recs' \in Stores /\ Thins(rs, recs') /\ Keeps(rs, recs')
      /\ \A e \in Committed(rs) : rs[e].until > clock' => recs'[e] = rs[e]
      /\ \A e \in Epochs : recs'[e] # None => recs'[e] = rs[e]
  BY <1>1, <1>2, <1>4, GCKeeps
<1>6. Thins(recs, recs') BY <1>4, <1>5 DEF Thins
<1>7. Keeps(recs, recs')
  <2> SUFFICES ASSUME NEW e \in Committed(recs) PROVE \E f \in Committed(recs') : f >= e
    BY DEF Keeps
  <2>1. PICK g \in Committed(rs) : g >= e BY <1>4 DEF Keeps
  <2>2. PICK f \in Committed(recs') : f >= g BY <1>5 DEF Keeps
  <2>3. e \in Epochs /\ f \in Epochs /\ g \in Epochs BY DEF Committed, Held
  <2> QED BY <2>1, <2>2, <2>3 DEF Epochs
<1>8. \A e \in Committed(recs) : recs[e].until > clock' =>
          e \in Committed(recs') /\ recs'[e].until >= recs[e].until
  <2> SUFFICES ASSUME NEW e \in Committed(recs), recs[e].until > clock'
               PROVE  e \in Committed(recs') /\ recs'[e].until >= recs[e].until
    OBVIOUS
  <2>1. e \in Epochs /\ recs[e] \in Records /\ recs[e].until > 0 /\ recs[e] # None
    BY DEF Committed, Held, TypeOK
  <2>2. rs[e] = recs[e] /\ e \in Committed(rs) BY <1>4, <2>1 DEF Committed, Held
  <2>3. recs'[e] = recs[e] BY <1>5, <2>2
  <2> QED BY <2>1, <2>3 DEF Committed, Held, Records
<1> QED BY <1>1, <1>2, <1>3, <1>5, <1>6, <1>7, <1>8 DEF Collects

LEMMA FinalizeCollects ==
    ASSUME TypeOK, JobInv, NEW now \in Times, Finalize(now)
    PROVE  Collects
<1>a. now \in Nat BY DEF Times
<1>b. clock \in Nat BY DEF TypeOK
<1>1. clock' \in Nat /\ clock' >= clock BY <1>a, <1>b, LaterIsNat DEF Finalize
<1>2. high \in Epochs /\ recs[high] = Rec(job.rev, job.req, job.proof, 0)
  BY DEF Finalize, JobInv, Bound
<1>3. recs[high].until = 0 BY <1>2 DEF Rec
<1>4. recs[high] # None
  <2>1. Rec(job.rev, job.req, job.proof, 0) \in Records
    BY DEF Finalize, JobInv, Bound, TypeOK, Rec, Records
  <2> QED BY <1>2, <2>1
<1>5. clock' + Availability \in Nat /\ clock' + Availability > 0
  BY <1>1, AvailabilityPositive
<1>6. job'.at \notin {"write", "record"} BY DEF Finalize, NoJob
<1>8. clock' + Availability >= recs[high].until BY <1>3, <1>5
<1>7. /\ recs' = [recs EXCEPT ![high].until = clock' + Availability]
      /\ CollectOrphans(recs') /\ high' = high
  BY DEF Finalize
<1> QED BY <1>1, <1>2, <1>4, <1>5, <1>6, <1>7, <1>8, UntilCollects

LEMMA DeliverCollects ==
    ASSUME TypeOK, NEW now \in Times, NEW nnow \in Times, DeliverManifest(now, nnow), poll.want # None
    PROVE  /\ Collects
           /\ poll.want.epoch \in Committed(recs')
           /\ recs'[poll.want.epoch].until = promised'[poll.want.epoch]
           /\ \A f \in Epochs \ {poll.want.epoch} : promised'[f] = promised[f]
<1> DEFINE e == poll.want.epoch
           u == Later(recs[e].until, clock' + Availability)
<1>a. now \in Nat BY DEF Times
<1>b. clock \in Nat BY DEF TypeOK
<1>1. clock' \in Nat /\ clock' >= clock BY <1>a, <1>b, LaterIsNat DEF DeliverManifest
<1>2. e \in Epochs BY DEF TypeOK, Artifacts
<1>3. recs[e] # None /\ recs[e] \in Records /\ recs[e].until > 0
  BY <1>2 DEF DeliverManifest, Available, TypeOK
<1>4. clock' + Availability \in Nat /\ clock' + Availability > 0
  BY <1>1, AvailabilityPositive
<1>c. recs[e].until \in Nat BY <1>3 DEF Records
<1>5. u \in Nat /\ u > 0 /\ u >= recs[e].until
  <2>1. u \in Nat /\ u >= recs[e].until BY <1>4, <1>c, LaterIsNat
  <2> QED BY <2>1, <1>3, <1>c
<1>6. job'.at \notin {"write", "record"} BY DEF DeliverManifest, Idle
<1>7. /\ recs' = [recs EXCEPT ![e].until = u] /\ promised' = [promised EXCEPT ![e] = u]
      /\ CollectOrphans(recs') /\ high' = high
  BY DEF DeliverManifest
<1> HIDE DEF u
<1>8. Collects BY <1>1, <1>2, <1>3, <1>5, <1>6, <1>7, UntilCollects
<1>9. recs'[e].until = u /\ recs'[e] # None
  BY <1>2, <1>3, <1>5, <1>7 DEF TypeOK, Records
<1> QED BY <1>2, <1>5, <1>7, <1>8, <1>9 DEF TypeOK, Committed, Held

\* Reading an object only drops what no record names.
LEMMA ObjectCollects ==
    ASSUME TypeOK, NEW o, DeliverObject(o)
    PROVE  Collects
<1>1. recs' = recs /\ high' = high /\ clock' = clock /\ job' = job BY DEF DeliverObject
<1>2. job.at \notin {"write", "record"} /\ CollectOrphans(recs)
  BY DEF DeliverObject, Idle
<1>3. Thins(recs, recs) BY DEF Thins
<1>4. \A e \in Committed(recs) : e >= e /\ recs[e].until >= recs[e].until
  BY DEF Committed, Held, Epochs, TypeOK, Records
<1> QED BY <1>1, <1>2, <1>3, <1>4 DEF Collects, Keeps, TypeOK, Stores, CollectOrphans

LEMMA NodeStepLeaves ==
    ASSUME NodeStep
    PROVE  UNCHANGED <<treeVars, storeVars, daemonVars, job, rel, promised>>
BY DEF NodeStep, Ask, NodeRestart, Heartbeat, Unavailable, Begin, PrepareApply, CommitApply,
       Complete, PollFails, NodeReload, NodeCapture, NodeSwap, NodeReloadFails, Look, Activate, Record

\* Every step changes the store in one of these ways.
LEMMA StoreCases ==
    ASSUME TypeOK, JobInv, StoreInv, WasInv, Next
    PROVE  Collects \/ Quiet \/ Allocate \/ WriteFiles \/ RecordIntent \/ RecordCapture
<1>1. ASSUME NEW d \in Decisions, NEW now \in Times,
             Access(d, now) \/ Start(d, now) \/ BatchRecovers(d, now)
      PROVE  Collects
  <2>1. job'.at \notin {"write", "record"} BY <1>1 DEF Access, Start, BatchRecovers, NoJob, Idle, JobInv
  <2>2. RecoverStore(d, now) /\ high' = high BY <1>1 DEF Access, Start, BatchRecovers
  <2> QED BY <2>1, <2>2, RecoverCollects
<1>2. ASSUME NEW now \in Times, PreparePolicy(now) \/ Collect(now) PROVE Collects
  <2>1. job'.at \notin {"write", "record"}
    <3>1. CASE Collect(now) BY <3>1 DEF Collect, NoJob
    <3>2. CASE PreparePolicy(now)
      <4>1. \/ job' = [NoJob EXCEPT !.at = "collect", !.kind = "capture"]
            \/ job' = job
            \/ job' = [NoJob EXCEPT !.at = "allocate", !.kind = "capture", !.rev = rel.rev]
        BY <3>2 DEF PreparePolicy
      <4> QED BY <3>2, <4>1 DEF PreparePolicy, NoJob, Idle
    <3> QED BY <1>2, <3>1, <3>2
  <2>2. /\ clock' = Later(now, clock) /\ recs' = GC(recs, clock')
        /\ CollectOrphans(recs') /\ high' = high
    BY <1>2 DEF PreparePolicy, Collect
  <2> QED BY <2>1, <2>2, GCCollects
<1>3. ASSUME NEW now \in Times, NEW nnow \in Times, DeliverManifest(now, nnow) PROVE Collects
  BY <1>3, DeliverCollects DEF WasInv, DeliverManifest, Fetching
<1>4. CASE NodeStep BY <1>4, NodeStepLeaves DEF Quiet, storeVars
<1>5. CASE Capture \/ PublishActive \/ InstallPolicy \/ ReloadFails \/ \E rev \in Revs : Save(rev)
  BY <1>5 DEF Capture, PublishActive, InstallPolicy, ReloadFails, Save, Quiet, storeVars
<1>6. CASE JobFails \/ Crash \/ BatchStuck
  BY <1>6 DEF JobFails, Crash, BatchStuck, NoJob, Quiet, storeVars
<1>7. CASE Prepare \/ Commit
  BY <1>7 DEF Prepare, Commit, Quiet, storeVars, TypeOK
<1> QED
  BY <1>1, <1>2, <1>3, <1>4, <1>5, <1>6, <1>7, ReserveCollects, FinalizeCollects, ObjectCollects
  DEF Next, JobStep, ReloadStep, StartStep, ApplyStep, PollStep, NodeStep

\* A new record is the only one of its epoch, and the newest.
LEMMA RecordAdds ==
    ASSUME TypeOK, JobInv, StoreInv, RecordIntent \/ RecordCapture
    PROVE  /\ high \in Epochs /\ recs' \in Stores
           /\ \A f \in Held(recs) : f < high
           /\ \A f \in Epochs \ {high} : recs'[f] = recs[f]
           /\ recs'[high] \in Records /\ recs'[high].rev = job.rev
           /\ recs'[high].until = 0 => RecordIntent /\ recs'[high] = Rec(job.rev, job.req, job.proof, 0)
           /\ recs'[high].until > 0 => RecordCapture
           /\ RecordCapture => recs'[high].until > 0
           /\ job'.at \notin {"write", "record"}
           /\ UNCHANGED <<files, clock, high, promised>>
<1>1. job.at = "record" /\ UNCHANGED <<files, clock, high, promised>>
  BY DEF RecordIntent, RecordCapture
<1>2. high \in Epochs BY <1>1 DEF JobInv
<1>3. \A f \in Held(recs) : f < high
  BY <1>1, <1>2 DEF StoreInv, Held, Epochs
<1>4. job.rev \in Revs BY <1>1 DEF JobInv, Draft
<1>5. clock + Availability \in Nat /\ clock + Availability > 0
  BY AvailabilityPositive DEF TypeOK
<1>6. job'.at \notin {"write", "record"} BY DEF RecordIntent, RecordCapture, TypeOK
<1>7. CASE RecordIntent
  <2>1. Rec(job.rev, job.req, job.proof, 0) \in Records BY <1>4 DEF TypeOK, Rec, Records
  <2>2. recs' = [recs EXCEPT ![high] = Rec(job.rev, job.req, job.proof, 0)]
    BY <1>7 DEF RecordIntent
  <2>3. recs'[high] = Rec(job.rev, job.req, job.proof, 0) BY <1>2, <2>2 DEF TypeOK
  <2>4. recs'[high].rev = job.rev /\ recs'[high].until = 0 BY <2>3 DEF Rec
  <2>5. ~RecordCapture
    <3>1. job.kind = "batch" BY <1>7 DEF RecordIntent
    <3> QED BY <3>1 DEF RecordCapture
  <2>6. recs' \in Stores /\ \A f \in Epochs \ {high} : recs'[f] = recs[f]
    BY <1>2, <2>1, <2>2 DEF TypeOK, Stores
  <2> QED BY <1>1, <1>2, <1>3, <1>6, <1>7, <2>1, <2>3, <2>4, <2>5, <2>6
<1>8. CASE RecordCapture
  <2> DEFINE r == Rec(job.rev, None, 0, clock + Availability)
  <2>1. r \in Records /\ r.rev = job.rev /\ r.until = clock + Availability
    BY <1>4, <1>5 DEF Rec, Records
  <2>2. recs' = [recs EXCEPT ![high] = r] BY <1>8 DEF RecordCapture
  <2> HIDE DEF r
  <2>3. recs'[high] = r BY <1>2, <2>2 DEF TypeOK
  <2>4. recs' \in Stores /\ \A f \in Epochs \ {high} : recs'[f] = recs[f]
    BY <1>2, <2>1, <2>2 DEF TypeOK, Stores
  <2> QED BY <1>1, <1>2, <1>3, <1>5, <1>6, <1>8, <2>1, <2>3, <2>4
<1> QED BY <1>7, <1>8

\* What was published is never forgotten.
LEMMA PassedStep ==
    ASSUME TypeOK, JobInv, StoreInv, WasInv, Next, NEW x \in Artifacts, Passed(x, recs)
    PROVE  Passed(x, recs')
<1>1. CASE Collects BY <1>1, PassedKept DEF Collects, TypeOK, Stores
<1>2. CASE Quiet \/ Allocate \/ WriteFiles BY <1>2 DEF Quiet, Allocate, WriteFiles
<1>3. CASE RecordIntent \/ RecordCapture
  <2>1. PICK e \in Committed(recs) : UpTo(x, Artifact(e, recs[e].rev)) BY DEF Passed
  <2>2. e \in Held(recs) /\ e \in Epochs BY DEF Committed, Held
  <2>3. e < high BY <1>3, <2>2, RecordAdds
  <2>4. recs'[e] = recs[e] BY <1>3, <2>2, <2>3, RecordAdds DEF Epochs
  <2>5. e \in Committed(recs') BY <2>2, <2>4 DEF Committed, Held
  <2> QED BY <2>1, <2>4, <2>5 DEF Passed
<1> QED BY <1>1, <1>2, <1>3, StoreCases

\* The store stays complete and its epochs distinct.
LEMMA StoreStep ==
    ASSUME TypeOK, JobInv, StoreInv, WasInv, Next
    PROVE  StoreInv'
<1>1. CASE Collects
  <2>1. /\ recs' \in Stores /\ Thins(recs, recs') /\ CollectOrphans(recs') /\ high' = high
        /\ job'.at \notin {"write", "record"}
    BY <1>1 DEF Collects
  <2>2. ASSUME NEW e \in Held(recs')
        PROVE  /\ e <= high
               /\ recs'[e].until = 0 =>
                     recs'[e].intent \in Requests /\ recs'[e].rev = Target[recs'[e].intent]
               /\ FilesOf(e, recs'[e].rev) \subseteq files'
    <3>1. e \in Epochs /\ recs'[e] # None BY <2>2 DEF Held
    <3>2. e \in Held(recs) /\ recs'[e].rev = recs[e].rev
      BY <2>1, <3>1 DEF Thins, Held
    <3>3. recs'[e].until = 0 => recs'[e] = recs[e] BY <2>1, <3>1 DEF Thins
    <3>4. FilesOf(e, recs'[e].rev) \subseteq files BY <3>2 DEF StoreInv
    <3>5. FilesOf(e, recs'[e].rev) \subseteq Referenced(recs') BY <2>2 DEF Referenced
    <3>6. files' = files \cap Referenced(recs') BY <2>1 DEF CollectOrphans
    <3> QED BY <3>2, <3>3, <3>4, <3>5, <3>6 DEF StoreInv
  <2> QED BY <2>1, <2>2 DEF StoreInv
<1>2. CASE Quiet BY <1>2 DEF Quiet, StoreInv, Held
<1>3. CASE Allocate
  <2>1. /\ high' = high + 1 /\ recs' = recs /\ files' = files /\ job' = [job EXCEPT !.at = "write"]
    BY <1>3 DEF Allocate
  <2>2. job'.at = "write" BY <2>1 DEF TypeOK
  <2>3. high \in Nat BY DEF TypeOK
  <2> QED BY <2>1, <2>2, <2>3 DEF StoreInv, Held, Epochs
<1>4. CASE WriteFiles
  <2>1. /\ files' = files \cup FilesOf(high, job.rev) /\ high' = high /\ recs' = recs
        /\ job.at = "write" /\ job' = [job EXCEPT !.at = "record"]
    BY <1>4 DEF WriteFiles
  <2>2. job'.rev = job.rev BY <2>1 DEF TypeOK
  <2> QED BY <2>1, <2>2 DEF StoreInv, Held
<1>5. CASE RecordIntent \/ RecordCapture
  <2>1. ASSUME NEW e \in Held(recs')
        PROVE  /\ e <= high
               /\ recs'[e].until = 0 =>
                     recs'[e].intent \in Requests /\ recs'[e].rev = Target[recs'[e].intent]
               /\ FilesOf(e, recs'[e].rev) \subseteq files
    <3>1. CASE e = high
      <4>1. FilesOf(high, job.rev) \subseteq files
        BY <1>5 DEF RecordIntent, RecordCapture, StoreInv
      <4>2. recs'[e].until = 0 =>
              recs'[e].intent \in Requests /\ recs'[e].rev = Target[recs'[e].intent]
        <5> SUFFICES ASSUME recs'[e].until = 0
                     PROVE  recs'[e].intent \in Requests /\ recs'[e].rev = Target[recs'[e].intent]
          OBVIOUS
        <5>1. RecordIntent /\ recs'[e] = Rec(job.rev, job.req, job.proof, 0)
          BY <1>5, <3>1, RecordAdds
        <5>2. job.req \in Requests /\ job.rev = Target[job.req] BY <5>1 DEF RecordIntent, JobInv
        <5> QED BY <5>1, <5>2 DEF Rec
      <4> QED BY <1>5, <3>1, <4>1, <4>2, RecordAdds DEF Epochs
    <3>2. CASE e # high
      <4>1. e \in Epochs /\ recs'[e] # None BY <2>1 DEF Held
      <4>2. recs'[e] = recs[e] BY <1>5, <3>2, <4>1, RecordAdds
      <4>3. e \in Held(recs) BY <4>1, <4>2 DEF Held
      <4> QED BY <4>2, <4>3 DEF StoreInv
    <3> QED BY <3>1, <3>2
  <2>2. high' = high /\ files' = files /\ job'.at \notin {"write", "record"}
    BY <1>5, RecordAdds
  <2> QED BY <2>1, <2>2 DEF StoreInv
<1> QED BY <1>1, <1>2, <1>3, <1>4, <1>5, StoreCases

-----------------------------------------------------------------------------
(* Types.                                                                  *)

\* Deciding the interrupted transaction makes at most one policy the tree's.
LEMMA RecoverActiveDecides ==
    ASSUME TypeOK, WasInv, NEW d \in Decisions, RecoverActive(d)
    PROVE  /\ tree' \in Revs /\ stamp' \in Nat /\ was' \in SUBSET Revs
           /\ receipts' \in [Requests -> States] /\ receipts' = Settled(d)
           /\ was \subseteq was' /\ tree' \in was'
           /\ \A r \in Requests : receipts'[r] # "prepared"
           /\ \A r \in Requests : receipts'[r] = "committed" => Target[r] \in was'
<1>1. receipts' = Settled(d) BY DEF RecoverActive
<1>2. receipts' \in [Requests -> States]
  BY <1>1 DEF Settled, Decisions, States, TypeOK
<1>3. \A r \in Requests : receipts'[r] # "prepared"
  BY <1>1 DEF Settled, Prepared, Decisions
<1>4. CASE d = "committed" /\ Prepared # {}
  <2> DEFINE q == CHOOSE r \in Prepared : TRUE
  <2>1. q \in Prepared BY <1>4
  <2>2. tree' = Target[q] /\ stamp' = stamp + 1 /\ was' = was \cup {tree'}
    BY <1>4 DEF RecoverActive
  <2> HIDE DEF q
  <2>3. q \in Requests /\ receipts[q] = "prepared" BY <2>1 DEF Prepared
  <2>4. ASSUME NEW r \in Requests, receipts'[r] = "committed" PROVE Target[r] \in was'
    <3>1. CASE r \in Prepared
      <4>1. r = q BY <2>3, <3>1 DEF Prepared, WasInv
      <4> QED BY <2>2, <4>1
    <3>2. CASE r \notin Prepared
      <4>1. receipts[r] = "committed" BY <1>1, <2>4, <3>2 DEF Settled
      <4> QED BY <2>2, <4>1 DEF WasInv
    <3> QED BY <3>1, <3>2
  <2> QED BY <1>1, <1>2, <1>3, <2>2, <2>3, <2>4 DEF TypeOK
<1>5. CASE ~(d = "committed" /\ Prepared # {})
  <2>1. UNCHANGED <<tree, stamp, was>> BY <1>5 DEF RecoverActive
  <2>2. ASSUME NEW r \in Requests, receipts'[r] = "committed" PROVE Target[r] \in was'
    <3>1. receipts[r] = "committed" BY <1>1, <1>5, <2>2 DEF Settled
    <3> QED BY <2>1, <3>1 DEF WasInv
  <2> QED BY <1>1, <1>2, <1>3, <2>1, <2>2 DEF TypeOK, WasInv
<1> QED BY <1>4, <1>5

LEMMA StoreTypes ==
    ASSUME TypeOK, JobInv, StoreInv, WasInv, Next
    PROVE  recs' \in Stores /\ clock' \in Nat /\ high' \in 0..MaxEpoch
<1>1. CASE Collects BY <1>1 DEF Collects, TypeOK
<1>2. CASE Quiet \/ WriteFiles BY <1>2 DEF Quiet, WriteFiles, TypeOK, Stores
<1>3. CASE RecordIntent \/ RecordCapture BY <1>3, RecordAdds DEF TypeOK
<1>4. CASE Allocate
  <2>1. high < MaxEpoch /\ high' = high + 1 /\ UNCHANGED <<recs, clock>>
    BY <1>4 DEF Allocate, JobInv
  <2> QED BY <2>1 DEF TypeOK, Stores
<1> QED BY <1>1, <1>2, <1>3, <1>4, StoreCases

PrimaryTypes ==
    /\ up \in BOOLEAN /\ tree \in Revs /\ stamp \in Nat /\ was \in SUBSET Revs
    /\ receipts \in [Requests -> States]

FlowTypes ==
    /\ job \in [at : JobSteps, kind : {"none", "batch", "capture"}, req : Requests \cup {None},
                rev : Revs \cup {None}, proof : Nat]
    /\ rel \in [at : {"idle", "captured", "prepared", "installed"}, rev : Revs \cup {None},
                epoch : 0..MaxEpoch]
    /\ adv \in Artifacts \cup {None}

NodeTypes ==
    /\ ack \in Artifacts \cup {None}
    /\ ledger \in Artifacts \cup {None} /\ pending \in Artifacts \cup {None}
    /\ ntree \in Revs \cup {None} /\ nactive \in Revs \cup {None} /\ nrel \in Revs \cup {None}
    /\ nreceipt \in States
    /\ poll \in [at : Fetching \cup Talking, want : Artifacts \cup {None},
                 got : SUBSET AllObjects]
    /\ promised \in [Epochs -> Nat]

LEMMA TypeParts ==
    TypeOK <=> /\ recs \in Stores /\ clock \in Nat /\ high \in 0..MaxEpoch
               /\ PrimaryTypes /\ FlowTypes /\ NodeTypes
BY DEF TypeOK, PrimaryTypes, FlowTypes, NodeTypes, Stores

LEMMA NoneTypes ==
    /\ NoJob \in [at : JobSteps, kind : {"none", "batch", "capture"}, req : Requests \cup {None},
                  rev : Revs \cup {None}, proof : Nat]
    /\ NoRel \in [at : {"idle", "captured", "prepared", "installed"}, rev : Revs \cup {None},
                  epoch : 0..MaxEpoch]
    /\ NoPoll \in [at : Fetching \cup Talking, want : Artifacts \cup {None},
                   got : SUBSET AllObjects]
BY DEF NoJob, NoRel, NoPoll, JobSteps, Fetching, Talking

LEMMA PrimaryTypesStep ==
    ASSUME TypeOK, JobInv, WasInv, Next
    PROVE  PrimaryTypes'
<1>1. ASSUME NEW d \in Decisions, RecoverActive(d), up' \in BOOLEAN PROVE PrimaryTypes'
  BY <1>1, RecoverActiveDecides DEF PrimaryTypes
<1>2. ASSUME NEW d \in Decisions, NEW now \in Times,
             \/ Access(d, now) \/ Start(d, now) \/ BatchRecovers(d, now)
             \/ \E r \in Requests : Reserve(r, d, now)
      PROVE  PrimaryTypes'
  <2>1. RecoverActive(d) /\ up' \in {up, TRUE}
    BY <1>2 DEF Access, Start, BatchRecovers, Reserve, Recover, daemonVars
  <2> QED BY <1>1, <2>1 DEF TypeOK
<1>3. CASE Commit
  <2>1. RecoverActive("committed") /\ up' = up BY <1>3 DEF Commit, daemonVars
  <2> QED BY <1>1, <2>1 DEF TypeOK, Decisions
<1>4. CASE Prepare
  BY <1>4 DEF Prepare, daemonVars, PrimaryTypes, TypeOK, States
<1>5. ASSUME NEW rev \in Revs, Save(rev) PROVE PrimaryTypes'
  BY <1>5 DEF Save, PrimaryTypes, TypeOK
<1>6. CASE NodeStep
  BY <1>6, NodeStepLeaves DEF treeVars, daemonVars, PrimaryTypes, TypeOK
<1>7. CASE Crash BY <1>7 DEF Crash, treeVars, PrimaryTypes, TypeOK
<1>8. CASE UNCHANGED <<treeVars, up>> BY <1>8 DEF treeVars, PrimaryTypes, TypeOK
<1>9. CASE Allocate \/ WriteFiles \/ RecordIntent \/ BatchStuck \/ RecordCapture \/ JobFails
           \/ Capture \/ PublishActive \/ InstallPolicy \/ ReloadFails
  BY <1>8, <1>9 DEF Allocate, WriteFiles, RecordIntent, BatchStuck, RecordCapture, JobFails,
                    Capture, PublishActive, InstallPolicy, ReloadFails, daemonVars
<1>10. ASSUME NEW now \in Times, NEW nnow \in Times,
              Finalize(now) \/ Collect(now) \/ PreparePolicy(now) \/ DeliverManifest(now, nnow)
       PROVE  PrimaryTypes'
  BY <1>8, <1>10 DEF Finalize, Collect, PreparePolicy, DeliverManifest, daemonVars
<1>11. ASSUME NEW o, DeliverObject(o) PROVE PrimaryTypes'
  BY <1>8, <1>11 DEF DeliverObject, daemonVars
<1> QED
  BY <1>2, <1>3, <1>4, <1>5, <1>6, <1>7, <1>9, <1>10, <1>11
  DEF Next, JobStep, ReloadStep, StartStep, ApplyStep, PollStep, NodeStep

\* The steps of the primary that leave the node alone.
PrimaryStep ==
    \/ JobStep \/ ReloadStep \/ StartStep \/ JobFails \/ ReloadFails
    \/ \E d \in Decisions, now \in Times :
         Access(d, now) \/ \E r \in Requests : Reserve(r, d, now)
    \/ \E rev \in Revs : Save(rev)

LEMMA PrimaryStepLeaves ==
    ASSUME PrimaryStep
    PROVE  UNCHANGED <<nodeVars, ack, poll, promised>>
<1>1. CASE JobStep
  BY <1>1 DEF JobStep, Allocate, WriteFiles, RecordIntent, Prepare, Commit, BatchStuck,
              RecordCapture, Finalize, Collect, BatchRecovers
<1>2. CASE ReloadStep
  BY <1>2 DEF ReloadStep, Capture, PublishActive, InstallPolicy, PreparePolicy
<1>3. CASE StartStep BY <1>3 DEF StartStep, Start
<1> QED
  BY <1>1, <1>2, <1>3 DEF PrimaryStep, JobFails, ReloadFails, Access, Reserve, Save

\* The steps that hand the node something.
DeliverStep ==
    \/ \E now, nnow \in Times : DeliverManifest(now, nnow)
    \/ \E rev \in Revs : \E o \in Objects[rev] : DeliverObject(o)

LEMMA NextCases ==
    ASSUME Next
    PROVE  PrimaryStep \/ NodeStep \/ DeliverStep \/ Crash
BY DEF Next, PrimaryStep, NodeStep, DeliverStep, PollStep, ApplyStep

LEMMA DeliverStepLeaves ==
    ASSUME TypeOK, DeliverStep
    PROVE  /\ UNCHANGED <<treeVars, high, daemonVars, nodeVars, job, rel, ack>>
           /\ poll.at \in {"manifest", "objects"}
           /\ \/ poll' = NoPoll
              \/ poll'.at \in {"manifest", "objects"} /\ poll'.want = poll.want
           /\ poll' \in [at : Fetching \cup Talking, want : Artifacts \cup {None},
                         got : SUBSET AllObjects]
<1>1. ASSUME NEW now \in Times, NEW nnow \in Times, DeliverManifest(now, nnow)
      PROVE  /\ UNCHANGED <<treeVars, high, daemonVars, nodeVars, job, rel, ack>>
             /\ poll.at = "manifest"
             /\ poll' = [poll EXCEPT !.at = "objects"] \/ poll' = NoPoll
  BY <1>1 DEF DeliverManifest
<1>2. ASSUME NEW rev \in Revs, NEW o \in Objects[rev], DeliverObject(o)
      PROVE  /\ UNCHANGED <<treeVars, high, daemonVars, nodeVars, job, rel, ack>>
             /\ poll.at = "objects" /\ poll' = [poll EXCEPT !.got = @ \cup {o}]
             /\ o \in AllObjects
  BY <1>2 DEF DeliverObject, AllObjects
<1> QED BY <1>1, <1>2, NoneTypes DEF DeliverStep, TypeOK, Fetching

LEMMA NodeTypesStep ==
    ASSUME TypeOK, JobInv, StoreInv, WasInv, NodeInv, Next
    PROVE  NodeTypes'
<1>0. NodeTypes BY TypeParts
<1>1. CASE PrimaryStep
  BY <1>0, <1>1, PrimaryStepLeaves DEF NodeTypes, nodeVars
<1>2. CASE Crash
  BY <1>0, <1>2 DEF Crash, NodeTypes, nodeVars
<1>3. CASE DeliverStep
  <2>1. promised' \in [Epochs -> Nat]
    <3>1. ASSUME NEW now \in Times, NEW nnow \in Times, DeliverManifest(now, nnow) PROVE promised' \in [Epochs -> Nat]
      <4> DEFINE e == poll.want.epoch
                 u == Later(recs[e].until, clock' + Availability)
      <4>1. poll.want # None BY <3>1 DEF DeliverManifest, WasInv, Fetching
      <4>2. e \in Epochs BY <4>1 DEF TypeOK, Artifacts
      <4>3. recs[e].until \in Nat BY <3>1, <4>2 DEF DeliverManifest, Available, TypeOK, Records
      <4>4. clock' \in Nat BY StoreTypes
      <4>5. u \in Nat BY <4>3, <4>4, AvailabilityPositive, LaterIsNat
      <4>6. promised' = [promised EXCEPT ![e] = u] BY <3>1 DEF DeliverManifest
      <4> HIDE DEF u
      <4> QED BY <4>5, <4>6 DEF TypeOK
    <3>2. ASSUME NEW o, DeliverObject(o) PROVE promised' \in [Epochs -> Nat]
      BY <3>2 DEF DeliverObject, TypeOK
    <3> QED BY <1>3, <3>1, <3>2 DEF DeliverStep
  <2> QED BY <1>0, <1>3, <2>1, DeliverStepLeaves DEF NodeTypes, nodeVars
<1>4. CASE NodeStep
  <2>1. promised' = promised BY <1>4, NodeStepLeaves
  <2>2. ASSUME NEW d \in Decisions, NodeTree(d) \in Revs \cup {None}
        PROVE  Ask(d) \/ NodeRestart(d) => NodeTypes'
    <3>1. NodeReceipt(d) \in States BY DEF NodeReceipt, TypeOK, States, Decisions
    <3>2. CASE Ask(d)
      <4>1. SettledLedger(d) \in Artifacts \cup {None} BY DEF SettledLedger, TypeOK
      <4>2. Acknowledged(SettledLedger(d)) \in Artifacts \cup {None} BY <4>1 DEF Acknowledged
      <4>3. poll' = [at |-> "asked", want |-> Acknowledged(SettledLedger(d)), got |-> {}]
        BY <3>2 DEF Ask, Settle
      <4>4. /\ ntree' = NodeTree(d) /\ ledger' = SettledLedger(d)
            /\ pending' = None /\ nreceipt' = "none" /\ UNCHANGED <<ack, nactive, nrel>>
        BY <3>2 DEF Ask, Settle
      <4> QED BY <1>0, <2>1, <2>2, <4>1, <4>2, <4>3, <4>4 DEF NodeTypes, States, Talking
    <3>3. CASE NodeRestart(d)
      <4>1. /\ nreceipt' = NodeReceipt(d) /\ ntree' = NodeTree(d) /\ nactive' = NodeTree(d)
            /\ poll' = NoPoll /\ nrel' = None /\ UNCHANGED <<ledger, pending, ack>>
        BY <3>3 DEF NodeRestart
      <4> QED BY <1>0, <2>1, <2>2, <3>1, <4>1, NoneTypes DEF NodeTypes
    <3> QED BY <3>2, <3>3
  <2>3. ASSUME NEW d \in Decisions PROVE NodeTree(d) \in Revs \cup {None}
    BY DEF NodeTree, TypeOK, NodeInv, Artifacts
  <2>4. CASE Heartbeat
    <3>1. poll.want \in Artifacts \cup {None} BY DEF TypeOK
    <3>2. poll' = NoPoll \/ poll' = [at |-> "manifest", want |-> adv, got |-> {}]
      BY <2>4 DEF Heartbeat
    <3>3. poll' \in [at : Fetching \cup Talking, want : Artifacts \cup {None},
                     got : SUBSET AllObjects]
      BY <3>2, NoneTypes DEF TypeOK, Fetching
    <3> QED BY <1>0, <2>1, <2>4, <3>1, <3>3 DEF Heartbeat, Record, NodeTypes
  <2>5. CASE Unavailable \/ PollFails
    BY <1>0, <2>1, <2>5, NoneTypes DEF Unavailable, PollFails, NodeTypes, nodeVars
  <2>6. CASE Begin
    <3>1. poll.want \in Artifacts \cup {None} BY DEF TypeOK
    <3>2. poll' \in [at : Fetching \cup Talking, want : Artifacts \cup {None},
                     got : SUBSET AllObjects]
      <4>1. \/ poll' = NoPoll \/ poll' = [poll EXCEPT !.at = "prepare"]
            \/ poll' = [NoPoll EXCEPT !.at = "activate"]
        BY <2>6 DEF Begin
      <4> QED BY <4>1, NoneTypes DEF TypeOK, Fetching, Talking
    <3>3. /\ pending' \in {pending, poll.want} /\ nreceipt' \in {nreceipt, "none"}
          /\ UNCHANGED <<ledger, ntree, nactive, nrel, ack>>
      BY <2>6 DEF Begin
    <3> QED BY <1>0, <2>1, <3>1, <3>2, <3>3 DEF NodeTypes, States
  <2>7. CASE PrepareApply
    <3>1. poll' = [poll EXCEPT !.at = "commit"] /\ nreceipt' = "prepared"
      BY <2>7 DEF PrepareApply
    <3>2. UNCHANGED <<ledger, pending, ntree, nactive, nrel, ack>> BY <2>7 DEF PrepareApply
    <3> QED BY <1>0, <2>1, <3>1, <3>2 DEF NodeTypes, States, Fetching
  <2>8. CASE CommitApply
    <3>1. poll' = [poll EXCEPT !.at = "complete"] /\ nreceipt' = "committed" /\ ntree' = pending.rev
      BY <2>8 DEF CommitApply
    <3>2. UNCHANGED <<ledger, pending, nactive, nrel, ack>> BY <2>8 DEF CommitApply
    <3>3. pending.rev \in Revs BY <2>8 DEF CommitApply, NodeInv, TypeOK, Artifacts
    <3> QED BY <1>0, <2>1, <3>1, <3>2, <3>3 DEF NodeTypes, States, Fetching
  <2>9. CASE Complete
    BY <1>0, <2>1, <2>9, NoneTypes DEF Complete, NodeTypes, States, Talking
  <2>10. CASE NodeReload \/ NodeReloadFails
    BY <1>0, <2>1, <2>10 DEF NodeReload, NodeCapture, NodeSwap, NodeReloadFails, NodeTypes
  <2>11. CASE Look \/ Activate
    <3>1. poll' \in {NoPoll, [NoPoll EXCEPT !.at = "looked"]} BY <2>11 DEF Look, Activate
    <3>2. UNCHANGED <<ledger, pending, ntree, nreceipt, nactive, nrel, ack>>
      BY <2>11 DEF Look, Activate
    <3> QED BY <1>0, <2>1, <3>1, <3>2, NoneTypes DEF NodeTypes, Talking
  <2> QED
    BY <1>4, <2>2, <2>3, <2>4, <2>5, <2>6, <2>7, <2>8, <2>9, <2>10, <2>11 DEF NodeStep
<1> QED BY <1>1, <1>2, <1>3, <1>4, NextCases

-----------------------------------------------------------------------------
(* The operation that holds the lock, and the reload.                      *)

\* What PreparePolicy does to the operation and the reload.
LEMMA PreparePolicyCases ==
    ASSUME TypeOK, NEW now \in Times, PreparePolicy(now)
    PROVE  /\ rel.at = "captured" /\ job.at = "idle"
           /\ \/ \E e \in Epochs :
                   /\ Current(recs', e) /\ recs'[e].rev = rel.rev
                   /\ rel' = [rel EXCEPT !.epoch = e]
                   /\ job' = [NoJob EXCEPT !.at = "collect", !.kind = "capture"]
              \/ rel' = NoRel /\ job' = job
              \/ /\ rel' = rel /\ high < MaxEpoch
                 /\ job' = [NoJob EXCEPT !.at = "allocate", !.kind = "capture", !.rev = rel.rev]
BY DEF PreparePolicy, Idle

LEMMA FlowTypesStep ==
    ASSUME TypeOK, JobInv, Next
    PROVE  FlowTypes'
<1>0. FlowTypes BY TypeParts
<1>1. CASE NodeStep
  BY <1>0, <1>1, NodeStepLeaves DEF FlowTypes, daemonVars
<1>2. CASE DeliverStep
  BY <1>0, <1>2, DeliverStepLeaves DEF FlowTypes, daemonVars
<1>3. CASE Crash
  BY <1>3, NoneTypes DEF Crash, FlowTypes
<1>4. CASE Allocate
  <2>1. job' = [job EXCEPT !.at = "write"] /\ UNCHANGED <<rel, adv>>
    BY <1>4 DEF Allocate, daemonVars
  <2> QED BY <1>0, <2>1 DEF FlowTypes, JobSteps
<1>5. CASE WriteFiles
  <2>1. job' = [job EXCEPT !.at = "record"] /\ UNCHANGED <<rel, adv>>
    BY <1>5 DEF WriteFiles, daemonVars
  <2> QED BY <1>0, <2>1 DEF FlowTypes, JobSteps
<1>6. CASE RecordIntent
  <2>1. job' = [job EXCEPT !.at = "prepare"] /\ UNCHANGED <<rel, adv>>
    BY <1>6 DEF RecordIntent, daemonVars
  <2> QED BY <1>0, <2>1 DEF FlowTypes, JobSteps
<1>7. CASE Prepare
  <2>1. job' = [job EXCEPT !.at = "commit"] /\ UNCHANGED <<rel, adv>>
    BY <1>7 DEF Prepare, daemonVars
  <2> QED BY <1>0, <2>1 DEF FlowTypes, JobSteps
<1>8. CASE Commit
  <2>1. job' = [job EXCEPT !.at = "finalize"] /\ UNCHANGED <<rel, adv>>
    BY <1>8 DEF Commit, daemonVars
  <2> QED BY <1>0, <2>1 DEF FlowTypes, JobSteps
<1>9. CASE RecordCapture
  <2>1. /\ job' = [job EXCEPT !.at = "collect"] /\ rel' = [rel EXCEPT !.epoch = high]
        /\ adv' = adv
    BY <1>9 DEF RecordCapture, daemonVars
  <2>2. high \in 0..MaxEpoch BY DEF TypeOK
  <2> QED BY <1>0, <2>1, <2>2 DEF FlowTypes, JobSteps
<1>10. CASE BatchStuck \/ JobFails
  BY <1>0, <1>10, NoneTypes DEF BatchStuck, JobFails, FlowTypes, daemonVars
<1>11. ASSUME NEW now \in Times, Finalize(now) PROVE FlowTypes'
  BY <1>0, <1>11, NoneTypes DEF Finalize, FlowTypes
<1>12. ASSUME NEW now \in Times, Collect(now) PROVE FlowTypes'
  <2>1. job' = NoJob /\ rel' = [rel EXCEPT !.at = "prepared"] /\ adv' = adv
    BY <1>12 DEF Collect, daemonVars
  <2> QED BY <1>0, <2>1, NoneTypes DEF FlowTypes
<1>13. ASSUME NEW d \in Decisions, NEW now \in Times, BatchRecovers(d, now) PROVE FlowTypes'
  BY <1>0, <1>13, NoneTypes DEF BatchRecovers, FlowTypes
<1>14. ASSUME NEW d \in Decisions, NEW now \in Times, Access(d, now) \/ Start(d, now)
       PROVE  FlowTypes'
  BY <1>0, <1>14 DEF Access, Start, FlowTypes, daemonVars
<1>15. ASSUME NEW r \in Requests, NEW d \in Decisions, NEW now \in Times, Reserve(r, d, now)
       PROVE  FlowTypes'
  <2>1. /\ job' = [at |-> "allocate", kind |-> "batch", req |-> r, rev |-> Target[r], proof |-> stamp']
        /\ UNCHANGED <<rel, adv>> /\ RecoverActive(d)
    BY <1>15 DEF Reserve, daemonVars, Recover
  <2>2. stamp' \in Nat BY <2>1 DEF RecoverActive, TypeOK
  <2> QED BY <1>0, <2>1, <2>2 DEF FlowTypes, JobSteps
<1>16. CASE Capture
  <2>1. rel' = [at |-> "captured", rev |-> tree, epoch |-> 0] \/ rel' = NoRel
    BY <1>16 DEF Capture
  <2>2. UNCHANGED <<job, adv>> /\ tree \in Revs BY <1>16 DEF Capture, TypeOK
  <2> QED BY <1>0, <2>1, <2>2, NoneTypes DEF FlowTypes
<1>17. CASE PublishActive
  <2>1. rel' = [rel EXCEPT !.at = "installed"] /\ UNCHANGED <<job, adv>>
    BY <1>17 DEF PublishActive
  <2> QED BY <1>0, <2>1 DEF FlowTypes
<1>18. CASE InstallPolicy
  <2>1. rel' = NoRel /\ job' = job /\ adv' = Artifact(rel.epoch, rel.rev)
    BY <1>18 DEF InstallPolicy
  <2>2. rel.epoch \in Epochs /\ rel.rev \in Revs BY <1>18 DEF InstallPolicy, JobInv
  <2> QED BY <1>0, <2>1, <2>2, NoneTypes DEF FlowTypes, Artifact, Artifacts
<1>19. CASE ReloadFails BY <1>0, <1>19, NoneTypes DEF ReloadFails, FlowTypes, daemonVars
<1>20. ASSUME NEW rev \in Revs, Save(rev) PROVE FlowTypes'
  BY <1>0, <1>20 DEF Save, FlowTypes
<1>21. ASSUME NEW now \in Times, PreparePolicy(now) PROVE FlowTypes'
  <2>1. adv' = adv BY <1>21 DEF PreparePolicy, daemonVars
  <2>2. rel.rev \in Revs \cup {None} /\ Epochs \subseteq 0..MaxEpoch BY DEF TypeOK, Epochs
  <2>3. CASE \E e \in Epochs :
               /\ rel' = [rel EXCEPT !.epoch = e]
               /\ job' = [NoJob EXCEPT !.at = "collect", !.kind = "capture"]
    BY <1>0, <2>1, <2>2, <2>3, NoneTypes DEF FlowTypes, JobSteps, NoJob
  <2>4. CASE rel' = NoRel /\ job' = job
    BY <1>0, <2>1, <2>2, <2>4, NoneTypes DEF FlowTypes
  <2>5. CASE /\ rel' = rel
             /\ job' = [NoJob EXCEPT !.at = "allocate", !.kind = "capture", !.rev = rel.rev]
    BY <1>0, <2>1, <2>5, NoneTypes DEF FlowTypes, JobSteps, NoJob
  <2>6. PreparePolicy(now) BY <1>21
  <2> QED BY <2>3, <2>4, <2>5, <2>6, PreparePolicyCases
<1> QED
  BY <1>1, <1>2, <1>3, <1>4, <1>5, <1>6, <1>7, <1>8, <1>9, <1>10, <1>11, <1>12, <1>13, <1>14,
     <1>15, <1>16, <1>17, <1>18, <1>19, <1>20, <1>21, NextCases
  DEF PrimaryStep, JobStep, ReloadStep, StartStep

LEMMA TypeStep ==
    ASSUME TypeOK, JobInv, StoreInv, WasInv, NodeInv, Next
    PROVE  TypeOK'
<1>1. recs' \in Stores /\ clock' \in Nat /\ high' \in 0..MaxEpoch BY StoreTypes
<1>2. PrimaryTypes' /\ FlowTypes' /\ NodeTypes'
  BY PrimaryTypesStep, FlowTypesStep, NodeTypesStep
<1> QED BY <1>1, <1>2 DEF TypeOK, PrimaryTypes, FlowTypes, NodeTypes, Stores

\* The lock keeps what its holder relies on.
LEMMA JobStepKeeps ==
    ASSUME TypeOK, JobInv, StoreInv, WasInv, Next
    PROVE  JobInv'
<1> USE DEF Draft, Bound
<1>a. ASSUME UNCHANGED <<up, high, job, rel, receipts, recs>> PROVE JobInv'
  BY <1>a DEF JobInv, Prepared
<1>b. ASSUME job'.at = "idle", job'.kind = "none",
             up' => rel' = rel \/ rel'.at = "idle",
             ~up' => rel'.at = "idle"
      PROVE  JobInv'
  BY <1>b DEF JobInv
<1>c. NoJob.at = "idle" /\ NoJob.kind = "none" /\ NoRel.at = "idle" BY DEF NoJob, NoRel
<1>d. job.at = "idle" /\ job' = job /\ up' = up /\ rel' = rel => JobInv'
  BY DEF JobInv
<1>1. CASE NodeStep
  BY <1>1, <1>a, NodeStepLeaves DEF daemonVars, treeVars, storeVars
<1>2. CASE DeliverStep
  <2>1. job.at = "idle" BY <1>2 DEF DeliverStep, DeliverManifest, DeliverObject, Idle
  <2> QED BY <1>2, <1>d, <2>1, DeliverStepLeaves DEF daemonVars
<1>3. CASE Crash BY <1>3, <1>b, <1>c DEF Crash
<1>4. CASE Allocate
  <2>1. /\ job.at = "allocate" /\ job' = [job EXCEPT !.at = "write"] /\ high' = high + 1
        /\ UNCHANGED <<rel, up, receipts, recs>>
    BY <1>4 DEF Allocate, daemonVars, treeVars
  <2>2. job'.at = "write" /\ job'.kind = job.kind /\ job'.req = job.req /\ job'.rev = job.rev
    BY <2>1 DEF TypeOK
  <2>3. high' \in Epochs BY <2>1 DEF JobInv, TypeOK, Epochs
  <2> QED BY <2>1, <2>2, <2>3 DEF JobInv, Prepared
<1>5. CASE WriteFiles
  <2>1. /\ job.at = "write" /\ job' = [job EXCEPT !.at = "record"]
        /\ UNCHANGED <<high, rel, up, receipts, recs>>
    BY <1>5 DEF WriteFiles, daemonVars, treeVars
  <2>2. job'.at = "record" /\ job'.kind = job.kind /\ job'.req = job.req /\ job'.rev = job.rev
    BY <2>1 DEF TypeOK
  <2> QED BY <2>1, <2>2 DEF JobInv, Prepared
<1>6. CASE RecordIntent
  <2>1. /\ job.at = "record" /\ job.kind = "batch" /\ job' = [job EXCEPT !.at = "prepare"]
        /\ recs' = [recs EXCEPT ![high] = Rec(job.rev, job.req, job.proof, 0)]
        /\ UNCHANGED <<high, rel, up, receipts>>
    BY <1>6 DEF RecordIntent, daemonVars, treeVars
  <2>2. /\ job'.at = "prepare" /\ job'.kind = job.kind /\ job'.req = job.req
        /\ job'.rev = job.rev /\ job'.proof = job.proof
    BY <2>1 DEF TypeOK
  <2>3. high \in Epochs BY <2>1 DEF JobInv
  <2>4. recs'[high] = Rec(job.rev, job.req, job.proof, 0) BY <2>1, <2>3 DEF TypeOK
  <2> QED BY <2>1, <2>2, <2>3, <2>4 DEF JobInv, Prepared
<1>7. CASE Prepare
  <2>1. /\ job.at = "prepare" /\ job' = [job EXCEPT !.at = "commit"]
        /\ receipts' = [receipts EXCEPT ![job.req] = "prepared"]
        /\ UNCHANGED <<high, rel, up, recs>>
    BY <1>7 DEF Prepare, daemonVars, storeVars
  <2>2. /\ job'.at = "commit" /\ job'.kind = job.kind /\ job'.req = job.req
        /\ job'.rev = job.rev /\ job'.proof = job.proof
    BY <2>1 DEF TypeOK
  <2>3. job.kind = "batch" /\ job.req \in Requests BY <2>1 DEF JobInv
  <2>4. receipts'[job.req] = "prepared" BY <2>1, <2>3 DEF TypeOK
  <2> QED BY <2>1, <2>2, <2>3, <2>4 DEF JobInv
<1>8. CASE Commit
  <2>1. /\ job.at = "commit" /\ job' = [job EXCEPT !.at = "finalize"]
        /\ receipts' = Settled("committed")
        /\ UNCHANGED <<high, rel, up, recs>>
    BY <1>8 DEF Commit, RecoverActive, daemonVars, storeVars
  <2>2. /\ job'.at = "finalize" /\ job'.kind = job.kind /\ job'.req = job.req
        /\ job'.rev = job.rev /\ job'.proof = job.proof
    BY <2>1 DEF TypeOK
  <2>3. job.kind = "batch" /\ job.req \in Requests /\ receipts[job.req] = "prepared"
    BY <2>1 DEF JobInv
  <2>4. receipts'[job.req] = "committed" BY <2>1, <2>3 DEF Settled, Prepared
  <2> QED BY <2>1, <2>2, <2>3, <2>4 DEF JobInv
<1>9. CASE RecordCapture
  <2>1. /\ job.at = "record" /\ job.kind = "capture" /\ job' = [job EXCEPT !.at = "collect"]
        /\ rel' = [rel EXCEPT !.epoch = high] /\ up' = up
    BY <1>9 DEF RecordCapture, daemonVars
  <2>2. job'.at = "collect" /\ job'.kind = "capture" BY <2>1 DEF TypeOK
  <2>3. high \in Epochs /\ rel.at = "captured" BY <2>1 DEF JobInv
  <2>4. rel'.at = rel.at /\ rel'.rev = rel.rev /\ rel'.epoch = high BY <2>1 DEF TypeOK
  <2> QED BY <2>1, <2>2, <2>3, <2>4 DEF JobInv
<1>10. CASE BatchStuck \/ JobFails
  BY <1>10, <1>b, <1>c DEF BatchStuck, JobFails, daemonVars, JobInv
<1>11. ASSUME NEW now \in Times, Finalize(now) PROVE JobInv'
  BY <1>11, <1>b, <1>c DEF Finalize, JobInv
<1>12. ASSUME NEW now \in Times, Collect(now) PROVE JobInv'
  <2>1. /\ job.at = "collect" /\ job' = NoJob /\ rel' = [rel EXCEPT !.at = "prepared"]
        /\ up' = up
    BY <1>12 DEF Collect, daemonVars
  <2>2. rel'.at = "prepared" /\ rel'.rev = rel.rev /\ rel'.epoch = rel.epoch
    BY <2>1 DEF TypeOK
  <2> QED BY <1>c, <2>1, <2>2 DEF JobInv
<1>13. ASSUME NEW d \in Decisions, NEW now \in Times, BatchRecovers(d, now) PROVE JobInv'
  BY <1>13, <1>b, <1>c DEF BatchRecovers, JobInv
<1>14. ASSUME NEW d \in Decisions, NEW now \in Times, Access(d, now) PROVE JobInv'
  BY <1>14, <1>d DEF Access, Idle, daemonVars
<1>15. ASSUME NEW d \in Decisions, NEW now \in Times, Start(d, now) PROVE JobInv'
  <2>1. job.at = "idle" /\ rel.at = "idle" /\ UNCHANGED <<job, rel>> /\ up'
    BY <1>15 DEF Start, JobInv
  <2> QED BY <2>1 DEF JobInv
<1>16. ASSUME NEW r \in Requests, NEW d \in Decisions, NEW now \in Times, Reserve(r, d, now)
       PROVE  JobInv'
  <2>1. /\ job' = [at |-> "allocate", kind |-> "batch", req |-> r, rev |-> Target[r], proof |-> stamp']
        /\ UNCHANGED <<rel, up, high>> /\ RecoverActive(d) /\ high < LastBatch /\ up
    BY <1>16 DEF Reserve, daemonVars, Recover, Serving
  <2>2. \A q \in Requests : receipts'[q] # "prepared" BY <2>1, RecoverActiveDecides
  <2>3. high < MaxEpoch BY <2>1 DEF TypeOK
  <2>4. Prepared' = {} BY <2>2 DEF Prepared
  <2> QED BY <2>1, <2>3, <2>4 DEF JobInv
<1>17. CASE Capture
  <2>1. rel' = [at |-> "captured", rev |-> tree, epoch |-> 0] \/ rel' = NoRel
    BY <1>17 DEF Capture
  <2>2. /\ job.at = "idle" /\ up /\ tree \in Revs
        /\ UNCHANGED <<job, up, high, receipts, recs>>
    BY <1>17 DEF Capture, Idle, TypeOK, treeVars, storeVars
  <2> QED BY <1>c, <2>1, <2>2 DEF JobInv
<1>18. CASE PublishActive
  <2>1. /\ rel.at = "prepared" /\ rel' = [rel EXCEPT !.at = "installed"]
        /\ UNCHANGED <<job, up, high, receipts, recs>>
    BY <1>18 DEF PublishActive, treeVars, storeVars
  <2>2. rel'.at = "installed" /\ rel'.rev = rel.rev /\ rel'.epoch = rel.epoch
    BY <2>1 DEF TypeOK
  <2> QED BY <2>1, <2>2 DEF JobInv, Prepared
<1>19. CASE InstallPolicy
  <2>1. /\ rel.at = "installed" /\ rel' = NoRel
        /\ UNCHANGED <<job, up, high, receipts, recs>>
    BY <1>19 DEF InstallPolicy, treeVars, storeVars
  <2> QED BY <1>c, <2>1 DEF JobInv, Prepared
<1>20. CASE ReloadFails
  <2>1. job.at = "idle" /\ rel' = NoRel /\ UNCHANGED <<job, up, high, receipts, recs>>
    BY <1>20 DEF ReloadFails, Idle, treeVars, storeVars, daemonVars
  <2> QED BY <1>c, <2>1 DEF JobInv
<1>21. ASSUME NEW rev \in Revs, Save(rev) PROVE JobInv'
  BY <1>21, <1>a DEF Save, storeVars
<1>22. ASSUME NEW now \in Times, PreparePolicy(now) PROVE JobInv'
  <2>1. UNCHANGED <<up, high, receipts>> /\ rel.at = "captured" /\ job.at = "idle" /\ up
    BY <1>22 DEF PreparePolicy, daemonVars, treeVars, Idle, JobInv
  <2>2. ASSUME NEW e \in Epochs, rel' = [rel EXCEPT !.epoch = e],
               job' = [NoJob EXCEPT !.at = "collect", !.kind = "capture"]
        PROVE  JobInv'
    <3>1. rel'.at = rel.at /\ rel'.rev = rel.rev /\ rel'.epoch = e BY <2>2 DEF TypeOK
    <3>2. job'.at = "collect" /\ job'.kind = "capture" BY <2>2 DEF NoJob
    <3> QED BY <2>1, <3>1, <3>2 DEF JobInv
  <2>3. ASSUME rel' = NoRel, job' = job PROVE JobInv'
    BY <1>c, <2>1, <2>3 DEF JobInv
  <2>4. ASSUME rel' = rel, high < MaxEpoch,
               job' = [NoJob EXCEPT !.at = "allocate", !.kind = "capture", !.rev = rel.rev]
        PROVE  JobInv'
    <3>1. job'.at = "allocate" /\ job'.kind = "capture" /\ job'.rev = rel.rev
      BY <2>4 DEF NoJob
    <3> QED BY <2>1, <2>4, <3>1 DEF JobInv
  <2> QED BY <1>22, <2>2, <2>3, <2>4, PreparePolicyCases
<1> QED
  BY <1>1, <1>2, <1>3, <1>4, <1>5, <1>6, <1>7, <1>8, <1>9, <1>10, <1>11, <1>12, <1>13, <1>14,
     <1>15, <1>16, <1>17, <1>18, <1>19, <1>20, <1>21, <1>22, NextCases
  DEF PrimaryStep, JobStep, ReloadStep, StartStep

-----------------------------------------------------------------------------
(* Only policies the tree has had are captured, committed and followed.    *)

\* Where a committed record of the next state comes from.
LEMMA CommittedFrom ==
    ASSUME TypeOK, JobInv, StoreInv, WasInv, Next, NEW e \in Committed(recs')
    PROVE  \/ e \in Committed(recs) /\ recs'[e].rev = recs[e].rev
           \/ recs'[e].rev \in was'
<1>0. e \in Epochs /\ recs'[e] # None BY DEF Committed, Held
<1>1. ASSUME recs' = recs PROVE e \in Committed(recs) /\ recs'[e].rev = recs[e].rev
  BY <1>1
<1>2. ASSUME NEW now \in Nat, recs' = GC(recs, now)
      PROVE  e \in Committed(recs) /\ recs'[e].rev = recs[e].rev
  <2>1. recs \in Stores BY DEF TypeOK, Stores
  <2>2. recs'[e] = recs[e] BY <1>0, <1>2, <2>1, GCKeeps
  <2> QED BY <1>0, <2>2 DEF Committed, Held
<1>3. ASSUME NEW d \in Decisions, NEW now \in Times, RecoverActive(d),
             e \in Held(Recovered(d, now)), recs'[e].rev = Recovered(d, now)[e].rev
      PROVE  \/ e \in Committed(recs) /\ recs'[e].rev = recs[e].rev
             \/ recs'[e].rev \in was'
  <2>1. CASE e \in Committed(recs) BY <1>3, <2>1, RecoveredKeeps
  <2>2. CASE e \in PendingIntents(recs) /\ Settled(d)[recs[e].intent] = "committed"
    <3>1. recs[e].intent \in Requests /\ recs[e].rev = Target[recs[e].intent]
      BY <2>2 DEF PendingIntents, StoreInv
    <3>2. Target[recs[e].intent] \in was' BY <1>3, <2>2, <3>1, RecoverActiveDecides
    <3>3. recs'[e].rev = recs[e].rev BY <1>0, <1>3, RecoveredKeeps DEF Thins, Held
    <3> QED BY <3>1, <3>2, <3>3
  <2> QED BY <1>3, <2>1, <2>2, RecoveredKeeps
<1>4. ASSUME NEW d \in Decisions, NEW now \in Times,
             Access(d, now) \/ Start(d, now) \/ BatchRecovers(d, now)
      PROVE  \/ e \in Committed(recs) /\ recs'[e].rev = recs[e].rev
             \/ recs'[e].rev \in was'
  <2>1. RecoverActive(d) /\ recs' = Recovered(d, now)
    BY <1>4 DEF Access, Start, BatchRecovers, Recover, RecoverStore
  <2>2. e \in Held(Recovered(d, now)) BY <1>0, <2>1 DEF Held
  <2> QED BY <1>3, <2>1, <2>2
<1>5. ASSUME NEW r \in Requests, NEW d \in Decisions, NEW now \in Times, Reserve(r, d, now)
      PROVE  \/ e \in Committed(recs) /\ recs'[e].rev = recs[e].rev
             \/ recs'[e].rev \in was'
  <2>1. RecoverActive(d) /\ recs' = GC(Recovered(d, now), clock') /\ clock' = Later(now, clock)
    BY <1>5 DEF Reserve, Recover
  <2>2. clock' \in Nat BY StoreTypes
  <2>3. recs'[e] = Recovered(d, now)[e] BY <1>0, <2>1, <2>2, GCKeeps, RecoveredKeeps
  <2>4. e \in Held(Recovered(d, now)) BY <1>0, <2>3 DEF Held
  <2> QED BY <1>3, <2>1, <2>3, <2>4
<1>6. ASSUME NEW now \in Times, Finalize(now)
      PROVE  \/ e \in Committed(recs) /\ recs'[e].rev = recs[e].rev
             \/ recs'[e].rev \in was'
  <2>1. /\ high \in Epochs /\ recs[high] = Rec(job.rev, job.req, job.proof, 0)
        /\ job.req \in Requests /\ job.rev = Target[job.req] /\ receipts[job.req] = "committed"
    BY <1>6 DEF Finalize, JobInv, Bound
  <2>2. recs' = [recs EXCEPT ![high].until = clock' + Availability] /\ was' = was
    BY <1>6 DEF Finalize, treeVars
  <2>3. recs[high].rev = Target[job.req] BY <2>1 DEF Rec
  <2>4. CASE e = high
    <3>1. recs'[e].rev = recs[high].rev BY <2>1, <2>2, <2>4 DEF TypeOK, Rec
    <3> QED BY <2>1, <2>2, <2>3, <3>1 DEF WasInv
  <2>5. CASE e # high
    <3>1. recs'[e] = recs[e] BY <1>0, <2>2, <2>5 DEF TypeOK
    <3> QED BY <1>0, <3>1 DEF Committed, Held
  <2> QED BY <2>4, <2>5
<1>7. ASSUME NEW now \in Times, NEW nnow \in Times, DeliverManifest(now, nnow)
      PROVE  e \in Committed(recs) /\ recs'[e].rev = recs[e].rev
  <2>1. poll.want # None BY <1>7 DEF DeliverManifest, WasInv, Fetching
  <2>2. Collects BY <2>1, <1>7, DeliverCollects
  <2>3. recs[e] # None /\ recs'[e].rev = recs[e].rev BY <1>0, <2>2 DEF Collects, Thins
  <2>4. CASE e = poll.want.epoch
    BY <1>0, <1>7, <2>3, <2>4 DEF DeliverManifest, Available, Committed, Held
  <2>5. CASE e # poll.want.epoch
    <3>1. PICK u : recs' = [recs EXCEPT ![poll.want.epoch].until = u]
      BY <1>7 DEF DeliverManifest
    <3>2. recs'[e] = recs[e] BY <1>0, <2>5, <3>1 DEF TypeOK
    <3> QED BY <1>0, <3>2 DEF Committed, Held
  <2> QED BY <2>3, <2>4, <2>5
<1>8. CASE RecordIntent \/ RecordCapture
  <2>1. CASE e = high
    <3>1. RecordCapture BY <1>8, <2>1, RecordAdds DEF Committed
    <3>2. rel.at = "captured" /\ job.rev = rel.rev /\ was' = was
      BY <3>1 DEF RecordCapture, JobInv, Draft, treeVars
    <3> QED BY <1>8, <2>1, <3>2, RecordAdds DEF WasInv
  <2>2. CASE e # high
    <3>1. recs'[e] = recs[e] BY <1>0, <1>8, <2>2, RecordAdds
    <3> QED BY <1>0, <3>1 DEF Committed, Held
  <2> QED BY <2>1, <2>2
<1>9. CASE NodeStep BY <1>1, <1>9, NodeStepLeaves DEF storeVars
<1>10. CASE Allocate \/ WriteFiles \/ Prepare \/ Commit \/ BatchStuck \/ JobFails \/ Capture
            \/ PublishActive \/ InstallPolicy \/ ReloadFails \/ Crash
  BY <1>1, <1>10 DEF Allocate, WriteFiles, Prepare, Commit, BatchStuck, JobFails, Capture,
                     PublishActive, InstallPolicy, ReloadFails, Crash, storeVars
<1>11. ASSUME NEW rev \in Revs, Save(rev) PROVE recs' = recs BY <1>11 DEF Save, storeVars
<1>12. ASSUME NEW o, DeliverObject(o) PROVE recs' = recs BY <1>12 DEF DeliverObject
<1>13. ASSUME NEW now \in Times, PreparePolicy(now) \/ Collect(now)
       PROVE  recs' = GC(recs, clock') /\ clock' \in Nat
  BY <1>13, StoreTypes DEF PreparePolicy, Collect
<1> QED
  BY <1>1, <1>2, <1>4, <1>5, <1>6, <1>7, <1>8, <1>9, <1>10, <1>11, <1>12, <1>13, NextCases
  DEF PrimaryStep, DeliverStep, JobStep, ReloadStep, StartStep

\* The tree's history only grows, and holds what is committed.
TreeInv ==
    /\ tree \in was
    /\ \A r, q \in Requests : receipts[r] = "prepared" /\ receipts[q] = "prepared" => r = q
    /\ \A r \in Requests : receipts[r] = "committed" => Target[r] \in was

LEMMA TreeStep ==
    ASSUME TypeOK, JobInv, WasInv, Next
    PROVE  TreeInv' /\ was \subseteq was'
<1>0. TreeInv BY DEF TreeInv, WasInv
<1>1. ASSUME NEW d \in Decisions, RecoverActive(d) PROVE TreeInv' /\ was \subseteq was'
  BY <1>1, RecoverActiveDecides DEF TreeInv
<1>2. ASSUME NEW d \in Decisions, NEW now \in Times,
             \/ Access(d, now) \/ Start(d, now) \/ BatchRecovers(d, now)
             \/ \E r \in Requests : Reserve(r, d, now)
      PROVE  RecoverActive(d)
  BY <1>2 DEF Access, Start, BatchRecovers, Reserve, Recover
<1>3. CASE Commit BY <1>1, <1>3 DEF Commit, Decisions
<1>4. CASE Prepare
  <2>1. /\ receipts' = [receipts EXCEPT ![job.req] = "prepared"] /\ UNCHANGED <<tree, was>>
        /\ job.req \in Requests /\ Prepared = {}
    BY <1>4 DEF Prepare, JobInv, Bound
  <2>2. \A r \in Requests : receipts[r] # "prepared" BY <2>1 DEF Prepared
  <2>3. \A r \in Requests : receipts'[r] = IF r = job.req THEN "prepared" ELSE receipts[r]
    BY <2>1 DEF TypeOK
  <2> QED BY <1>0, <2>1, <2>2, <2>3 DEF TreeInv
<1>5. ASSUME NEW rev \in Revs, Save(rev) PROVE TreeInv' /\ was \subseteq was'
  BY <1>0, <1>5 DEF Save, TreeInv
<1>6. CASE UNCHANGED treeVars BY <1>0, <1>6 DEF treeVars, TreeInv
<1>7. CASE NodeStep BY <1>6, <1>7, NodeStepLeaves
<1>8. CASE DeliverStep BY <1>6, <1>8, DeliverStepLeaves
<1>9. CASE Allocate \/ WriteFiles \/ RecordIntent \/ BatchStuck \/ RecordCapture \/ JobFails
           \/ Capture \/ PublishActive \/ InstallPolicy \/ ReloadFails \/ Crash
  BY <1>6, <1>9 DEF Allocate, WriteFiles, RecordIntent, BatchStuck, RecordCapture, JobFails,
                    Capture, PublishActive, InstallPolicy, ReloadFails, Crash
<1>10. ASSUME NEW now \in Times, Finalize(now) \/ Collect(now) \/ PreparePolicy(now)
       PROVE  UNCHANGED treeVars
  BY <1>10 DEF Finalize, Collect, PreparePolicy
<1> QED
  BY <1>1, <1>2, <1>3, <1>4, <1>5, <1>6, <1>7, <1>8, <1>9, <1>10, NextCases
  DEF PrimaryStep, JobStep, ReloadStep, StartStep

\* Where what the node follows comes from.
LEMMA NodeFrom ==
    ASSUME TypeOK, NodeInv, Next
    PROVE  /\ ledger' \in {ledger, pending}
           /\ pending' \in {None, pending} \/ (pending' = poll.want /\ poll.at \in Fetching)
           /\ poll'.at \in Fetching =>
                 \/ poll.at \in Fetching /\ poll'.want = poll.want
                 \/ poll'.want = adv /\ adv # None
           /\ ntree' = ntree \/ (pending # None /\ ntree' = pending.rev)
<1>a. NoPoll.at = "idle" BY DEF NoPoll
<1>b. \A x \in {"looked", "activate"} : [NoPoll EXCEPT !.at = x].at = x BY DEF NoPoll
<1>1. CASE PrimaryStep BY <1>1, PrimaryStepLeaves DEF nodeVars
<1>2. CASE Crash BY <1>2 DEF Crash, nodeVars
<1>3. CASE DeliverStep BY <1>3, <1>a, DeliverStepLeaves DEF nodeVars, Fetching
<1>4. ASSUME NEW d \in Decisions, Ask(d) \/ NodeRestart(d)
      PROVE  /\ ledger' \in {ledger, pending} /\ pending' \in {None, pending}
             /\ poll'.at \notin Fetching
             /\ ntree' = ntree \/ (pending # None /\ ntree' = pending.rev)
  <2>1. ntree' = NodeTree(d) BY <1>4 DEF Ask, NodeRestart, Settle
  <2>2. ntree' = ntree \/ (pending # None /\ ntree' = pending.rev) BY <2>1 DEF NodeTree, NodeInv
  <2>3. poll'.at \notin Fetching BY <1>4, <1>a DEF Ask, NodeRestart, Fetching
  <2> QED BY <1>4, <2>2, <2>3 DEF Ask, NodeRestart, Settle, SettledLedger
<1>5. CASE Heartbeat BY <1>5, <1>a DEF Heartbeat, Serving, Fetching
<1>6. CASE Unavailable \/ PollFails BY <1>6, <1>a DEF Unavailable, PollFails, nodeVars, Fetching
<1>7. CASE Begin
  <2>1. poll.at = "objects" /\ UNCHANGED <<ledger, ntree>> /\ pending' \in {pending, poll.want}
    BY <1>7 DEF Begin
  <2>2. \/ poll' = NoPoll \/ poll' = [poll EXCEPT !.at = "prepare"]
        \/ poll' = [NoPoll EXCEPT !.at = "activate"]
    BY <1>7 DEF Begin
  <2>3. poll'.at \in Fetching => poll'.want = poll.want
    BY <1>a, <1>b, <2>2 DEF TypeOK, Fetching
  <2> QED BY <2>1, <2>3 DEF Fetching
<1>8. CASE PrepareApply
  <2>1. /\ poll.at = "prepare" /\ poll' = [poll EXCEPT !.at = "commit"]
        /\ UNCHANGED <<ledger, pending, ntree>>
    BY <1>8 DEF PrepareApply
  <2>2. poll'.want = poll.want BY <2>1 DEF TypeOK
  <2> QED BY <2>1, <2>2 DEF Fetching
<1>9. CASE CommitApply
  <2>1. /\ poll.at = "commit" /\ poll' = [poll EXCEPT !.at = "complete"]
        /\ UNCHANGED <<ledger, pending>> /\ ntree' = pending.rev /\ pending # None
    BY <1>9 DEF CommitApply, NodeInv
  <2>2. poll'.want = poll.want BY <2>1 DEF TypeOK
  <2> QED BY <2>1, <2>2 DEF Fetching
<1>10. CASE Complete \/ Look \/ Activate
  BY <1>10, <1>a, <1>b DEF Complete, Look, Activate, Fetching
<1>11. CASE NodeReload \/ NodeReloadFails
  BY <1>11 DEF NodeReload, NodeCapture, NodeSwap, NodeReloadFails
<1> QED
  BY <1>1, <1>2, <1>3, <1>4, <1>5, <1>6, <1>7, <1>8, <1>9, <1>10, <1>11, NextCases DEF NodeStep

\* Where what the primary captures and advertises comes from.
LEMMA FlowFrom ==
    ASSUME TypeOK, JobInv, Next
    PROVE  /\ \/ adv' \in {adv, None}
              \/ rel.at = "installed" /\ adv' = RelArtifact /\ rel'.at = "idle" /\ job' = job
           /\ rel'.at # "idle" =>
                 \/ rel.at # "idle" /\ rel'.rev = rel.rev
                 \/ rel'.rev = tree
           /\ RelReady' =>
                 \/ RelReady /\ RelArtifact' = RelArtifact /\ adv' \in {adv, None}
                 \/ /\ adv' = adv
                    /\ \E e \in Epochs : /\ Current(recs', e) /\ recs'[e].rev = rel.rev
                                         /\ RelArtifact' = Artifact(e, rel.rev)
                 \/ RecordCapture
<1> USE DEF RelReady, RelArtifact, Artifact
<1>a. NoRel.at = "idle" /\ NoJob.at = "idle" BY DEF NoRel, NoJob
<1>b. ASSUME UNCHANGED <<rel, adv>>, job'.at = "collect" => job.at = "collect"
      PROVE  /\ adv' = adv
             /\ rel'.at # "idle" => rel.at # "idle" /\ rel'.rev = rel.rev
             /\ RelReady' => RelReady /\ RelArtifact' = RelArtifact
  BY <1>b
<1>1. CASE NodeStep BY <1>1, <1>b, NodeStepLeaves DEF daemonVars
<1>2. CASE DeliverStep BY <1>2, <1>b, DeliverStepLeaves DEF daemonVars
<1>3. CASE Crash BY <1>3, <1>a DEF Crash
<1>4. CASE Allocate \/ WriteFiles \/ RecordIntent \/ Prepare \/ Commit
  <2>1. UNCHANGED <<rel, adv>>
    BY <1>4 DEF Allocate, WriteFiles, RecordIntent, Prepare, Commit, daemonVars
  <2>2. job'.at # "collect"
    BY <1>4 DEF Allocate, WriteFiles, RecordIntent, Prepare, Commit, TypeOK
  <2> QED BY <1>b, <2>1, <2>2
<1>5. CASE RecordCapture
  <2>1. rel' = [rel EXCEPT !.epoch = high] /\ adv' = adv BY <1>5 DEF RecordCapture, daemonVars
  <2>2. rel'.at = rel.at /\ rel'.rev = rel.rev BY <2>1 DEF TypeOK
  <2> QED BY <1>5, <2>1, <2>2
<1>6. CASE BatchStuck BY <1>6, <1>a, <1>b DEF BatchStuck, daemonVars
<1>7. CASE JobFails BY <1>7, <1>a DEF JobFails
<1>8. ASSUME NEW now \in Times, Finalize(now) PROVE UNCHANGED <<rel, adv>> /\ job'.at # "collect"
  BY <1>8, <1>a DEF Finalize
<1>9. ASSUME NEW now \in Times, Collect(now)
      PROVE  /\ adv' = adv
             /\ rel'.at # "idle" => rel.at # "idle" /\ rel'.rev = rel.rev
             /\ RelReady' => RelReady /\ RelArtifact' = RelArtifact
  <2>1. rel' = [rel EXCEPT !.at = "prepared"] /\ adv' = adv /\ job.at = "collect"
    BY <1>9 DEF Collect, daemonVars
  <2>2. rel'.rev = rel.rev /\ rel'.epoch = rel.epoch BY <2>1 DEF TypeOK
  <2>3. rel.at = "captured" BY <2>1 DEF JobInv
  <2> QED BY <2>1, <2>2, <2>3
<1>10. ASSUME NEW d \in Decisions, NEW now \in Times, BatchRecovers(d, now)
       PROVE  UNCHANGED <<rel, adv>> /\ job'.at # "collect"
  BY <1>10, <1>a DEF BatchRecovers
<1>11. ASSUME NEW d \in Decisions, NEW now \in Times, Access(d, now) \/ Start(d, now)
       PROVE  UNCHANGED <<rel, adv, job>>
  BY <1>11 DEF Access, Start, daemonVars
<1>12. ASSUME NEW r \in Requests, NEW d \in Decisions, NEW now \in Times, Reserve(r, d, now)
       PROVE  UNCHANGED <<rel, adv>> /\ job'.at # "collect"
  BY <1>12 DEF Reserve, daemonVars
<1>13. CASE Capture
  <2>1. /\ rel' = [at |-> "captured", rev |-> tree, epoch |-> 0] \/ rel' = NoRel
        /\ UNCHANGED <<job, adv>> /\ job.at = "idle"
    BY <1>13 DEF Capture, Idle
  <2> QED BY <1>a, <2>1
<1>14. CASE PublishActive
  <2>1. rel.at = "prepared" /\ rel' = [rel EXCEPT !.at = "installed"] /\ UNCHANGED <<job, adv>>
    BY <1>14 DEF PublishActive
  <2>2. rel'.at = "installed" /\ rel'.rev = rel.rev /\ rel'.epoch = rel.epoch
    BY <2>1 DEF TypeOK
  <2> QED BY <2>1, <2>2
<1>15. CASE InstallPolicy
  <2>1. /\ rel.at = "installed" /\ rel' = NoRel /\ adv' = Artifact(rel.epoch, rel.rev)
        /\ job' = job
    BY <1>15 DEF InstallPolicy
  <2>2. job.at # "collect" BY <2>1 DEF JobInv
  <2> QED BY <1>a, <2>1, <2>2
<1>16. CASE ReloadFails
  <2>1. rel' = NoRel /\ UNCHANGED <<job, adv>> /\ job.at = "idle"
    BY <1>16 DEF ReloadFails, daemonVars, Idle
  <2> QED BY <1>a, <2>1
<1>17. ASSUME NEW rev \in Revs, Save(rev) PROVE UNCHANGED <<rel, adv, job>>
  BY <1>17 DEF Save
<1>18. ASSUME NEW now \in Times, PreparePolicy(now)
       PROVE  /\ adv' = adv
              /\ rel'.at # "idle" => rel.at # "idle" /\ rel'.rev = rel.rev
              /\ RelReady' => \E e \in Epochs :
                    /\ Current(recs', e) /\ recs'[e].rev = rel.rev
                    /\ RelArtifact' = Artifact(e, rel.rev)
  <2>1. adv' = adv BY <1>18 DEF PreparePolicy, daemonVars
  <2>2. rel.at = "captured" /\ job.at = "idle" BY <1>18, PreparePolicyCases
  <2>3. ASSUME NEW e \in Epochs, rel' = [rel EXCEPT !.epoch = e]
        PROVE  rel'.at = "captured" /\ rel'.rev = rel.rev /\ rel'.epoch = e
    BY <2>2, <2>3 DEF TypeOK
  <2>4. ASSUME job' = [NoJob EXCEPT !.at = "allocate", !.kind = "capture", !.rev = rel.rev]
        PROVE  job'.at = "allocate"
    BY <2>4 DEF NoJob
  <2>5. PreparePolicy(now) BY <1>18
  <2>6. CASE \E e \in Epochs :
               /\ Current(recs', e) /\ recs'[e].rev = rel.rev
               /\ rel' = [rel EXCEPT !.epoch = e]
    BY <2>1, <2>2, <2>3, <2>6
  <2>7. CASE rel' = NoRel /\ job' = job BY <1>a, <2>1, <2>2, <2>7
  <2>8. CASE /\ rel' = rel
             /\ job' = [NoJob EXCEPT !.at = "allocate", !.kind = "capture", !.rev = rel.rev]
    BY <2>1, <2>2, <2>4, <2>8
  <2> QED BY <2>5, <2>6, <2>7, <2>8, PreparePolicyCases
<1> QED
  BY <1>1, <1>2, <1>3, <1>4, <1>5, <1>6, <1>7, <1>8, <1>9, <1>10, <1>11, <1>12, <1>13, <1>14,
     <1>15, <1>16, <1>17, <1>18, <1>b, NextCases
  DEF PrimaryStep, JobStep, ReloadStep, StartStep

LEMMA WasStep ==
    ASSUME TypeOK, JobInv, StoreInv, WasInv, NodeInv, Next
    PROVE  WasInv'
<1>1. TreeInv' /\ was \subseteq was' /\ tree \in was BY TreeStep DEF WasInv
<1>2. \A e \in Committed(recs') : recs'[e].rev \in was'
  <2> SUFFICES ASSUME NEW e \in Committed(recs') PROVE recs'[e].rev \in was' OBVIOUS
  <2> QED BY <1>1, CommittedFrom DEF WasInv
<1>3. rel'.at # "idle" => rel'.rev \in was' BY <1>1, FlowFrom DEF WasInv
<1>4. adv' # None => adv'.rev \in was'
  <2>1. CASE adv' \in {adv, None} BY <1>1, <2>1 DEF WasInv
  <2>2. CASE rel.at = "installed" /\ adv' = RelArtifact
    BY <1>1, <2>2 DEF WasInv, RelArtifact, Artifact
  <2> QED BY <2>1, <2>2, FlowFrom
<1>5. pending' # None => pending'.rev \in was' BY <1>1, NodeFrom DEF WasInv
<1>6. poll'.at \in Fetching => poll'.want # None /\ poll'.want.rev \in was'
  BY <1>1, NodeFrom DEF WasInv
<1>7. ntree' # None => ntree' \in was' BY <1>1, NodeFrom DEF WasInv
<1> QED BY <1>1, <1>2, <1>3, <1>4, <1>5, <1>6, <1>7 DEF WasInv, TreeInv

-----------------------------------------------------------------------------
(* Promises, the order of epochs, and the node.                            *)

LEMMA PromiseStep ==
    ASSUME TypeOK, JobInv, StoreInv, WasInv, PromiseInv, Next
    PROVE  PromiseInv'
<1>0. clock \in Nat /\ clock' \in Nat /\ promised \in [Epochs -> Nat]
  BY StoreTypes DEF TypeOK
<1>1. ASSUME NEW e \in Epochs, promised'[e] = promised[e], promised[e] > clock'
      PROVE  e \in Committed(recs') /\ recs'[e].until >= promised[e]
  <2>1. CASE Collects
    <3>1. promised[e] > clock BY <1>0, <1>1, <2>1 DEF Collects
    <3>2. e \in Committed(recs) /\ recs[e].until >= promised[e] BY <3>1 DEF PromiseInv
    <3>3. recs[e].until \in Nat BY <3>2 DEF Committed, Held, TypeOK, Records
    <3>4. recs[e].until > clock' BY <1>0, <1>1, <3>2, <3>3
    <3>5. e \in Committed(recs') /\ recs'[e].until >= recs[e].until
      BY <2>1, <3>2, <3>4 DEF Collects
    <3>6. recs'[e].until \in Nat BY <3>5, <2>1 DEF Collects, Stores, Committed, Held, Records
    <3> QED BY <1>0, <3>2, <3>3, <3>5, <3>6
  <2>2. CASE Quiet \/ Allocate \/ WriteFiles
    BY <1>1, <2>2 DEF Quiet, Allocate, WriteFiles, PromiseInv
  <2>3. CASE RecordIntent \/ RecordCapture
    <3>1. clock' = clock BY <2>3, RecordAdds
    <3>2. e \in Committed(recs) /\ recs[e].until >= promised[e] BY <1>1, <3>1 DEF PromiseInv
    <3>3. recs'[e] = recs[e] BY <2>3, <3>2, RecordAdds DEF Committed, Held, Epochs
    <3> QED BY <3>2, <3>3 DEF Committed, Held
  <2> QED BY <2>1, <2>2, <2>3, StoreCases
<1>2. CASE promised' = promised BY <1>1, <1>2 DEF PromiseInv
<1>3. ASSUME NEW now \in Times, NEW nnow \in Times, DeliverManifest(now, nnow) PROVE PromiseInv'
  <2>1. poll.want # None BY <1>3 DEF DeliverManifest, WasInv, Fetching
  <2>2. poll.want.epoch \in Epochs BY <2>1 DEF TypeOK, Artifacts
  <2>3. ASSUME NEW e \in Epochs, promised'[e] > clock'
        PROVE  e \in Committed(recs') /\ recs'[e].until >= promised'[e]
    <3>1. CASE e = poll.want.epoch
      <4>1. e \in Committed(recs') /\ recs'[e].until = promised'[e]
        BY <1>3, <2>1, <3>1, DeliverCollects
      <4>2. recs'[e].until \in Nat
        BY <4>1, StoreTypes DEF Stores, Committed, Held, Records
      <4> QED BY <4>1, <4>2
    <3>2. CASE e # poll.want.epoch
      <4>1. promised'[e] = promised[e] BY <1>3, <2>1, <3>2, DeliverCollects
      <4> QED BY <1>1, <2>3, <4>1
    <3> QED BY <3>1, <3>2
  <2> QED BY <2>3 DEF PromiseInv
<1>4. ASSUME NEW o, DeliverObject(o) PROVE promised' = promised BY <1>4 DEF DeliverObject
<1>5. CASE Crash BY <1>2, <1>5 DEF Crash
<1> QED
  BY <1>2, <1>3, <1>4, <1>5, NextCases, PrimaryStepLeaves, NodeStepLeaves DEF DeliverStep

\* The node follows what it followed, or what is advertised.
LEMMA FollowedStep ==
    ASSUME TypeOK, WasInv, NodeInv, Next
    PROVE  /\ Followed' \subseteq Followed \cup ({adv} \ {None})
           /\ Followed \cup ({adv} \ {None}) \subseteq Artifacts
<1>1. Followed \cup ({adv} \ {None}) \subseteq Artifacts BY DEF Followed, TypeOK
<1>2. ASSUME NEW x \in Followed' PROVE x \in Followed \cup ({adv} \ {None})
  <2>1. x # None /\ (x = ledger' \/ x = pending' \/ (poll'.at \in Fetching /\ x = poll'.want))
    BY DEF Followed
  <2> QED BY <2>1, NodeFrom DEF Followed
<1> QED BY <1>1, <1>2

\* What a capture is published as is newer than everything that was passed.
LEMMA CurrentIsNewest ==
    ASSUME NEW rs \in Stores, NEW e \in Epochs, Current(rs, e), NEW x \in Artifacts, Passed(x, rs)
    PROVE  UpTo(x, Artifact(e, rs[e].rev))
<1>1. PICK f \in Committed(rs) : UpTo(x, Artifact(f, rs[f].rev)) BY DEF Passed
<1>2. f \in Epochs /\ f <= e BY DEF Current, Committed, Held
<1>3. CASE f = e BY <1>1, <1>3
<1>4. CASE f # e
  <2>1. x.epoch <= f BY <1>1, <1>2 DEF UpTo, Artifact, Artifacts, Epochs
  <2>2. x.epoch < e BY <1>2, <1>4, <2>1 DEF Epochs, Artifacts
  <2> QED BY <2>2 DEF UpTo, Artifact
<1> QED BY <1>3, <1>4

LEMMA OrderStep ==
    ASSUME TypeOK, JobInv, StoreInv, WasInv, NodeInv, OrderInv, Next
    PROVE  OrderInv'
<1> DEFINE Old == Followed \cup ({adv} \ {None})
<1>1. Followed' \subseteq Old /\ Old \subseteq Artifacts BY FollowedStep
<1>2. \A x \in Old : Passed(x, recs) BY DEF OrderInv
<1>3. \A x \in Old : Passed(x, recs') BY <1>1, <1>2, PassedStep
<1>4. ASSUME RelReady PROVE RelArtifact \in Artifacts /\ Passed(RelArtifact, recs')
  <2>1. rel.epoch \in Epochs /\ rel.rev \in Revs BY <1>4 DEF RelReady, JobInv
  <2>2. RelArtifact \in Artifacts BY <2>1 DEF RelArtifact, Artifact, Artifacts
  <2> QED BY <1>4, <2>2, PassedStep DEF OrderInv
<1>5. \A x \in Followed' \cup ({adv'} \ {None}) : Passed(x, recs')
  <2>1. CASE adv' \in {adv, None} BY <1>1, <1>3, <2>1
  <2>2. CASE rel.at = "installed" /\ adv' = RelArtifact
    BY <1>1, <1>3, <1>4, <2>2 DEF RelReady
  <2> QED BY <2>1, <2>2, FlowFrom
<1>6. adv' # None => \A x \in Followed' : UpTo(x, adv')
  <2>1. CASE adv' = adv /\ adv # None
    <3>1. \A x \in Followed : UpTo(x, adv) BY <2>1 DEF OrderInv
    <3>2. UpTo(adv, adv) BY DEF UpTo
    <3> QED BY <1>1, <2>1, <3>1, <3>2
  <2>2. CASE rel.at = "installed" /\ adv' = RelArtifact
    <3>1. \A x \in Old : UpTo(x, RelArtifact) BY <2>2 DEF OrderInv, RelReady
    <3> QED BY <1>1, <2>2, <3>1
  <2> QED BY <2>1, <2>2, FlowFrom
<1>7. ASSUME RelReady'
      PROVE  /\ Passed(RelArtifact', recs')
             /\ \A x \in Followed' \cup ({adv'} \ {None}) : UpTo(x, RelArtifact')
  <2>1. CASE RelReady /\ RelArtifact' = RelArtifact /\ adv' \in {adv, None}
    <3>1. \A x \in Old : UpTo(x, RelArtifact) BY <2>1 DEF OrderInv
    <3>2. Followed' \cup ({adv'} \ {None}) \subseteq Old BY <1>1, <2>1
    <3> QED BY <1>4, <2>1, <3>1, <3>2
  <2>2. ASSUME adv' = adv, NEW e \in Epochs, Current(recs', e), recs'[e].rev = rel.rev,
               RelArtifact' = Artifact(e, rel.rev)
        PROVE  /\ Passed(RelArtifact', recs')
               /\ \A x \in Followed' \cup ({adv'} \ {None}) : UpTo(x, RelArtifact')
    <3>1. Passed(RelArtifact', recs') BY <2>2 DEF Passed, UpTo, Current
    <3>2. recs' \in Stores BY StoreTypes
    <3>3. \A x \in Old : UpTo(x, RelArtifact') BY <1>1, <1>3, <2>2, <3>2, CurrentIsNewest
    <3> QED BY <1>1, <2>2, <3>1, <3>3
  <2>3. CASE RecordCapture
    <3>1. /\ adv' = adv /\ rel' = [rel EXCEPT !.epoch = high]
          /\ job.rev = rel.rev
      BY <2>3 DEF RecordCapture, daemonVars, JobInv, Draft
    <3>2. rel'.epoch = high /\ rel'.rev = rel.rev BY <3>1 DEF TypeOK
    <3>3. /\ high \in Epochs /\ recs'[high] # None /\ recs'[high].rev = rel.rev
          /\ recs'[high].until > 0 /\ recs' \in Stores
      BY <2>3, <3>1, RecordAdds
    <3>4. high \in Committed(recs') BY <3>3 DEF Committed, Held
    <3>5. RelArtifact' = Artifact(high, recs'[high].rev) BY <3>2, <3>3 DEF RelArtifact
    <3>6. Passed(RelArtifact', recs') BY <3>4, <3>5 DEF Passed, UpTo
    <3>7. \A x \in Old : UpTo(x, RelArtifact')
      <4> SUFFICES ASSUME NEW x \in Old PROVE UpTo(x, RelArtifact') OBVIOUS
      <4>1. PICK f \in Committed(recs) : UpTo(x, Artifact(f, recs[f].rev)) BY <1>2 DEF Passed
      <4>2. f \in Epochs /\ f < high BY <2>3, RecordAdds DEF Committed, Held
      <4>3. x \in Artifacts BY <1>1
      <4>4. x.epoch <= f BY <4>1, <4>2, <4>3 DEF UpTo, Artifact, Artifacts, Epochs
      <4>5. x.epoch < high BY <3>3, <4>2, <4>3, <4>4 DEF Epochs, Artifacts
      <4> QED BY <3>5, <4>5 DEF UpTo, Artifact
    <3> QED BY <1>1, <3>1, <3>6, <3>7
  <2> QED BY <1>7, <2>1, <2>2, <2>3, FlowFrom
<1> QED BY <1>5, <1>6, <1>7 DEF OrderInv

\* Receipt, ledger and disk of the node go together, and what it has told
\* the primary is so or is past.
LEMMA NodeStepKeeps ==
    ASSUME TypeOK, NodeInv, WasInv, Next
    PROVE  NodeInv'
<1> USE DEF Undecided, Owns, Applying
<1>a. NoPoll.at = "idle" BY DEF NoPoll
<1>b. \A x \in {"looked", "activate"} : [NoPoll EXCEPT !.at = x].at = x BY DEF NoPoll
<1>t. /\ \A x \in {ledger, pending, ack, poll.want} : x # None => x.epoch \in Nat
      /\ nreceipt \in States
  BY DEF TypeOK, Artifacts, Epochs
<1>1. CASE PrimaryStep
  BY <1>1, PrimaryStepLeaves DEF nodeVars, NodeInv
<1>2. CASE Crash BY <1>2 DEF Crash, nodeVars, NodeInv
<1>3. CASE DeliverStep
  BY <1>3, <1>a, DeliverStepLeaves DEF nodeVars, NodeInv
<1>4. ASSUME NEW d \in Decisions, Ask(d) PROVE NodeInv'
  <2> DEFINE l == SettledLedger(d)
  <2>1. /\ ntree' = NodeTree(d) /\ ledger' = l /\ pending' = None /\ nreceipt' = "none"
        /\ poll'.at = "asked" /\ poll'.want = Acknowledged(l)
        /\ ack' = ack
    BY <1>4 DEF Ask, Settle
  <2>2. CASE pending # None /\ NodeReceipt(d) = "committed"
    <3>1. l = pending BY <2>2 DEF SettledLedger
    <3>2. NodeTree(d) = pending.rev BY <2>2 DEF NodeReceipt, NodeTree, NodeInv
    <3>3. ack # None => ack.epoch < pending.epoch BY <1>t, <2>2 DEF NodeInv
    <3> QED BY <2>1, <2>2, <3>1, <3>2, <3>3 DEF NodeInv, Acknowledged
  <2>3. CASE ~(pending # None /\ NodeReceipt(d) = "committed")
    <3>1. l = ledger BY <2>3 DEF SettledLedger
    <3>2. Undecided BY <2>3 DEF NodeReceipt
    <3>3. NodeTree(d) = ntree BY <2>3 DEF NodeReceipt, NodeTree, NodeInv
    <3> QED BY <2>1, <3>1, <3>2, <3>3 DEF NodeInv, Acknowledged
  <2> QED BY <2>2, <2>3
<1>5. ASSUME NEW d \in Decisions, NodeRestart(d) PROVE NodeInv'
  <2>1. /\ nreceipt' = NodeReceipt(d) /\ ntree' = NodeTree(d) /\ nactive' = NodeTree(d)
        /\ poll'.at = "idle" /\ UNCHANGED <<ledger, pending, ack>>
    BY <1>5, <1>a DEF NodeRestart
  <2>2. CASE NodeReceipt(d) = "committed"
    <3>1. pending # None BY <2>2 DEF NodeReceipt, NodeInv
    <3>2. NodeTree(d) = pending.rev BY <2>2 DEF NodeReceipt, NodeTree, NodeInv
    <3> QED BY <2>1, <2>2, <3>1, <3>2 DEF NodeInv
  <2>3. CASE NodeReceipt(d) # "committed"
    <3>1. NodeTree(d) = ntree /\ Undecided BY <2>3 DEF NodeReceipt, NodeTree
    <3>2. NodeReceipt(d) # "prepared" BY DEF NodeReceipt, Decisions
    <3> QED BY <2>1, <2>3, <3>1, <3>2 DEF NodeInv
  <2> QED BY <2>2, <2>3
<1>6. CASE Heartbeat
  <2>1. /\ poll.at = "asked" /\ ack' = poll.want
        /\ UNCHANGED <<ledger, pending, ntree, nreceipt>>
        /\ poll'.at \in {"idle", "manifest"}
    BY <1>6, <1>a DEF Heartbeat, Record
  <2> QED BY <2>1 DEF NodeInv
<1>7. CASE Unavailable \/ PollFails
  BY <1>7, <1>a DEF Unavailable, PollFails, nodeVars, NodeInv
<1>8. CASE Begin
  <2>1. poll.at = "objects" /\ UNCHANGED <<ledger, ntree, nactive, ack>> BY <1>8 DEF Begin
  <2>2. pending = None BY <2>1 DEF NodeInv
  <2>3. CASE Newer(poll.want)
    <3>1. pending' = poll.want /\ nreceipt' = "none" /\ poll' = [poll EXCEPT !.at = "prepare"]
      BY <1>8, <2>3 DEF Begin
    <3>2. poll'.at = "prepare" BY <3>1 DEF TypeOK
    <3>3. poll.want # None BY <2>1 DEF WasInv, Fetching
    <3>4. ledger # None => ledger.epoch < poll.want.epoch BY <1>t, <2>3, <3>3 DEF Newer
    <3> QED BY <2>1, <2>2, <3>1, <3>2, <3>3, <3>4 DEF NodeInv
  <2>4. CASE ~Newer(poll.want)
    <3>1. UNCHANGED <<pending, nreceipt>> /\ poll'.at \in {"idle", "activate"}
      BY <1>8, <1>a, <1>b, <2>4 DEF Begin
    <3> QED BY <2>1, <2>2, <3>1 DEF NodeInv
  <2> QED BY <2>3, <2>4
<1>9. CASE PrepareApply
  <2>1. /\ poll.at = "prepare" /\ poll' = [poll EXCEPT !.at = "commit"] /\ nreceipt' = "prepared"
        /\ UNCHANGED <<ledger, pending, ntree, nactive, ack>>
    BY <1>9 DEF PrepareApply
  <2>2. poll'.at = "commit" BY <2>1 DEF TypeOK
  <2> QED BY <2>1, <2>2 DEF NodeInv
<1>10. CASE CommitApply
  <2>1. /\ poll.at = "commit" /\ poll' = [poll EXCEPT !.at = "complete"]
        /\ nreceipt' = "committed" /\ ntree' = pending.rev
        /\ UNCHANGED <<ledger, pending, nactive, ack>>
    BY <1>10 DEF CommitApply
  <2>2. poll'.at = "complete" BY <2>1 DEF TypeOK
  <2> QED BY <2>1, <2>2 DEF NodeInv
<1>11. CASE Complete
  <2>1. /\ poll.at = "complete" /\ ledger' = pending /\ pending' = None /\ nreceipt' = "none"
        /\ poll'.at = "activate" /\ UNCHANGED <<ntree, ack>>
    BY <1>11, <1>b DEF Complete
  <2>2. pending # None /\ nreceipt = "committed" /\ ntree = pending.rev BY <2>1 DEF NodeInv
  <2>3. ack # None => ack.epoch < pending.epoch BY <1>t, <2>2 DEF NodeInv
  <2> QED BY <2>1, <2>2, <2>3 DEF NodeInv
<1>12. CASE NodeReload \/ NodeReloadFails
  <2>1. UNCHANGED <<ledger, pending, ntree, nreceipt, ack, poll>>
    BY <1>12 DEF NodeReload, NodeCapture, NodeSwap, NodeReloadFails
  <2> QED BY <2>1 DEF NodeInv
<1>13. CASE Look \/ Activate
  <2>1. /\ UNCHANGED <<ledger, pending, ntree, nreceipt, ack>>
        /\ poll'.at \in {"idle", "looked"}
    BY <1>13, <1>a, <1>b DEF Look, Activate
  <2> QED BY <2>1 DEF NodeInv
<1> QED
  BY <1>1, <1>2, <1>3, <1>4, <1>5, <1>6, <1>7, <1>8, <1>9, <1>10, <1>11, <1>12, <1>13, NextCases
  DEF NodeStep

\* A statement of the node goes stale in the step that replaces the resolver.
LEMMA SaidStep ==
    ASSUME TypeOK, SaidInv, Next
    PROVE  SaidInv'
<1>a. NoPoll.at = "idle" BY DEF NoPoll
<1>b. \A x \in {"looked", "activate"} : [NoPoll EXCEPT !.at = x].at = x BY DEF NoPoll
<1>1. CASE PrimaryStep BY <1>1, PrimaryStepLeaves DEF nodeVars, SaidInv
<1>2. CASE Crash
  <2>1. /\ ack' = None /\ stale' = stale \ {"ack"} /\ UNCHANGED <<nactive, saw, poll>>
    BY <1>2 DEF Crash
  <2> QED BY <2>1 DEF SaidInv
<1>3. CASE DeliverStep BY <1>3, <1>a, DeliverStepLeaves DEF nodeVars, SaidInv
<1>4. ASSUME NEW d \in Decisions, Ask(d) PROVE SaidInv'
  <2>1. /\ poll.at = "looked" /\ poll'.at = "asked" /\ poll'.want = Acknowledged(ledger')
        /\ UNCHANGED <<nactive, stale, ack>>
    BY <1>4 DEF Ask
  <2> QED BY <2>1 DEF SaidInv, Acknowledged
<1>5. ASSUME NEW d \in Decisions, NodeRestart(d) PROVE SaidInv'
  <2>1. poll'.at = "idle" /\ ack' = ack /\ stale' = Spoken \ {"poll"}
    BY <1>5, <1>a DEF NodeRestart
  <2> QED BY <2>1 DEF SaidInv, Spoken
<1>6. CASE Heartbeat
  <2>1. /\ poll.at = "asked" /\ poll'.at \in {"idle", "manifest"} /\ Record /\ nactive' = nactive
    BY <1>6, <1>a DEF Heartbeat
  <2> QED BY <2>1 DEF SaidInv, Record
<1>7. CASE NodeSwap
  <2>1. /\ nactive' = nrel /\ UNCHANGED <<saw, ack, poll>>
        /\ stale' = IF nrel = nactive THEN stale ELSE Spoken
    BY <1>7 DEF NodeSwap
  <2> QED BY <2>1 DEF SaidInv, Spoken
<1>8. CASE Look
  <2>1. saw' = nactive /\ poll'.at = "looked" /\ UNCHANGED <<nactive, stale, ack>>
    BY <1>8, <1>b DEF Look
  <2> QED BY <2>1 DEF SaidInv
<1>9. ASSUME poll'.at \notin {"looked", "asked"}, ack' = ack, nactive' = nactive,
             stale' = stale \/ stale' = stale \ {"poll"}
      PROVE  SaidInv'
  BY <1>9 DEF SaidInv
<1>10. CASE Unavailable \/ PollFails \/ Begin \/ Complete \/ Activate
  BY <1>9, <1>10, <1>a, <1>b
  DEF Unavailable, PollFails, Begin, Complete, Activate, nodeVars, TypeOK
<1>11. CASE PrepareApply \/ CommitApply
  <2>1. poll'.at \in {"commit", "complete"} BY <1>11 DEF PrepareApply, CommitApply, TypeOK
  <2> QED BY <1>9, <1>11, <2>1 DEF PrepareApply, CommitApply
<1>12. CASE NodeCapture \/ NodeReloadFails
  BY <1>12 DEF NodeCapture, NodeReloadFails, SaidInv
<1> QED
  BY <1>1, <1>2, <1>3, <1>4, <1>5, <1>6, <1>7, <1>8, <1>10, <1>11, <1>12, NextCases
  DEF NodeStep, NodeReload

\* Faults are counted one by one.
LEMMA FaultsStep ==
    ASSUME Next
    PROVE  faults' \in {faults, faults + 1}
<1>1. CASE JobStep
  BY <1>1 DEF JobStep, Allocate, WriteFiles, RecordIntent, Prepare, Commit, BatchStuck,
              RecordCapture, Finalize, Collect, BatchRecovers
<1>2. CASE ReloadStep
  BY <1>2 DEF ReloadStep, Capture, PublishActive, InstallPolicy, PreparePolicy
<1>3. CASE StartStep BY <1>3 DEF StartStep, Start
<1>4. CASE PrimaryStep
  BY <1>1, <1>2, <1>3, <1>4 DEF PrimaryStep, JobFails, ReloadFails, Access, Reserve, Save
<1>5. CASE DeliverStep BY <1>5 DEF DeliverStep, DeliverManifest, DeliverObject
<1>6. CASE Crash BY <1>6 DEF Crash
<1>7. CASE NodeStep
  BY <1>7 DEF NodeStep, Ask, NodeRestart, Heartbeat, Unavailable, Begin, PrepareApply, CommitApply,
       Complete, PollFails, NodeReload, NodeCapture, NodeSwap, NodeReloadFails, Look, Activate
<1> QED BY <1>4, <1>5, <1>6, <1>7, NextCases

\* Without a fault, who changes the tree asks for a reload, and a reload
\* captures the tree as it is when it takes the request.
LEMMA RepairStep ==
    ASSUME TypeOK, NodeInv, RepairInv, Next
    PROVE  RepairInv'
<1> USE DEF Applying, Requested
<1>a. NoPoll.at = "idle" BY DEF NoPoll
<1>b. \A x \in {"looked", "activate"} : [NoPoll EXCEPT !.at = x].at = x BY DEF NoPoll
<1>c. faults \in Nat /\ faults' \in {faults, faults + 1} BY FaultsStep DEF RepairInv
<1>d. faults' \in Nat BY <1>c
<1> DEFINE Good == /\ pending # None => Applying
                   /\ nactive # ntree => Requested \/ nrel = ntree
                   /\ nrel # None /\ nrel # ntree => Requested
<1> SUFFICES ASSUME faults' = 0 PROVE Good' BY <1>d DEF RepairInv
<1>e. faults = 0 /\ faults' # faults + 1 BY <1>c
<1>f. Good BY <1>e DEF RepairInv
<1>g. ~Applying => pending = None /\ nreceipt # "prepared" BY <1>f DEF NodeInv
<1>1. CASE PrimaryStep BY <1>1, <1>f, PrimaryStepLeaves DEF nodeVars
<1>2. CASE Crash \/ PollFails \/ NodeReloadFails \/ \E d \in Decisions : NodeRestart(d)
  BY <1>2, <1>e DEF Crash, PollFails, NodeReloadFails, NodeRestart
<1>3. CASE DeliverStep BY <1>3, <1>a, <1>f, <1>g, DeliverStepLeaves DEF nodeVars
<1>4. ASSUME NEW d \in Decisions, Ask(d) PROVE Good'
  <2>1. /\ poll.at = "looked" /\ poll'.at = "asked" /\ ntree' = NodeTree(d) /\ pending' = None
        /\ UNCHANGED <<nactive, nasked, nrel>>
    BY <1>4 DEF Ask, Settle
  <2>2. NodeTree(d) = ntree BY <1>g, <2>1 DEF NodeTree
  <2> QED BY <1>f, <2>1, <2>2
<1>5. CASE Heartbeat
  <2>1. /\ poll.at = "asked" /\ poll'.at \in {"idle", "manifest"}
        /\ UNCHANGED <<pending, ntree, nactive, nrel>>
    BY <1>5, <1>a DEF Heartbeat
  <2>2. nasked => nasked' BY <1>5, Zenon DEF Heartbeat
  <2> QED BY <1>f, <1>g, <2>1, <2>2
<1>6. CASE Unavailable BY <1>6, <1>a, <1>f, <1>g DEF Unavailable, nodeVars
<1>7. CASE Begin
  <2>1. poll.at = "objects" /\ UNCHANGED <<ntree, nactive, nasked, nrel>> BY <1>7 DEF Begin
  <2>2. CASE Newer(poll.want)
    <3>1. poll' = [poll EXCEPT !.at = "prepare"] BY <1>7, <2>2 DEF Begin
    <3>2. poll'.at = "prepare" BY <3>1 DEF TypeOK
    <3> QED BY <1>f, <2>1, <3>2
  <2>3. CASE ~Newer(poll.want)
    <3>1. pending' = pending /\ poll'.at \in {"idle", "activate"}
      BY <1>7, <1>a, <1>b, <2>3 DEF Begin
    <3> QED BY <1>f, <1>g, <2>1, <3>1
  <2> QED BY <2>2, <2>3
<1>8. CASE PrepareApply
  <2>1. /\ poll.at = "prepare" /\ poll' = [poll EXCEPT !.at = "commit"]
        /\ UNCHANGED <<pending, ntree, nactive, nasked, nrel>>
    BY <1>8 DEF PrepareApply
  <2>2. poll'.at = "commit" BY <2>1 DEF TypeOK
  <2> QED BY <1>f, <2>1, <2>2
<1>9. CASE CommitApply
  <2>1. poll' = [poll EXCEPT !.at = "complete"] BY <1>9 DEF CommitApply
  <2>2. poll'.at = "complete" BY <2>1 DEF TypeOK
  <2> QED BY <2>2
<1>10. CASE Complete
  <2>1. poll'.at = "activate" /\ pending' = None BY <1>10, <1>b DEF Complete
  <2> QED BY <2>1
<1>11. CASE Activate
  <2>1. poll.at = "activate" /\ pending' = pending /\ nasked' = TRUE BY <1>11 DEF Activate
  <2> QED BY <1>g, <2>1
<1>12. CASE NodeCapture
  <2>1. /\ nrel' = (IF nreceipt = "prepared" THEN None ELSE ntree) /\ ~Applying
        /\ UNCHANGED <<pending, ntree, nactive, poll>>
    BY <1>12 DEF NodeCapture
  <2> QED BY <1>f, <1>g, <2>1
<1>13. CASE NodeSwap
  <2>1. nactive' = nrel /\ nrel # None /\ nrel' = None /\ UNCHANGED <<pending, ntree, nasked, poll>>
    BY <1>13 DEF NodeSwap
  <2> QED BY <1>f, <2>1
<1>14. CASE Look
  <2>1. poll.at = "idle" /\ poll'.at = "looked" /\ UNCHANGED <<pending, ntree, nactive, nasked, nrel>>
    BY <1>14, <1>b DEF Look
  <2> QED BY <1>f, <2>1
<1> QED
  BY <1>1, <1>2, <1>3, <1>4, <1>5, <1>6, <1>7, <1>8, <1>9, <1>10, <1>11, <1>12, <1>13, <1>14,
     NextCases
  DEF NodeStep, NodeReload

-----------------------------------------------------------------------------
(* The inductive invariant and what it gives.                              *)

LEMMA InitIInv == Init => IInv
<1> SUFFICES ASSUME Init PROVE IInv OBVIOUS
<1> USE DEF Init
<1>1. TypeOK
  <2>1. PrimaryTypes BY DEF PrimaryTypes, States
  <2>2. FlowTypes BY NoneTypes DEF FlowTypes
  <2>3. NodeTypes BY NoneTypes DEF NodeTypes, States
  <2>4. recs \in Stores /\ clock \in Nat /\ high \in 0..MaxEpoch BY DEF Stores
  <2> QED BY <2>1, <2>2, <2>3, <2>4, TypeParts
<1>2. Held(recs) = {} /\ Committed(recs) = {} BY DEF Held, Committed
<1>3. job.at = "idle" /\ job.kind = "none" /\ rel.at = "idle" /\ poll.at = "idle"
  BY DEF NoJob, NoRel, NoPoll
<1>4. JobInv BY <1>3 DEF JobInv, Draft, Bound
<1>5. StoreInv BY <1>2, <1>3 DEF StoreInv
<1>6. WasInv BY <1>2, <1>3 DEF WasInv, Fetching
<1>7. PromiseInv BY DEF PromiseInv
<1>8. Followed = {} BY <1>3 DEF Followed, Fetching
<1>9. OrderInv BY <1>3, <1>8 DEF OrderInv, RelReady
<1>10. NodeInv BY <1>3 DEF NodeInv, Applying
<1>11. SaidInv /\ RepairInv BY <1>3 DEF SaidInv, RepairInv
<1> QED BY <1>1, <1>4, <1>5, <1>6, <1>7, <1>9, <1>10, <1>11 DEF IInv

LEMMA StepIInv == IInv /\ [Next]_vars => IInv'
<1> SUFFICES ASSUME IInv, [Next]_vars PROVE IInv' OBVIOUS
<1> USE DEF IInv
<1>1. CASE Next
  <2>1. TypeOK' BY <1>1, TypeStep
  <2>2. JobInv' /\ StoreInv' BY <1>1, JobStepKeeps, StoreStep
  <2>3. WasInv' /\ PromiseInv' BY <1>1, WasStep, PromiseStep
  <2>4. OrderInv' /\ NodeInv' BY <1>1, OrderStep, NodeStepKeeps
  <2>5. SaidInv' /\ RepairInv' BY <1>1, SaidStep, RepairStep
  <2> QED BY <2>1, <2>2, <2>3, <2>4, <2>5
<1>2. CASE UNCHANGED vars
  <2>1. UNCHANGED <<tree, stamp, receipts, was, high, clock, recs, files, up, asked, active, adv>>
    BY <1>2 DEF vars, treeVars, storeVars, daemonVars
  <2>2. UNCHANGED <<ledger, pending, ntree, nreceipt, nactive, nasked, nrel, saw, stale, job, rel, ack,
                  poll, promised, faults>>
    BY <1>2 DEF vars, nodeVars
  <2>3. TypeOK' BY <2>1, <2>2 DEF TypeOK
  <2>4. JobInv' BY <2>1, <2>2 DEF JobInv, Prepared
  <2>5. StoreInv' BY <2>1, <2>2 DEF StoreInv, Held
  <2>6. WasInv' BY <2>1, <2>2 DEF WasInv
  <2>7. PromiseInv' BY <2>1, <2>2 DEF PromiseInv
  <2>8. OrderInv' BY <2>1, <2>2 DEF OrderInv, Followed, RelReady, RelArtifact
  <2>9. NodeInv' BY <2>1, <2>2 DEF NodeInv, Undecided, Owns, Applying
  <2>10. SaidInv' BY <2>1, <2>2 DEF SaidInv
  <2>11. RepairInv' BY <2>1, <2>2 DEF RepairInv, Applying, Requested
  <2> QED BY <2>3, <2>4, <2>5, <2>6, <2>7, <2>8, <2>9, <2>10, <2>11
<1> QED BY <1>1, <1>2

(* The inductive invariant holds in every state of every run: the types,   *)
(* the lock, the store, the history of the tree, promises, epochs, node.   *)
THEOREM InductiveInvariant == Spec => []IInv
BY InitIInv, StepIInv, PTL DEF Spec

(* No node ever owns an artifact that is newer than the advertised one, or *)
(* another one of its epoch: preflight never has to refuse what the        *)
(* primary advertises as a replay.                                         *)
THEOREM NeverAhead == Spec => []NodeNeverAhead
<1>1. IInv => NodeNeverAhead
  <2> SUFFICES ASSUME IInv, adv # None, ledger # None
               PROVE  ledger = adv \/ ledger.epoch < adv.epoch
    BY DEF NodeNeverAhead
  <2>1. ledger \in Followed BY DEF Followed
  <2> QED BY <2>1 DEF IInv, OrderInv, UpTo
<1> QED BY <1>1, InductiveInvariant, PTL

(* Whatever stops between reservation, transaction and finalize, only      *)
(* policies the primary's tree has had are published or reach a node.      *)
THEOREM OnlyPoliciesPublished == Spec => []PublishedWasPolicy
<1>1. IInv => PublishedWasPolicy BY DEF IInv, WasInv, PublishedWasPolicy
<1> QED BY <1>1, InductiveInvariant, PTL

(* A delivered manifest stays complete for as long as the node was told,   *)
(* whatever the clock does and whatever is collected.                      *)
THEOREM PromisesKept == Spec => []PromiseKept
<1>1. IInv => PromiseKept
  <2> SUFFICES ASSUME IInv, NEW e \in Epochs, promised[e] > clock
               PROVE  /\ recs[e] # None /\ recs[e].until > 0
                      /\ FilesOf(e, recs[e].rev) \subseteq files
    BY DEF PromiseKept
  <2>1. e \in Committed(recs) BY DEF IInv, PromiseInv
  <2> QED BY <2>1 DEF Committed, Held, IInv, StoreInv
<1> QED BY <1>1, InductiveInvariant, PTL

(* When the primary reports convergence the node owns and has persisted    *)
(* the advertised artifact, and its resolver runs it, unless a reload has  *)
(* replaced the resolver since; then, without a fault, another reload is   *)
(* on its way that installs it again.                                      *)
THEOREM ConvergenceTruthful == Spec => []ConvergedTruthful
<1>1. IInv => ConvergedTruthful
  <2> SUFFICES ASSUME IInv, Converged
               PROVE  /\ ledger = adv /\ pending = None /\ ntree = adv.rev
                      /\ \/ nactive = adv.rev
                         \/ /\ "ack" \in stale
                            /\ faults > 0 \/ nasked \/ poll.at = "activate" \/ nrel = adv.rev
    BY DEF ConvergedTruthful
  <2>1. adv # None /\ ack = adv BY DEF Converged
  <2>2. Owns(adv) BY <2>1 DEF IInv, NodeInv
  <2>3. \A x \in {ledger, pending} : x # None => UpTo(x, adv)
    BY <2>1 DEF IInv, OrderInv, Followed
  <2>4. \A x \in {ledger, pending, adv} : x # None => x.epoch \in Nat
    BY DEF IInv, TypeOK, Artifacts, Epochs
  <2>5. ledger = adv BY <2>1, <2>2, <2>3, <2>4 DEF Owns, UpTo
  <2>6. pending = None BY <2>1, <2>2, <2>3, <2>4, <2>5 DEF Owns, UpTo
  <2>7. ntree = adv.rev BY <2>1, <2>5, <2>6 DEF IInv, NodeInv, Undecided
  <2>8. nactive # adv.rev => "ack" \in stale BY <2>1 DEF IInv, SaidInv
  <2>9. nactive # adv.rev /\ faults = 0 => nasked \/ poll.at = "activate" \/ nrel = adv.rev
    BY <2>6, <2>7 DEF IInv, RepairInv, Requested, NodeInv, Applying
  <2>10. faults > 0 \/ faults = 0 BY DEF IInv, RepairInv
  <2> QED BY <2>5, <2>6, <2>7, <2>8, <2>9, <2>10
<1> QED BY <1>1, InductiveInvariant, PTL
=============================================================================
