------------------------- MODULE ClusterReplication -------------------------
(***************************************************************************)
(* How a primary's policy reaches a node (cluster/publication.rs,          *)
(* publisher.rs, state.rs, poll.rs, artifact_apply.rs, ledger.rs).         *)
(*                                                                         *)
(* The primary keeps a publication store: a state file with the epochs it  *)
(* has given out, a watermark of the clock and one record per artifact,    *)
(* and the immutable files the records name.  A batch of the operator      *)
(* reserves an epoch and binds it to its request before its policy         *)
(* transaction may promote a file, and commits the record afterwards; a    *)
(* reload publishes what it captured if that is not published yet, and     *)
(* then advertises it.  A node asks what is advertised, fetches manifest   *)
(* and objects, applies them in a policy transaction of its own and keeps  *)
(* a ledger of what it owns.  Either side may stop between any two writes. *)
(*                                                                         *)
(* A policy transaction is what AtomicPolicy says of it: it takes place at *)
(* once or not at all, and an interrupted one is decided by the next       *)
(* recovery.  A revision stands for a policy tree; an artifact is named by *)
(* its epoch and revision, as its hash covers both.  Someone other than    *)
(* the operator service (an editor, a config command) may save the         *)
(* primary's tree at any time.                                             *)
(***************************************************************************)
EXTENDS Integers, FiniteSets

CONSTANTS
    None,
    Revs,          \* policy trees, by revision
    FirstRev,      \* the primary's tree at the start
    Objects,       \* revision -> the objects of its artifact
    Requests,      \* batches of the operator, by request id
    Target,        \* request -> the revision it leads to
    Availability,  \* how long a delivered manifest stays available
    MaxEpoch,      \* bound: epochs the model has room for
    LastBatch,     \* bound: no batch reserves after this epoch
    MaxClock, MaxFaults, MaxEdits   \* bounds

ASSUME ConstantsAssumption ==
    /\ FirstRev \in Revs /\ Target \in [Requests -> Revs]
    /\ Availability \in Nat \ {0} /\ MaxEpoch \in Nat /\ LastBatch \in 0..MaxEpoch
    /\ MaxClock \in Nat /\ MaxFaults \in Nat /\ MaxEdits \in Nat
    /\ None \notin Requests /\ None \notin Revs

Epochs == 1..MaxEpoch
Times  == 0..MaxClock
Artifacts == [epoch : Epochs, rev : Revs]
Records   == [rev : Revs, intent : Requests \cup {None}, proof : Nat, until : Nat]

ASSUME NoneAssumption == None \notin Artifacts /\ None \notin Records

VARIABLES
    tree,      \* revision of the primary's policy tree
    stamp,     \* identity of its files: changes with every write to the tree
    receipts,  \* request -> "none", "prepared", "committed" or "aborted"
    high,      \* high_water: the last epoch given out
    clock,     \* clock_watermark: the latest time an operation has read
    recs,      \* epoch -> record of the publication store, or None
    files,     \* manifests and objects in the store
    up,        \* the primary's daemon runs
    job,       \* the operation that holds the write lock over several writes
    rel,       \* the reload under way
    asked,     \* a reload has been asked for
    active,    \* revision of the primary's own resolver
    adv,       \* the artifact advertised to nodes
    ack,       \* what the node last acknowledged as active
    ledger,    \* the artifact the node owns
    pending,   \* the node's ownership intent
    ntree,     \* the replicated policy on the node's disk
    nreceipt,  \* receipt of the transaction of the pending intent
    poll,      \* the node's poll under way
    nactive,   \* revision of the node's resolver
    nasked,    \* a reload of the node has been asked for: the one-slot channel
    nrel,      \* revision the node's reload under way has captured, or None
    saw,       \* revision of the resolver the poll has looked at
    stale,     \* history: "poll", "ack": a resolver of another revision has
               \* replaced the one which that statement of the node is about
    was,       \* history: every revision the primary's tree has had
    promised,  \* history: epoch -> the longest availability told to a node
    faults, edits   \* how often something failed or was edited

treeVars  == <<tree, stamp, receipts, was>>
storeVars == <<high, clock, recs, files>>
daemonVars == <<up, asked, active, adv>>
nodeVars  == <<ledger, pending, ntree, nreceipt, nactive, nasked, nrel, saw, stale>>
vars == <<treeVars, storeVars, daemonVars, nodeVars, job, rel, ack, poll,
          promised, faults, edits>>

Artifact(e, r) == [epoch |-> e, rev |-> r]

NoJob   == [at |-> "idle", kind |-> "none", req |-> None, rev |-> None, proof |-> 0]
NoRel   == [at |-> "idle", rev |-> None, epoch |-> 0]
NoPoll  == [at |-> "idle", want |-> None, got |-> {}]

Later(a, b) == IF a >= b THEN a ELSE b

-----------------------------------------------------------------------------
(* The publication store.                                                  *)

\* A record of the store; until = 0 is one that is not committed.
Rec(rev, intent, proof, until) ==
    [rev |-> rev, intent |-> intent, proof |-> proof, until |-> until]

Held(rs)      == {e \in Epochs : rs[e] # None}
Committed(rs) == {e \in Held(rs) : rs[e].until > 0}
PendingIntents(rs) == {e \in Held(rs) : rs[e].until = 0 /\ rs[e].intent # None}

\* Mutant of Current: the first committed record instead of the last.
CurrentOldest(rs, e) == e \in Committed(rs) /\ \A f \in Committed(rs) : f >= e

\* The artifact a reload compares its capture with is the newest committed.
Current(rs, e) == e \in Committed(rs) /\ \A f \in Committed(rs) : f <= e

FilesOf(e, rev) == {Artifact(e, rev)} \cup Objects[rev]
Referenced(rs)  == UNION {FilesOf(e, rs[e].rev) : e \in Held(rs)}

\* Opening the store refuses when a file is missing and drops the others.
Openable == Referenced(recs) \subseteq files
CollectOrphans(rs) == files' = files \cap Referenced(rs)

LastTwo(rs) == {e \in Committed(rs) : Cardinality({f \in Committed(rs) : f > e}) < 2}

\* Mutant of Retained: a promise does not keep a record.
RetainedNewest(rs, e, now) ==
    IF rs[e].until > 0 THEN e \in LastTwo(rs) ELSE rs[e].intent # None

Retained(rs, e, now) ==
    IF rs[e].until > 0 THEN rs[e].until > now \/ e \in LastTwo(rs)
                       ELSE rs[e].intent # None

GC(rs, now) == [e \in Epochs |->
    IF rs[e] # None /\ Retained(rs, e, now) THEN rs[e] ELSE None]

\* The artifact is still there to be fetched.
Available(a) ==
    /\ recs[a.epoch] # None
    /\ recs[a.epoch].rev = a.rev /\ recs[a.epoch].until > 0

-----------------------------------------------------------------------------
(* Recovery on the primary: the interrupted policy transaction first, then *)
(* the intents, each by the receipt of its request.                        *)

Prepared == {r \in Requests : receipts[r] = "prepared"}

Settled(d) == [r \in Requests |-> IF r \in Prepared THEN d ELSE receipts[r]]

RecoverActive(d) ==
    /\ receipts' = Settled(d)
    /\ IF d = "committed" /\ Prepared # {}
         THEN /\ tree' = Target[CHOOSE r \in Prepared : TRUE]
              /\ stamp' = stamp + 1
              /\ was' = was \cup {tree'}
         ELSE UNCHANGED <<tree, stamp, was>>

\* An intent without a receipt is retired only if the tree is as captured.
Stuck(d) ==
    \E e \in PendingIntents(recs) :
        Settled(d)[recs[e].intent] = "none" /\ recs[e].proof # stamp

\* Mutant of Recovered: any receipt commits the intent.
RecoveredAnyReceipt(d, now) == [e \in Epochs |->
    IF e \notin PendingIntents(recs) THEN recs[e]
    ELSE IF Settled(d)[recs[e].intent] # "none"
      THEN [recs[e] EXCEPT !.until = Later(now, clock) + Availability]
      ELSE None]

Recovered(d, now) == [e \in Epochs |->
    IF e \notin PendingIntents(recs) THEN recs[e]
    ELSE IF Settled(d)[recs[e].intent] = "committed"
      THEN [recs[e] EXCEPT !.until = Later(now, clock) + Availability]
      ELSE None]

\* Every access of the service and every start begins with both.
Recover(d) == Openable /\ ~Stuck(d) /\ RecoverActive(d)

RecoverStore(d, now) ==
    /\ recs' = Recovered(d, now)
    /\ CollectOrphans(recs')
    /\ clock' = IF \E e \in PendingIntents(recs) : recs'[e] # None
                  THEN Later(now, clock) ELSE clock

Decisions == {"committed", "aborted"}

-----------------------------------------------------------------------------
(* A batch of the operator.                                                *)

Idle    == job.at = "idle"
Serving == up /\ adv # None

Access(d, now) ==
    /\ Serving /\ Idle
    /\ Prepared # {} \/ PendingIntents(recs) # {}
    /\ Recover(d) /\ RecoverStore(d, now)
    /\ UNCHANGED <<high, daemonVars, nodeVars, job, rel, ack, poll, promised, faults, edits>>

\* publisher::reserve, up to the first write of the reservation.
Reserve(r, d, now) ==
    /\ Serving /\ Idle
    /\ Settled(d)[r] = "none" /\ high < LastBatch
    /\ Recover(d)
    /\ Target[r] # tree'
    /\ clock' = Later(now, clock)
    /\ recs' = GC(Recovered(d, now), clock')
    /\ CollectOrphans(recs')
    /\ job' = [at |-> "allocate", kind |-> "batch", req |-> r, rev |-> Target[r], proof |-> stamp']
    /\ UNCHANGED <<high, daemonVars, nodeVars, rel, ack, poll, promised, faults, edits>>

\* The epoch is spent before anything is made with it.
Allocate ==
    /\ job.at = "allocate"
    /\ high' = high + 1
    /\ job' = [job EXCEPT !.at = "write"]
    /\ UNCHANGED <<treeVars, clock, recs, files, daemonVars, nodeVars, rel, ack, poll,
                   promised, faults, edits>>

WriteFiles ==
    /\ job.at = "write"
    /\ files' = files \cup FilesOf(high, job.rev)
    /\ job' = [job EXCEPT !.at = "record"]
    /\ UNCHANGED <<treeVars, high, clock, recs, daemonVars, nodeVars, rel, ack, poll,
                   promised, faults, edits>>

RecordIntent ==
    /\ job.at = "record" /\ job.kind = "batch"
    /\ recs' = [recs EXCEPT ![high] = Rec(job.rev, job.req, job.proof, 0)]
    /\ job' = [job EXCEPT !.at = "prepare"]
    /\ UNCHANGED <<treeVars, high, clock, files, daemonVars, nodeVars, rel, ack, poll,
                   promised, faults, edits>>

\* The transaction refuses a tree that is not the one the plan was made for.
Prepare ==
    /\ job.at = "prepare" /\ job.proof = stamp
    /\ receipts' = [receipts EXCEPT ![job.req] = "prepared"]
    /\ job' = [job EXCEPT !.at = "commit"]
    /\ UNCHANGED <<tree, stamp, was, storeVars, daemonVars, nodeVars, rel, ack, poll,
                   promised, faults, edits>>

Commit ==
    /\ job.at = "commit"
    /\ RecoverActive("committed")
    /\ job' = [job EXCEPT !.at = "finalize"]
    /\ UNCHANGED <<storeVars, daemonVars, nodeVars, rel, ack, poll, promised, faults, edits>>

Finalize(now) ==
    /\ job.at = "finalize"
    /\ clock' = Later(now, clock)
    /\ recs' = [recs EXCEPT ![high].until = clock' + Availability]
    /\ CollectOrphans(recs')
    /\ job' = NoJob
    /\ asked' = TRUE
    /\ UNCHANGED <<treeVars, high, up, active, adv, nodeVars, rel, ack, poll,
                   promised, faults, edits>>

\* Preparing or committing fails and is recovered on the spot.
BatchRecovers(d, now) ==
    /\ job.at \in {"prepare", "commit"}
    /\ Recover(d) /\ RecoverStore(d, now)
    /\ job' = NoJob
    /\ asked' = (asked \/ (d = "committed" /\ Prepared # {}))
    /\ UNCHANGED <<high, up, active, adv, nodeVars, rel, ack, poll, promised, faults, edits>>

\* Or cannot be: the tree was saved between the capture of the proof and the
\* transaction, which leaves an intent that recovery refuses to retire.
BatchStuck ==
    /\ job.at = "prepare" /\ job.proof # stamp
    /\ job' = NoJob
    /\ UNCHANGED <<treeVars, storeVars, daemonVars, nodeVars, rel, ack, poll,
                   promised, faults, edits>>

\* An operation ends with an error and leaves what it has written.  At the
\* start of the daemon that is the end of the daemon (Crash).
JobFails ==
    /\ Serving /\ ~Idle /\ faults < MaxFaults
    /\ job' = NoJob
    /\ rel' = IF job.kind = "capture" THEN NoRel ELSE rel
    /\ asked' = (asked \/ job.at = "finalize")
    /\ faults' = faults + 1
    /\ UNCHANGED <<treeVars, storeVars, up, active, adv, nodeVars, ack, poll, promised, edits>>

-----------------------------------------------------------------------------
(* A reload, and the start of the daemon, which goes on as one.            *)

\* The capture is refused while an interrupted transaction fences the tree.
Capture ==
    /\ up /\ asked /\ rel.at = "idle" /\ Idle
    /\ asked' = FALSE
    /\ rel' = IF Prepared = {} THEN [at |-> "captured", rev |-> tree, epoch |-> 0] ELSE NoRel
    /\ UNCHANGED <<treeVars, storeVars, up, active, adv, nodeVars, job, ack, poll,
                   promised, faults, edits>>

\* prepare_policy: collect, then reuse what is published, refuse what an
\* intent has yet to decide, or publish the capture; then collect again.
PreparePolicy(now) ==
    /\ rel.at = "captured" /\ Idle /\ Openable
    /\ clock' = Later(now, clock)
    /\ recs' = GC(recs, clock')
    /\ CollectOrphans(recs')
    /\ \/ \E e \in Epochs :
            /\ Current(recs', e) /\ recs'[e].rev = rel.rev
            /\ rel' = [rel EXCEPT !.epoch = e]
            /\ job' = [NoJob EXCEPT !.at = "collect", !.kind = "capture"]
       \/ /\ \A e \in Epochs : Current(recs', e) => recs'[e].rev # rel.rev
          /\ \E e \in PendingIntents(recs') : recs'[e].rev = rel.rev
          /\ rel' = NoRel
          /\ UNCHANGED job
       \/ /\ \A e \in Epochs : Current(recs', e) => recs'[e].rev # rel.rev
          /\ \A e \in PendingIntents(recs') : recs'[e].rev # rel.rev
          /\ high < MaxEpoch
          /\ job' = [NoJob EXCEPT !.at = "allocate", !.kind = "capture", !.rev = rel.rev]
          /\ UNCHANGED rel
    /\ UNCHANGED <<treeVars, high, daemonVars, nodeVars, ack, poll, promised, faults, edits>>

\* publish_capture ends in one write: the record is born committed, at the
\* time read before its epoch was allocated.
RecordCapture ==
    /\ job.at = "record" /\ job.kind = "capture"
    /\ recs' = [recs EXCEPT ![high] = Rec(job.rev, None, 0, clock + Availability)]
    /\ rel' = [rel EXCEPT !.epoch = high]
    /\ job' = [job EXCEPT !.at = "collect"]
    /\ UNCHANGED <<treeVars, high, clock, files, daemonVars, nodeVars, ack, poll, promised,
                   faults, edits>>

Collect(now) ==
    /\ job.at = "collect"
    /\ clock' = Later(now, clock)
    /\ recs' = GC(recs, clock')
    /\ CollectOrphans(recs')
    /\ rel' = [rel EXCEPT !.at = "prepared"]
    /\ job' = NoJob
    /\ UNCHANGED <<treeVars, high, daemonVars, nodeVars, ack, poll, promised, faults, edits>>

\* The resolver is swapped before the artifact is advertised.  (At the start
\* it is the other way round, but nothing is served until both are done.)
PublishActive ==
    /\ rel.at = "prepared"
    /\ active' = rel.rev
    /\ rel' = [rel EXCEPT !.at = "installed"]
    /\ UNCHANGED <<treeVars, storeVars, up, asked, adv, nodeVars, job, ack, poll,
                   promised, faults, edits>>

InstallPolicy ==
    /\ rel.at = "installed"
    /\ adv' = Artifact(rel.epoch, rel.rev)
    /\ rel' = NoRel
    /\ UNCHANGED <<treeVars, storeVars, up, asked, active, nodeVars, job, ack, poll,
                   promised, faults, edits>>

\* A gate of the reload refuses before or after the artifact is prepared.
ReloadFails ==
    /\ Serving /\ Idle /\ rel.at \in {"captured", "prepared"} /\ faults < MaxFaults
    /\ rel' = NoRel
    /\ faults' = faults + 1
    /\ UNCHANGED <<treeVars, storeVars, daemonVars, nodeVars, job, ack, poll, promised, edits>>

Crash ==
    /\ up /\ faults < MaxFaults
    /\ up' = FALSE /\ asked' = FALSE /\ active' = None /\ adv' = None /\ ack' = None
    /\ job' = NoJob /\ rel' = NoRel
    /\ stale' = stale \ {"ack"}
    /\ faults' = faults + 1
    /\ UNCHANGED <<treeVars, storeVars, ledger, pending, ntree, nreceipt, nactive, nasked,
                   nrel, saw, poll, promised, edits>>

\* recover_policy_transaction_before_load; the tree is captured after it.
Start(d, now) ==
    /\ ~up
    /\ Recover(d) /\ RecoverStore(d, now)
    /\ up' = TRUE /\ asked' = TRUE
    /\ UNCHANGED <<high, active, adv, nodeVars, job, rel, ack, poll, promised, faults, edits>>

\* Someone saves the tree without the service, with or without a reload.
\* A transaction under way keeps such a save out of its way by itself.
Save(rev) ==
    /\ edits < MaxEdits /\ Prepared = {} /\ rev # tree
    /\ tree' = rev /\ stamp' = stamp + 1 /\ was' = was \cup {rev}
    /\ edits' = edits + 1
    /\ asked' \in {asked, asked \/ Serving}
    /\ UNCHANGED <<receipts, storeVars, up, active, adv, nodeVars, job, rel, ack, poll,
                   promised, faults>>

-----------------------------------------------------------------------------
(* The node.                                                               *)

\* recover_policy: the node's own interrupted transaction is decided.
NodeReceipt(d) == IF nreceipt = "prepared" THEN d ELSE nreceipt
NodeTree(d) == IF nreceipt = "prepared" /\ d = "committed" THEN pending.rev ELSE ntree

\* settle_pending: the ledger follows the receipt of the pending intent.
SettledLedger(d) ==
    IF pending # None /\ NodeReceipt(d) = "committed" THEN pending ELSE ledger

Settle(d) ==
    /\ ntree' = NodeTree(d)
    /\ ledger' = SettledLedger(d)
    /\ pending' = None /\ nreceipt' = "none"

\* Mutant of Acknowledged: what is persisted counts as active.
AcknowledgedPersisted(l) == l

\* What the node acknowledges: its ledger, if the resolver it saw runs it.
Acknowledged(l) == IF l # None /\ saw = l.rev THEN l ELSE None

\* A poll looks at the resolver first, without the lock, ...
Look ==
    /\ poll.at = "idle"
    /\ poll' = [NoPoll EXCEPT !.at = "looked"]
    /\ saw' = nactive
    /\ UNCHANGED <<treeVars, storeVars, daemonVars, ledger, pending, ntree, nreceipt, nactive,
                   nasked, nrel, stale, job, rel, ack, promised, faults, edits>>

\* ... then recovers under the lock, and says what it owns and runs.
Ask(d) ==
    /\ poll.at = "looked"
    /\ Settle(d)
    /\ poll' = [at |-> "asked", want |-> Acknowledged(ledger'), got |-> {}]
    /\ saw' = None
    /\ UNCHANGED <<treeVars, storeVars, daemonVars, nactive, nasked, nrel, stale, job, rel, ack,
                   promised, faults, edits>>

\* The acknowledgement is recorded, and is as stale as the poll's look.
Record ==
    /\ ack' = poll.want
    /\ stale' = IF poll.want # None /\ "poll" \in stale THEN {"ack"} ELSE {}

\* Mutant of Heartbeat: an owned artifact is taken to be active.
HeartbeatTrusting ==
    /\ poll.at = "asked" /\ Serving /\ Idle
    /\ Record
    /\ poll' = IF ledger = adv THEN NoPoll ELSE [at |-> "manifest", want |-> adv, got |-> {}]
    /\ UNCHANGED <<treeVars, storeVars, daemonVars, ledger, pending, ntree, nreceipt, nactive,
                   nasked, nrel, saw, job, rel, promised, faults, edits>>

\* The primary records the acknowledgement and tells what is advertised; a
\* node that owns it and does not run it asks for a reload, unless the
\* channel holds such a request already.
Heartbeat ==
    /\ poll.at = "asked" /\ Serving /\ Idle
    /\ Record
    /\ IF ledger = adv
         THEN poll' = NoPoll /\ nasked' = (nasked \/ ack' # adv)
         ELSE /\ poll' = [at |-> "manifest", want |-> adv, got |-> {}]
              /\ UNCHANGED nasked
    /\ UNCHANGED <<treeVars, storeVars, daemonVars, ledger, pending, ntree, nreceipt, nactive,
                   nrel, saw, job, rel, promised, faults, edits>>

\* deliver_manifest: the promise is written before the manifest is sent.  The
\* node goes on if its own clock, nnow, has not reached the promised end.
DeliverManifest(now, nnow) ==
    /\ poll.at = "manifest" /\ Serving /\ Idle /\ Openable
    /\ Available(poll.want)
    /\ clock' = Later(now, clock)
    /\ LET e == poll.want.epoch
           until == Later(recs[e].until, clock' + Availability)
       IN  /\ recs' = [recs EXCEPT ![e].until = until]
           /\ promised' = [promised EXCEPT ![e] = until]
           /\ poll' = IF until > nnow THEN [poll EXCEPT !.at = "objects"] ELSE NoPoll
    /\ CollectOrphans(recs')
    /\ UNCHANGED <<treeVars, high, daemonVars, nodeVars, job, rel, ack, faults, edits>>

DeliverObject(o) ==
    /\ poll.at = "objects" /\ Serving /\ Idle /\ Openable
    /\ Available(poll.want) /\ o \in Objects[poll.want.rev] \ poll.got
    /\ poll' = [poll EXCEPT !.got = @ \cup {o}]
    /\ CollectOrphans(recs)
    /\ UNCHANGED <<treeVars, high, clock, recs, daemonVars, nodeVars, job, rel, ack,
                   promised, faults, edits>>

\* The primary no longer has the artifact: ArtifactUnavailable.
Unavailable ==
    /\ poll.at \in {"manifest", "objects"} /\ Serving /\ Idle
    /\ ~Available(poll.want)
    /\ poll' = NoPoll
    /\ UNCHANGED <<treeVars, storeVars, daemonVars, nodeVars, job, rel, ack, promised, faults, edits>>

\* preflight refuses an older epoch, or another artifact of the same one.
Newer(a) == ledger = None \/ a.epoch > ledger.epoch

Begin ==
    /\ poll.at = "objects" /\ poll.got = Objects[poll.want.rev]
    /\ IF Newer(poll.want)
         THEN /\ pending' = poll.want /\ nreceipt' = "none"
              /\ poll' = [poll EXCEPT !.at = "prepare"]
         ELSE /\ poll' = IF poll.want = ledger THEN [NoPoll EXCEPT !.at = "activate"] ELSE NoPoll
              /\ UNCHANGED <<pending, nreceipt>>
    /\ UNCHANGED <<treeVars, storeVars, daemonVars, ledger, ntree, nactive, nasked, nrel, saw,
                   stale, job, rel, ack, promised, faults, edits>>

PrepareApply ==
    /\ poll.at = "prepare"
    /\ nreceipt' = "prepared"
    /\ poll' = [poll EXCEPT !.at = "commit"]
    /\ UNCHANGED <<treeVars, storeVars, daemonVars, ledger, pending, ntree, nactive, nasked,
                   nrel, saw, stale, job, rel, ack, promised, faults, edits>>

CommitApply ==
    /\ poll.at = "commit"
    /\ nreceipt' = "committed" /\ ntree' = pending.rev
    /\ poll' = [poll EXCEPT !.at = "complete"]
    /\ UNCHANGED <<treeVars, storeVars, daemonVars, ledger, pending, nactive, nasked,
                   nrel, saw, stale, job, rel, ack, promised, faults, edits>>

Complete ==
    /\ poll.at = "complete"
    /\ ledger' = pending /\ pending' = None /\ nreceipt' = "none"
    /\ poll' = [NoPoll EXCEPT !.at = "activate"]
    /\ UNCHANGED <<treeVars, storeVars, daemonVars, ntree, nactive, nasked, nrel, saw, stale,
                   job, rel, ack, promised, faults, edits>>

\* After an apply the request waits for room in the channel.
Activate ==
    /\ poll.at = "activate" /\ ~nasked
    /\ nasked' = TRUE /\ poll' = NoPoll
    /\ UNCHANGED <<treeVars, storeVars, daemonVars, ledger, pending, ntree, nreceipt, nactive,
                   nrel, saw, stale, job, rel, ack, promised, faults, edits>>

\* A request times out, or a step of the apply fails: the next poll settles.
PollFails ==
    /\ poll.at # "idle" /\ faults < MaxFaults
    /\ poll' = NoPoll /\ saw' = None
    /\ stale' = stale \ {"poll"}
    /\ faults' = faults + 1
    /\ UNCHANGED <<treeVars, storeVars, daemonVars, ledger, pending, ntree, nreceipt, nactive,
                   nasked, nrel, job, rel, ack, promised, edits>>

\* The node's reload.  The apply holds the node's write lock, and an
\* unsettled one fences the tree: the capture is refused.
NodeCapture ==
    /\ nasked /\ nrel = None
    /\ poll.at \notin {"prepare", "commit", "complete"}
    /\ nasked' = FALSE
    /\ nrel' = IF nreceipt = "prepared" THEN None ELSE ntree
    /\ UNCHANGED <<treeVars, storeVars, daemonVars, ledger, pending, ntree, nreceipt, nactive,
                   saw, stale, job, rel, ack, poll, promised, faults, edits>>

\* The statements of the node that are about the resolver it has now.
Spoken == (IF poll.at \in {"looked", "asked"} THEN {"poll"} ELSE {})
          \cup (IF ack # None THEN {"ack"} ELSE {})

\* What was captured is installed, whatever polls have applied meanwhile.
NodeSwap ==
    /\ nrel # None
    /\ nactive' = nrel /\ nrel' = None
    /\ stale' = IF nrel = nactive THEN stale ELSE Spoken
    /\ UNCHANGED <<treeVars, storeVars, daemonVars, ledger, pending, ntree, nreceipt, nasked,
                   saw, job, rel, ack, poll, promised, faults, edits>>

\* A gate rejects the reload: the resolver stays.
NodeReloadFails ==
    /\ nrel # None /\ faults < MaxFaults
    /\ nrel' = None
    /\ faults' = faults + 1
    /\ UNCHANGED <<treeVars, storeVars, daemonVars, ledger, pending, ntree, nreceipt, nactive,
                   nasked, saw, stale, job, rel, ack, poll, promised, edits>>

\* The node restarts: its transaction is recovered before the tree is loaded.
NodeRestart(d) ==
    /\ faults < MaxFaults
    /\ nreceipt' = NodeReceipt(d) /\ ntree' = NodeTree(d)
    /\ nactive' = ntree' /\ nasked' = FALSE /\ nrel' = None
    /\ poll' = NoPoll /\ saw' = None
    /\ stale' = Spoken \ {"poll"}
    /\ faults' = faults + 1
    /\ UNCHANGED <<treeVars, storeVars, daemonVars, ledger, pending, job, rel, ack, promised, edits>>

-----------------------------------------------------------------------------
Init ==
    /\ tree = FirstRev /\ stamp = 0 /\ was = {FirstRev}
    /\ receipts = [r \in Requests |-> "none"]
    /\ high = 0 /\ clock = 0 /\ files = {}
    /\ recs = [e \in Epochs |-> None]
    /\ up = FALSE /\ asked = FALSE /\ active = None /\ adv = None /\ ack = None
    /\ job = NoJob /\ rel = NoRel
    /\ ledger = None /\ pending = None /\ ntree = None /\ nreceipt = "none"
    /\ poll = NoPoll /\ nactive = None /\ nasked = FALSE
    /\ nrel = None /\ saw = None /\ stale = {}
    /\ promised = [e \in Epochs |-> 0]
    /\ faults = 0 /\ edits = 0

JobStep ==
    \/ Allocate \/ WriteFiles \/ RecordIntent \/ Prepare \/ Commit \/ BatchStuck
    \/ RecordCapture
    \/ \E now \in Times : Finalize(now) \/ Collect(now)
    \/ \E d \in Decisions, now \in Times : BatchRecovers(d, now)

ReloadStep == Capture \/ PublishActive \/ InstallPolicy \/ \E now \in Times : PreparePolicy(now)

StartStep == \E d \in Decisions, now \in Times : Start(d, now)

ApplyStep ==
    \/ Begin \/ PrepareApply \/ CommitApply \/ Complete \/ Activate \/ Unavailable
    \/ \E now, nnow \in Times : DeliverManifest(now, nnow)
    \/ \E rev \in Revs : \E o \in Objects[rev] : DeliverObject(o)

PollStep == ApplyStep \/ Heartbeat \/ Look \/ \E d \in Decisions : Ask(d)

NodeReload == NodeCapture \/ NodeSwap

\* A delivery that the node's clock lets pass.
Accepted == \E now, nnow \in Times : DeliverManifest(now, nnow) /\ poll'.at = "objects"

Next ==
    \/ JobStep \/ ReloadStep \/ StartStep \/ PollStep \/ NodeReload
    \/ \E d \in Decisions, now \in Times :
         Access(d, now) \/ \E r \in Requests : Reserve(r, d, now)
    \/ \E rev \in Revs : Save(rev)
    \/ JobFails \/ ReloadFails \/ Crash \/ PollFails \/ NodeReloadFails
    \/ \E d \in Decisions : NodeRestart(d)

Spec == Init /\ [][Next]_vars

(* The lock is given up at the end of an operation, the reload loop takes  *)
(* what it was asked for, systemd starts the daemon again, and the node    *)
(* polls on an interval.  The node's clock does not run ahead of what it   *)
(* is promised at every single poll.  No one has to use the service.       *)
Fairness ==
    /\ WF_vars(JobStep) /\ WF_vars(ReloadStep) /\ WF_vars(StartStep)
    /\ WF_vars(PollStep) /\ WF_vars(NodeReload) /\ SF_vars(Accepted)

FairSpec == Spec /\ Fairness

-----------------------------------------------------------------------------
(* Properties.                                                             *)

\* What the primary's status calls converged.
Converged == adv # None /\ active = adv.rev /\ ack = adv

(* The primary never advertises an epoch older than the one a node owns,   *)
(* nor another artifact under the same epoch: the node would refuse it     *)
(* from then on (preflight: ArtifactReplayRejected).                       *)
NodeNeverAhead ==
    adv # None /\ ledger # None => ledger = adv \/ ledger.epoch < adv.epoch

(* What is published, and what a node holds, is a policy the primary's     *)
(* tree has had: no batch that was refused, aborted or given up is         *)
(* published, whatever stopped between its reservation and its receipt     *)
(* and however often recovery ran (publisher::recover).                    *)
PublishedWasPolicy ==
    /\ \A e \in Committed(recs) : recs[e].rev \in was
    /\ ntree # None => ntree \in was

(* A manifest that was handed out stays complete, objects included, for as *)
(* long as the node was told, however the primary's clock jumps and        *)
(* whatever is published and collected meanwhile (deliver_manifest, gc).   *)
PromiseKept ==
    \A e \in Epochs : promised[e] > clock =>
        /\ recs[e] # None /\ recs[e].until > 0
        /\ FilesOf(e, recs[e].rev) \subseteq files

(* When the primary reports convergence, the node owns and has persisted   *)
(* the advertised artifact, and the resolver that its acknowledgement      *)
(* names ran it.  A reload that captured an older tree may have replaced   *)
(* that resolver since: then, unless something failed, another reload is   *)
(* already asked for or has captured the right one (converged_for, poll.rs *)
(* 582-609, handle_reload).                                                *)
ConvergedTruthful ==
    Converged =>
        /\ ledger = adv /\ pending = None /\ ntree = adv.rev
        /\ \/ nactive = adv.rev
           \/ /\ "ack" \in stale
              /\ faults > 0 \/ nasked \/ poll.at = "activate" \/ nrel = adv.rev

(* The node ends up with the advertised artifact, persisted and active,    *)
(* unless the primary has let it go or cannot start, and however many      *)
(* reloads of the node were stale or deliveries too late by its clock; and *)
(* without a fault or a save by hand that is the policy on the primary's   *)
(* disk.                                                                   *)
Converges ==
    <>[]( \/ Stuck("aborted")
          \/ adv # None /\ ~Available(adv)
          \/ /\ Converged /\ ledger = adv /\ nactive = adv.rev
             /\ faults = 0 /\ edits = 0 => adv.rev = tree )
=============================================================================
