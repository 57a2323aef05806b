--------------------------- MODULE ListController ---------------------------
(***************************************************************************)
(* The controller of the list manager (list_manager_controller,            *)
(* src/lists/manager.rs), the refresh worker it lends the manager to, and  *)
(* the clients that reach it through a bounded channel: IPC requests to    *)
(* refresh or forget a list, the reload that rebinds the node's policy     *)
(* artifact, and whoever retires the whole generation.                     *)
(*                                                                         *)
(* A worker runs on its own thread.  It and the controller share one       *)
(* atomic, the phase of src/lists/cancellation.rs, and the sequence number *)
(* of the last published cycle, which a rejected reload also advances.     *)
(*                                                                         *)
(* The sixteen slots of the channel are never exhausted by the four        *)
(* requests an endpoint admits and one rebind, so it has no bound here.    *)
(***************************************************************************)
EXTENDS Naturals, Sequences, FiniteSets

CONSTANTS
    Requests,      \* commands clients may send
    Commands,      \* which command each may be
    ShardCount,    \* DOMAIN_SHARDS
    MaxScheduled,  \* bound: deadlines that come round
    MaxRejected,   \* bound: cycles a rejected reload records
    MaxPanics,     \* bound: workers that panic
    NoRequest

ASSUME ControllerAssumption ==
    /\ ShardCount \in Nat \ {0}
    /\ Commands \subseteq [Requests -> {"force", "forget", "rebind"}]
    /\ MaxScheduled \in Nat /\ MaxRejected \in Nat /\ MaxPanics \in Nat
    /\ NoRequest \notin Requests

VARIABLES
    kind,       \* request -> which command it is
    stage,      \* request -> how far it has got
    after,      \* request -> forgets acknowledged before it was sent
    intake,     \* the receiver: "open", "sink" (drained by a task) or "gone"
    buf,        \* commands in the channel
    ctl,        \* the controller, and which await of a rebind it is in
    retiring,
    retireSent, \* ListManagerTask::retire was called
    queued,     \* the VecDeque of QueuedManagerWork
    active,     \* ActiveRefresh
    forgot,     \* forgets carried out
    rebind,     \* the rebind in hand
    decision,   \* what the reload put in the commit channel
    disturbed,  \* whether a worker has published since its preparation
    phase,      \* RefreshCancellation of the active worker
    pc,         \* the worker
    shard,      \* shard it is at
    swapped,    \* whether it has replaced one
    covers,     \* requests sent before the snapshot it returns was recorded
    seq,        \* CycleState.seq in the status registry
    scheduled, rejected, panics

reqVars    == <<kind, stage, after>>
ctlVars    == <<intake, buf, ctl, retiring, retireSent, queued, active, forgot>>
rebindVars == <<rebind, decision, disturbed>>
workVars   == <<phase, pc, shard, swapped, covers, seq>>
boundVars  == <<scheduled, rejected, panics>>
vars       == <<reqVars, ctlVars, rebindVars, workVars, boundVars>>

Kinds  == {"force", "forget", "rebind"}
Stages == {"none", "permit", "sent", "taken", "answered", "dropped", "refused", "stranded"}
Running   == {"start", "prepare", "build", "swap", "after", "commit", "publish", "return"}
Finished  == {"completed", "cancelled", "panicked"}
Work      == [kind : Kinds, reqs : SUBSET Requests]
NoRefresh == [mode |-> "none", waiting |-> {}, seqAtStart |-> 0, seen |-> {}]

TypeOK ==
    /\ kind \in [Requests -> Kinds] /\ stage \in [Requests -> Stages]
    /\ after \in [Requests -> SUBSET Requests]
    /\ intake \in {"open", "sink", "gone"} /\ buf \in Seq(Requests)
    /\ ctl \in {"loop", "prepare", "wait", "commit", "returned", "panicked"}
    /\ retiring \in BOOLEAN /\ retireSent \in BOOLEAN
    /\ queued \in Seq(Work)
    /\ active \in [mode : {"none", "scheduled", "force"}, waiting : SUBSET Requests,
                   seqAtStart : Nat, seen : SUBSET Requests]
    /\ forgot \in SUBSET Requests
    /\ rebind \in Requests \cup {NoRequest} /\ decision \in {"open", "yes", "no"}
    /\ disturbed \in BOOLEAN
    /\ phase \in {"RUNNING", "CANCELLED", "COMMITTING"}
    /\ pc \in Running \cup Finished \cup {"none"}
    /\ shard \in 1..ShardCount + 1 /\ swapped \in BOOLEAN
    /\ covers \in SUBSET Requests /\ seq \in Nat
    /\ scheduled \in 0..MaxScheduled /\ rejected \in 0..MaxRejected /\ panics \in 0..MaxPanics

Init ==
    /\ kind \in Commands /\ stage = [r \in Requests |-> "none"]
    /\ after = [r \in Requests |-> {}]
    /\ intake = "open" /\ buf = <<>> /\ ctl = "loop" /\ retiring = FALSE /\ retireSent = FALSE
    /\ queued = <<>> /\ active = NoRefresh /\ forgot = {}
    /\ rebind = NoRequest /\ decision = "open" /\ disturbed = FALSE
    /\ phase = "RUNNING" /\ pc = "none" /\ shard = 1 /\ swapped = FALSE
    /\ covers = {} /\ seq = 0
    /\ scheduled = 0 /\ rejected = 0 /\ panics = 0

-----------------------------------------------------------------------------
(* Clients.  Sending a command is two steps on two threads: a permit of the *)
(* channel is taken, and the command is pushed with it.                     *)

Acknowledged == {r \in Requests : kind[r] = "forget" /\ stage[r] \in {"taken", "answered"}}

(* The reload that rebinds and the one that retires are the same task, so  *)
(* no rebind is sent once a retirement was.                                *)
Reserve(r) ==
    /\ stage[r] = "none"
    /\ kind[r] = "rebind" =>
          /\ ~retireSent
          /\ \A o \in Requests : kind[o] = "rebind" => stage[o] \notin {"permit", "sent", "taken"}
    /\ stage' = [stage EXCEPT ![r] = IF intake = "open" THEN "permit" ELSE "refused"]
    /\ after' = [after EXCEPT ![r] = Acknowledged]
    /\ UNCHANGED <<kind, ctlVars, rebindVars, workVars, boundVars>>

(* Mutant: the sink stops receiving. *)
PushUnheard(r) ==
    /\ stage[r] = "permit"
    /\ stage' = [stage EXCEPT ![r] = IF intake = "gone" THEN "stranded" ELSE "sent"]
    /\ buf' = IF intake = "open" THEN Append(buf, r) ELSE buf
    /\ UNCHANGED <<kind, after, intake, ctl, retiring, retireSent, queued,
                   active, forgot, rebindVars, workVars, boundVars>>

(* A receiver that was dropped has drained the channel once, and whatever  *)
(* a permit pushes later stays there with its responders.                  *)
Push(r) ==
    /\ stage[r] = "permit"
    /\ stage' = [stage EXCEPT ![r] = IF intake = "open" THEN "sent"
                                  ELSE IF intake = "sink" THEN "dropped" ELSE "stranded"]
    /\ buf' = IF intake = "open" THEN Append(buf, r) ELSE buf
    /\ UNCHANGED <<kind, after, intake, ctl, retiring, retireSent, queued,
                   active, forgot, rebindVars, workVars, boundVars>>

(* The reload answers a prepared rebind, or drops the commit channel.      *)
Decide(d) ==
    /\ rebind # NoRequest /\ decision = "open"
    /\ d = "yes" => ctl = "wait"
    /\ decision' = d
    /\ UNCHANGED <<reqVars, ctlVars, rebind, disturbed, workVars, boundVars>>

(* A reload that is refused records a cycle of its own. *)
RejectReload ==
    /\ rejected < MaxRejected
    /\ rejected' = rejected + 1 /\ seq' = seq + 1
    /\ UNCHANGED <<reqVars, ctlVars, rebindVars, phase, pc, shard, swapped, covers, scheduled, panics>>

Retire ==
    /\ ~retireSent
    /\ \A r \in Requests : kind[r] = "rebind" /\ stage[r] \in {"permit", "sent", "taken"}
                              => rebind = r /\ decision = "no"
    /\ retireSent' = TRUE
    /\ UNCHANGED <<reqVars, intake, buf, ctl, retiring, queued, active, forgot, rebindVars,
                   workVars, boundVars>>

-----------------------------------------------------------------------------
(* The worker. *)

(* checkpoint: every step up to the first swap looks at the phase. *)
Cancelled == phase = "CANCELLED"

(* Mutant: the phase is looked at but not claimed. *)
BeginCommitUnclaimed == ~Cancelled /\ UNCHANGED phase

(* begin_commit, when it does not return Cancelled: the compare and        *)
(* exchange that a retirement can no longer win.                           *)
BeginCommit == ~Cancelled /\ phase' = "COMMITTING"

(* Any step but those behind a begin_commit may find itself cancelled.     *)
WorkerCancelled ==
    /\ pc \in Running \ {"return"} /\ Cancelled
    /\ pc' = "cancelled"
    /\ UNCHANGED <<reqVars, ctlVars, rebindVars, phase, shard, swapped, covers, seq, boundVars>>

WorkerStart ==
    /\ pc = "start" /\ ~Cancelled /\ pc' = "prepare"
    /\ UNCHANGED <<reqVars, ctlVars, rebindVars, phase, shard, swapped, covers, seq, boundVars>>

Record ==
    /\ seq' = seq + 1 /\ disturbed' = TRUE
    /\ covers' = {r \in Requests : stage[r] # "none"}
    /\ UNCHANGED <<rebind, decision>>

(* Mutant: the early failure is recorded without claiming the phase. *)
WorkerRefusesUnclaimed ==
    /\ pc = "prepare" /\ ~Cancelled /\ pc' = "return"
    /\ Record
    /\ UNCHANGED <<reqVars, ctlVars, phase, shard, swapped, boundVars>>

(* The auxiliary sources or the spill cannot be prepared: the failed cycle *)
(* is recorded at once.                                                    *)
WorkerRefuses ==
    /\ pc = "prepare" /\ BeginCommit /\ pc' = "return"
    /\ Record
    /\ UNCHANGED <<reqVars, ctlVars, shard, swapped, boundVars>>

(* Sources are read and measured.  A corpus that is refused, unchanged or  *)
(* incomplete is not installed.                                            *)
WorkerPrepared ==
    /\ pc = "prepare" /\ ~Cancelled
    /\ pc' \in {"build", "commit"}
    /\ UNCHANGED <<reqVars, ctlVars, rebindVars, phase, shard, swapped, covers, seq, boundVars>>

NextShard == shard' = shard + 1 /\ pc' = IF shard = ShardCount THEN "commit" ELSE "build"

WorkerBuilds ==
    /\ pc = "build" /\ ~Cancelled /\ pc' = "swap"
    /\ UNCHANGED <<reqVars, ctlVars, rebindVars, phase, shard, swapped, covers, seq, boundVars>>

(* The shard could not be built twice; its previous generation stays. *)
WorkerDegrades ==
    /\ pc = "build" /\ ~Cancelled /\ NextShard
    /\ UNCHANGED <<reqVars, ctlVars, rebindVars, phase, swapped, covers, seq, boundVars>>

WorkerSwaps ==
    /\ pc = "swap" /\ BeginCommit
    /\ swapped' = TRUE /\ pc' = "after"
    /\ UNCHANGED <<reqVars, ctlVars, rebindVars, shard, covers, seq, boundVars>>

WorkerSwapped ==
    /\ pc = "after" /\ ~Cancelled /\ NextShard
    /\ UNCHANGED <<reqVars, ctlVars, rebindVars, phase, swapped, covers, seq, boundVars>>

(* Cache manifests are written between this and the publication. *)
WorkerCommits ==
    /\ pc = "commit" /\ BeginCommit /\ pc' = "publish"
    /\ UNCHANGED <<reqVars, ctlVars, rebindVars, shard, swapped, covers, seq, boundVars>>

WorkerPublishes ==
    /\ pc = "publish" /\ ~Cancelled /\ pc' = "return"
    /\ Record
    /\ UNCHANGED <<reqVars, ctlVars, phase, shard, swapped, boundVars>>

(* The checkpoint "worker_return" is expected to succeed. *)
WorkerReturns ==
    /\ pc = "return"
    /\ pc' = IF Cancelled THEN "panicked" ELSE "completed"
    /\ UNCHANGED <<reqVars, ctlVars, rebindVars, phase, shard, swapped, covers, seq, boundVars>>

WorkerPanics ==
    /\ pc \in Running /\ panics < MaxPanics
    /\ pc' = "panicked" /\ panics' = panics + 1
    /\ UNCHANGED <<reqVars, ctlVars, rebindVars, phase, shard, swapped, covers, seq, scheduled, rejected>>

WorkerSteps ==
    \/ WorkerCancelled \/ WorkerStart \/ WorkerRefuses \/ WorkerPrepared \/ WorkerBuilds
    \/ WorkerDegrades \/ WorkerSwaps \/ WorkerSwapped \/ WorkerCommits \/ WorkerPublishes
    \/ WorkerReturns

-----------------------------------------------------------------------------
(* The controller.  Its selects are biased: a retirement goes before the   *)
(* worker's result, and that before the next command.                      *)

start_refresh_worker(mode, waiting) ==
    /\ active' = [mode |-> mode, waiting |-> waiting, seqAtStart |-> seq, seen |-> forgot]
    /\ phase' = "RUNNING" /\ pc' = "start" /\ shard' = 1 /\ swapped' = FALSE /\ covers' = {}
    /\ seq' = seq

Idle == ctl = "loop" /\ active.mode = "none" /\ ~retireSent

(* What the function that ends leaves behind: every sender it held. *)
Release(held) == [r \in Requests |-> IF stage[r] \in held THEN "dropped" ELSE stage[r]]

(* Mutant: the loop goes round again. *)
ReturnNever == ctl' = ctl

(* The loop's own return, after a retirement drained the intake. *)
Return == ctl' = "returned"

(* Mutant: a refresh that has published is still joined. *)
JoinsPublished(r) == kind[r] = "force" /\ active.mode = "force" /\ queued = <<>>

(* Mutant: a refresh is joined ahead of the work that waits. *)
JoinsAhead(r) == kind[r] = "force" /\ active.mode = "force" /\ seq = active.seqAtStart

(* A request joins the refresh in flight when no work waits and that       *)
(* refresh has not published.                                              *)
Joins(r) ==
    /\ kind[r] = "force" /\ active.mode = "force"
    /\ queued = <<>> /\ seq = active.seqAtStart

(* Otherwise it coalesces with a refresh at the back, or waits its turn. *)
Enqueued(r) ==
    IF kind[r] = "force" /\ queued # <<>> /\ queued[Len(queued)].kind = "force"
    THEN [queued EXCEPT ![Len(queued)].reqs = @ \cup {r}]
    ELSE Append(queued, [kind |-> kind[r], reqs |-> {r}])

Take(r) ==
    /\ buf # <<>> /\ r = Head(buf)
    /\ buf' = Tail(buf)

accept_while_active(r) ==
    /\ ctl = "loop" /\ active.mode # "none" /\ ~retireSent /\ pc \notin Finished
    /\ Take(r) /\ stage' = [stage EXCEPT ![r] = "taken"]
    /\ \/ /\ Joins(r)
          /\ active' = [active EXCEPT !.waiting = @ \cup {r}] /\ UNCHANGED queued
       \/ /\ ~Joins(r)
          /\ queued' = Enqueued(r) /\ UNCHANGED active
    /\ UNCHANGED <<kind, after, intake, ctl, retiring, retireSent, forgot,
                   rebindVars, workVars, boundVars>>

(* The work starts, at once when idle or from the front of the queue. *)
Perform(k, reqs) ==
    \/ /\ k = "forget"
       /\ forgot' = forgot \cup reqs
       /\ stage' = [r \in Requests |-> IF r \in reqs THEN "answered" ELSE stage[r]]
       /\ UNCHANGED <<active, workVars, ctl, rebindVars>>
    \/ /\ k = "force"
       /\ start_refresh_worker("force", reqs)
       /\ stage' = [r \in Requests |-> IF r \in reqs THEN "taken" ELSE stage[r]]
       /\ UNCHANGED <<forgot, ctl, rebindVars>>
    \/ /\ k = "rebind"
       /\ ctl' = "prepare" /\ rebind' \in reqs /\ decision' = "open"
       /\ stage' = [r \in Requests |-> IF r \in reqs THEN "taken" ELSE stage[r]]
       /\ UNCHANGED <<forgot, active, workVars, disturbed>>

accept_when_idle(r) ==
    /\ Idle /\ queued = <<>>
    /\ Take(r) /\ Perform(kind[r], {r})
    /\ UNCHANGED <<kind, after, intake, retiring, retireSent, queued, boundVars>>

Dispatch ==
    /\ Idle /\ queued # <<>>
    /\ Perform(Head(queued).kind, Head(queued).reqs) /\ queued' = Tail(queued)
    /\ UNCHANGED <<kind, after, intake, buf, retiring, retireSent, boundVars>>

Deadline ==
    /\ Idle /\ queued = <<>> /\ scheduled < MaxScheduled
    /\ scheduled' = scheduled + 1 /\ start_refresh_worker("scheduled", {})
    /\ UNCHANGED <<reqVars, intake, buf, ctl, retiring, retireSent, queued, forgot, rebindVars,
                   rejected, panics>>

(* Mutant: the controller does not wait for its worker. *)
BeginRetiringAtOnce ==
    /\ ctl = "loop" /\ retireSent /\ ~retiring
    /\ retiring' = TRUE /\ intake' = "sink" /\ buf' = <<>> /\ queued' = <<>>
    /\ stage' = [r \in Requests |-> IF stage[r] \in {"sent", "taken"} /\ r \notin active.waiting
                                    THEN "dropped" ELSE stage[r]]
    /\ Return /\ phase' = (IF phase = "RUNNING" THEN "CANCELLED" ELSE phase)
    /\ UNCHANGED <<kind, after, retireSent, active, forgot, rebindVars,
                   pc, shard, swapped, covers, seq, boundVars>>

(* Mutant: the receiver is dropped without a sink. *)
BeginRetiringNoSink ==
    /\ ctl = "loop" /\ retireSent /\ ~retiring
    /\ retiring' = TRUE /\ intake' = "gone" /\ buf' = <<>> /\ queued' = <<>>
    /\ stage' = [r \in Requests |-> IF stage[r] \in {"sent", "taken"} /\ r \notin active.waiting
                                    THEN "dropped" ELSE stage[r]]
    /\ IF active.mode = "none"
       THEN Return /\ UNCHANGED phase
       ELSE phase' = (IF phase = "RUNNING" THEN "CANCELLED" ELSE phase) /\ UNCHANGED ctl
    /\ UNCHANGED <<kind, after, retireSent, active, forgot, rebindVars,
                   pc, shard, swapped, covers, seq, boundVars>>

(* The intake goes to a task that keeps receiving, what waits is dropped,  *)
(* and a worker is told to stop; without one the controller is done.       *)
BeginRetiring ==
    /\ ctl = "loop" /\ retireSent /\ ~retiring
    /\ retiring' = TRUE /\ intake' = "sink" /\ buf' = <<>> /\ queued' = <<>>
    /\ stage' = [r \in Requests |-> IF stage[r] \in {"sent", "taken"} /\ r \notin active.waiting
                                    THEN "dropped" ELSE stage[r]]
    /\ IF active.mode = "none"
       THEN Return /\ UNCHANGED phase
       ELSE phase' = (IF phase = "RUNNING" THEN "CANCELLED" ELSE phase) /\ UNCHANGED ctl
    /\ UNCHANGED <<kind, after, retireSent, active, forgot, rebindVars,
                   pc, shard, swapped, covers, seq, boundVars>>

Joined(outcome) ==
    /\ ctl = "loop" /\ active.mode # "none" /\ pc = outcome /\ (retireSent => retiring)
    /\ active' = NoRefresh
    /\ phase' = "RUNNING" /\ pc' = "none" /\ shard' = 1 /\ swapped' = FALSE /\ covers' = {}

Completed ==
    /\ Joined("completed")
    /\ stage' = [r \in Requests |-> IF r \in active.waiting THEN "answered" ELSE stage[r]]
    /\ IF retiring THEN Return ELSE UNCHANGED ctl
    /\ UNCHANGED <<kind, after, intake, buf, retiring, retireSent, queued, forgot,
                   rebindVars, seq, boundVars>>

WasCancelled ==
    /\ Joined("cancelled")
    /\ stage' = [r \in Requests |-> IF r \in active.waiting THEN "dropped" ELSE stage[r]]
    /\ IF retiring THEN Return ELSE UNCHANGED ctl
    /\ UNCHANGED <<kind, after, intake, buf, retiring, retireSent, queued, forgot,
                   rebindVars, seq, boundVars>>

(* The controller panics with the worker, and drops all it held. *)
WorkerLost ==
    /\ Joined("panicked")
    /\ ctl' = "panicked" /\ stage' = Release({"sent", "taken"})
    /\ intake' = (IF intake = "open" THEN "gone" ELSE intake) /\ buf' = <<>> /\ queued' = <<>>
    /\ UNCHANGED <<kind, after, retiring, retireSent, forgot, rebindVars,
                   seq, boundVars>>

-----------------------------------------------------------------------------
(* A rebind (run_policy_rebind): the manager is held from the preparation  *)
(* to the commit, and commands that arrive meanwhile wait.                 *)

EndRebind(outcome) ==
    /\ ctl' = "loop" /\ rebind' = NoRequest
    /\ stage' = [stage EXCEPT ![rebind] = outcome]

(* run_policy_rebind returns false and the controller with it.  The        *)
(* receiver is dropped where it is, without a sink.                        *)
LeaveInRebind ==
    /\ ctl' = "returned" /\ rebind' = NoRequest
    /\ stage' = Release({"sent", "taken"})
    /\ intake' = "gone" /\ buf' = <<>> /\ queued' = <<>>

Prepared ==
    /\ ctl = "prepare" /\ decision # "no"
    /\ ctl' = "wait" /\ disturbed' = FALSE
    /\ UNCHANGED <<reqVars, intake, buf, retiring, retireSent, queued, active, forgot, rebind,
                   decision, workVars, boundVars>>

(* The corpus does not allow it, or the reload has gone. *)
NotPrepared ==
    /\ ctl = "prepare" /\ EndRebind("answered")
    /\ UNCHANGED <<kind, after, intake, buf, retiring, retireSent, queued, active,
                   forgot, decision, disturbed, workVars, boundVars>>

RebindDecided ==
    /\ ctl = "wait" /\ ~retireSent /\ decision # "open"
    /\ \/ decision = "yes" /\ ctl' = "commit" /\ UNCHANGED <<stage, rebind>>
       \/ decision = "no" /\ EndRebind("dropped")
    /\ UNCHANGED <<kind, after, intake, buf, retiring, retireSent, queued, active,
                   forgot, decision, disturbed, workVars, boundVars>>

RebindCommitted ==
    /\ ctl = "commit" /\ EndRebind("answered")
    /\ UNCHANGED <<kind, after, intake, buf, retiring, retireSent, queued, active,
                   forgot, decision, disturbed, workVars, boundVars>>

(* Mutant: a refresh asked for meanwhile starts. *)
AcceptInRebindAtOnce(r) ==
    /\ ctl = "wait" /\ ~retireSent /\ decision = "open"
    /\ Take(r) /\ stage' = [stage EXCEPT ![r] = "taken"]
    /\ start_refresh_worker("force", {r}) /\ kind[r] = "force"
    /\ UNCHANGED <<kind, after, intake, ctl, retiring, retireSent, queued, forgot,
                   rebindVars, boundVars>>

AcceptInRebind(r) ==
    /\ ctl = "wait" /\ ~retireSent /\ decision = "open"
    /\ Take(r) /\ stage' = [stage EXCEPT ![r] = "taken"]
    /\ queued' = Enqueued(r)
    /\ UNCHANGED <<kind, after, intake, ctl, retiring, retireSent, active, forgot,
                   rebindVars, workVars, boundVars>>

RetireInRebind ==
    /\ ctl = "wait" /\ retireSent /\ LeaveInRebind
    /\ UNCHANGED <<kind, after, retiring, retireSent, active, forgot,
                   decision, disturbed, workVars, boundVars>>

(* The thread that prepares or commits panics, and the manager is lost. *)
RebindPanics ==
    /\ ctl \in {"prepare", "commit"} /\ panics < MaxPanics /\ LeaveInRebind
    /\ panics' = panics + 1
    /\ UNCHANGED <<kind, after, retiring, retireSent, active, forgot,
                   decision, disturbed, workVars, scheduled, rejected>>

-----------------------------------------------------------------------------
ControllerSteps ==
    \/ \E r \in Requests : accept_while_active(r) \/ accept_when_idle(r) \/ AcceptInRebind(r)
    \/ Dispatch \/ BeginRetiring \/ Completed \/ WasCancelled \/ WorkerLost
    \/ Prepared \/ NotPrepared \/ RebindDecided \/ RebindCommitted \/ RetireInRebind

Next ==
    \/ \E r \in Requests : Reserve(r) \/ Push(r)
    \/ \E d \in {"yes", "no"} : Decide(d)
    \/ RejectReload \/ Retire \/ Deadline \/ WorkerPanics \/ RebindPanics
    \/ WorkerSteps \/ ControllerSteps

Spec == Init /\ [][Next]_vars

(* The runtime polls the controller, the blocking threads run, every fetch *)
(* has a total timeout, a thread between its permit and its push goes on,  *)
(* and the reload that asked for a rebind answers it.                      *)
Fairness ==
    /\ WF_vars(ControllerSteps) /\ WF_vars(WorkerSteps)
    /\ \A r \in Requests : WF_vars(Push(r))
    /\ WF_vars(\E d \in {"yes", "no"} : Decide(d))

FairSpec == Spec /\ Fairness

-----------------------------------------------------------------------------
Answered(r) == kind[r] = "force" /\ stage[r] # "answered" /\ stage'[r] = "answered"

(* A force refresh is answered with a snapshot published after it was      *)
(* sent, also when it joined a refresh in flight and when a reload has     *)
(* published in between (accept_while_active).                             *)
AnsweredAfterwards == [][\A r \in Requests : Answered(r) => r \in covers]_vars

(* A force refresh sent after a forget was acknowledged is served by a     *)
(* refresh that began once the forget was done: neither joining nor        *)
(* coalescing lets it overtake (accept_while_active).                      *)
ForgetsComeFirst == [][\A r \in Requests : Answered(r) => after[r] \subseteq active.seen]_vars

(* A worker that was cancelled has replaced no shard, so a retirement      *)
(* never leaves half a corpus (begin_commit).                              *)
CancelledLeavesCorpus == pc = "cancelled" => ~swapped

(* The panic of "completed commit is not cancellable" is never reached: a  *)
(* worker that panicked did so for a reason of its own                     *)
(* (spawn_list_refresh_worker).                                            *)
CompletedIsNotCancelled == (pc = "panicked" \/ ctl = "panicked") => panics > 0

(* No worker publishes between the preparation of a rebind and its commit  *)
(* (run_policy_rebind).                                                    *)
RebindBarrier == ctl = "commit" => ~disturbed

(* A controller that has returned has left no worker running, so the next  *)
(* generation is alone with the cache and the filter                       *)
(* (ListManagerTask::retire).                                              *)
RetiredIsQuiet == ctl \in {"returned", "panicked"} => pc \notin Running

(* A command whose responders nobody will ever drop was pushed behind a    *)
(* controller that panicked or left during a rebind; an ordinary           *)
(* retirement strands nobody (drop_command_intake).                        *)
NobodyStranded == retiring => \A r \in Requests : stage[r] # "stranded"

(* A controller asked to retire does. *)
Retires == retireSent ~> ctl \in {"returned", "panicked"}

(* A command that has its permit is answered, or its sender is dropped or  *)
(* stranded as above.                                                      *)
Settles == \A r \in Requests :
    stage[r] = "permit" ~> stage[r] \in {"answered", "dropped", "stranded"}
=============================================================================
