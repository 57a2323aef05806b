--------------------------- MODULE ReloadPipeline ---------------------------
(***************************************************************************)
(* How a configuration write reaches the running daemon.                   *)
(*                                                                         *)
(*   IPC Reload -> ReloadCoalescer -> its worker -> reload_tx -+           *)
(*   REST list handlers, send().await ------------> reload_tx -+           *)
(*   IPC mutation handlers, try_send -------------> reload_tx -+-> signal  *)
(*   operator rule jobs, try_send --------------> activation_tx -> loop    *)
(*   SIGHUP -----------------------------------------------------> loop    *)
(*                                                                         *)
(* src/ipc/reload_coalescer.rs gives the coalescer: a counter, a uid slot, *)
(* a Notify permit and a liveness flag, four shared cells that request()   *)
(* and the worker touch one at a time.  src/ipc/socket_server.rs,          *)
(* src/api/handlers.rs and src/api/operator_rule_jobs.rs give the callers, *)
(* src/cli/commands/start.rs the two channels, signal_loop, handle_reload  *)
(* and the teardown after the loop.                                        *)
(*                                                                         *)
(* The configuration tree is a version number.  A caller first writes the  *)
(* tree, then asks for a reload; handle_reload captures the version that   *)
(* is on disk when it starts and then accepts or rejects that version,     *)
(* which ends the attempt either way.                                      *)
(***************************************************************************)
EXTENDS Naturals, Sequences

CONSTANTS
    IpcClients,   \* tasks serving IpcCommand::Reload, named by their peer uid
    ApiClients,   \* REST handlers that mutate a list, then send a reload
    MutClients,   \* IPC mutation handlers, named by their peer uid
    Jobs,         \* operator rule jobs that ask for their own activation
    NoUid,        \* Option::None in the uid slot and on the channel
    ActQueue,     \* capacity of the activation channel
    MaxVersion    \* bound: how many configuration writes a behaviour makes

ASSUME ReloadAssumption ==
    /\ IpcClients \cap (ApiClients \cup MutClients \cup Jobs) = {}
    /\ ApiClients \cap (MutClients \cup Jobs) = {}
    /\ MutClients \cap Jobs = {}
    /\ NoUid \notin IpcClients \cup MutClients \cup Jobs
    /\ ActQueue \in Nat \ {0} /\ MaxVersion \in Nat

Clients == IpcClients \cup ApiClients \cup MutClients \cup Jobs
OptUid  == IpcClients \cup MutClients \cup {NoUid}

VARIABLES
    disk,      \* version of the configuration tree on disk
    pc,        \* per client: the next step of its task
    wrote,     \* per client: the version its last write produced
    accepted,  \* per client: version of its last request answered "queued"
    pending,   \* pending_count
    counted,   \* history: the clients whose requests pending stands for
    slot,      \* last_peer_uid
    permit,    \* the single stored permit of notify
    alive,     \* worker_alive
    wpc,       \* the worker's next step
    batch,     \* history: the clients whose requests the last drain took
    uid,       \* the uid the worker took out of the slot
    chan,      \* reload_tx: the queued uids
    hup,       \* a SIGHUP is pending
    acts,      \* activation_tx: the queued jobs
    result,    \* per job: what its last activation was answered
    loop,      \* signal_loop's next step, then the teardown's
    serving,   \* the job the running handle_reload answers, or NoUid
    captured,  \* version the running handle_reload read
    attempted, \* newest version a finished handle_reload had read
    active     \* version of the published policy (active_policy_identity)

coalescer == <<pending, counted, slot, permit, alive>>
worker    == <<wpc, batch, uid>>
activation == <<acts, result>>
daemon    == <<loop, serving, captured, attempted, active>>
vars == <<disk, pc, wrote, accepted, coalescer, worker, chan, hup, activation, daemon>>

Capacity == 1

\* signal_loop has returned.  Its receivers live until the teardown retires
\* the activation queue, and then drops the reload channel: send() errs.
Stopped == loop \in {"stopped", "retired", "closed"}
ActsClosed == loop \in {"retired", "closed"}
Closed == loop = "closed"

Answers == {"none", "waiting", "applied", "superseded", "rejected", "unknown", "failed"}

TypeOK ==
    /\ disk \in Nat
    /\ pc \in [Clients -> {"idle", "check", "add", "uid", "notify", "send", "try",
                            "activate", "await"}]
    /\ wrote \in [Clients -> Nat]
    /\ accepted \in [Clients -> Nat]
    /\ pending \in Nat
    /\ counted \subseteq IpcClients
    /\ slot \in OptUid
    /\ permit \in BOOLEAN
    /\ alive \in BOOLEAN
    /\ wpc \in {"wait", "window", "take", "send", "exited"}
    /\ batch \subseteq IpcClients
    /\ uid \in OptUid
    /\ chan \in Seq(OptUid) /\ Len(chan) <= Capacity
    /\ hup \in BOOLEAN
    /\ acts \in Seq(Jobs) /\ Len(acts) <= ActQueue
    /\ result \in [Jobs -> Answers]
    /\ loop \in {"select", "reload", "apply", "stopped", "retired", "closed"}
    /\ serving \in Jobs \cup {NoUid}
    /\ captured \in Nat
    /\ attempted \in Nat
    /\ active \in Nat

Init ==
    /\ disk = 0
    /\ pc = [c \in Clients |-> "idle"]
    /\ wrote = [c \in Clients |-> 0]
    /\ accepted = [c \in Clients |-> 0]
    /\ pending = 0
    /\ counted = {}
    /\ slot = NoUid
    /\ permit = FALSE
    /\ alive = TRUE
    /\ wpc = "wait"
    /\ batch = {}
    /\ uid = NoUid
    /\ chan = <<>>
    /\ hup = FALSE
    /\ acts = <<>>
    /\ result = [j \in Jobs |-> "none"]
    /\ loop = "select"
    /\ serving = NoUid
    /\ captured = 0
    /\ attempted = 0
    /\ active = 0

-----------------------------------------------------------------------------
(* The callers.                                                            *)

\* A CLI command, a handler or a job saves the tree; asking for the reload
\* is its next step.
Write(c) ==
    /\ pc[c] = "idle"
    /\ disk < MaxVersion
    /\ disk' = disk + 1
    /\ wrote' = [wrote EXCEPT ![c] = disk + 1]
    /\ pc' = [pc EXCEPT ![c] = CASE c \in IpcClients -> "check"
                                 [] c \in ApiClients -> "send"
                                 [] c \in MutClients -> "try"
                                 [] c \in Jobs       -> "activate"]
    /\ result' = [j \in Jobs |-> IF j = c THEN "none" ELSE result[j]]
    /\ UNCHANGED <<accepted, coalescer, worker, chan, hup, acts, daemon>>

\* The operator edits the tree and sends SIGHUP; pending signals merge.
EditAndHup ==
    /\ disk < MaxVersion
    /\ ~Stopped
    /\ disk' = disk + 1
    /\ hup' = TRUE
    /\ UNCHANGED <<pc, wrote, accepted, coalescer, worker, chan, activation, daemon>>

\* request(): load worker_alive.  Once the worker has left the caller is
\* refused and the IPC handler answers ReloadChannelClosed.
CheckAlive(c) ==
    /\ pc[c] = "check"
    /\ pc' = [pc EXCEPT ![c] = IF alive THEN "add" ELSE "idle"]
    /\ UNCHANGED <<disk, wrote, accepted, coalescer, worker, chan, hup, activation, daemon>>

\* request(): pending_count.fetch_add(1).
AddPending(c) ==
    /\ pc[c] = "add"
    /\ pending' = pending + 1
    /\ counted' = counted \cup {c}
    /\ pc' = [pc EXCEPT ![c] = "uid"]
    /\ UNCHANGED <<disk, wrote, accepted, slot, permit, alive, worker, chan, hup,
                   activation, daemon>>

\* request(): *slot = peer_uid, under the slot's mutex.
StoreUid(c) ==
    /\ pc[c] = "uid"
    /\ slot' = c
    /\ pc' = [pc EXCEPT ![c] = "notify"]
    /\ UNCHANGED <<disk, wrote, accepted, pending, counted, permit, alive, worker,
                   chan, hup, activation, daemon>>

\* Mutation: notify_waiters() in place of notify_one() wakes a worker that is
\* waiting and stores nothing for one that is busy.
NotifyWaitersOnly(c) ==
    /\ pc[c] = "notify"
    /\ permit' = (permit \/ wpc = "wait")
    /\ accepted' = [accepted EXCEPT ![c] = wrote[c]]
    /\ pc' = [pc EXCEPT ![c] = "idle"]
    /\ UNCHANGED <<disk, wrote, pending, counted, slot, alive, worker, chan, hup,
                   activation, daemon>>

\* request(): notify_one() stores at most one permit; the caller is told
\* that its reload is queued.
NotifyWorker(c) ==
    /\ pc[c] = "notify"
    /\ permit' = TRUE
    /\ accepted' = [accepted EXCEPT ![c] = wrote[c]]
    /\ pc' = [pc EXCEPT ![c] = "idle"]
    /\ UNCHANGED <<disk, wrote, pending, counted, slot, alive, worker, chan, hup,
                   activation, daemon>>

\* add_list, remove_list, trigger_update: reload_tx.send(None) waits while
\* the channel is full, and errs once it is closed.
ApiSend(c) ==
    /\ pc[c] = "send"
    /\ \/ /\ ~Closed
          /\ Len(chan) < Capacity
          /\ chan' = Append(chan, NoUid)
          /\ accepted' = [accepted EXCEPT ![c] = wrote[c]]
       \/ /\ Closed
          /\ UNCHANGED <<chan, accepted>>
    /\ pc' = [pc EXCEPT ![c] = "idle"]
    /\ UNCHANGED <<disk, wrote, coalescer, worker, hup, activation, daemon>>

\* Mutation: a full channel sheds the queued message, not the new one.
MutTrySendEvicts(c) ==
    /\ pc[c] = "try"
    /\ \/ ~Closed /\ Len(chan) < Capacity /\ chan' = Append(chan, c)
       \/ ~Closed /\ Len(chan) = Capacity /\ chan' = <<>>
       \/ Closed /\ UNCHANGED chan
    /\ accepted' = [accepted EXCEPT ![c] = IF Closed THEN @ ELSE wrote[c]]
    /\ pc' = [pc EXCEPT ![c] = "idle"]
    /\ UNCHANGED <<disk, wrote, coalescer, worker, hup, activation, daemon>>

\* device_add and the other mutation handlers, notify_reload: try_send.  A
\* full channel is a success too: the reload that is queued will read a tree
\* that already holds this write.
MutTrySend(c) ==
    /\ pc[c] = "try"
    /\ \/ ~Closed /\ Len(chan) < Capacity /\ chan' = Append(chan, c)
       \/ ~Closed /\ Len(chan) = Capacity /\ UNCHANGED chan
       \/ Closed /\ UNCHANGED chan
    /\ accepted' = [accepted EXCEPT ![c] = IF Closed THEN @ ELSE wrote[c]]
    /\ pc' = [pc EXCEPT ![c] = "idle"]
    /\ UNCHANGED <<disk, wrote, coalescer, worker, hup, activation, daemon>>

\* activate_committed: the request is queued, and the job waits for its
\* answer; a full or closed queue fails the activation.
Activate(j) ==
    /\ pc[j] = "activate"
    /\ \/ /\ ~ActsClosed /\ Len(acts) < ActQueue
          /\ acts' = Append(acts, j)
          /\ result' = [result EXCEPT ![j] = "waiting"]
          /\ pc' = [pc EXCEPT ![j] = "await"]
       \/ /\ ActsClosed \/ Len(acts) = ActQueue
          /\ result' = [result EXCEPT ![j] = "failed"]
          /\ pc' = [pc EXCEPT ![j] = "idle"]
          /\ UNCHANGED acts
    /\ UNCHANGED <<disk, wrote, accepted, coalescer, worker, chan, hup, daemon>>

\* The job takes its answer from the completion channel.
JobAnswered(j) ==
    /\ pc[j] = "await" /\ result[j] # "waiting"
    /\ pc' = [pc EXCEPT ![j] = "idle"]
    /\ UNCHANGED <<disk, wrote, accepted, coalescer, worker, chan, hup, activation, daemon>>

-----------------------------------------------------------------------------
(* The coalescer's worker (run_worker_loop).                               *)

\* notify.notified().await takes the permit and opens the debounce window.
Wake ==
    /\ wpc = "wait"
    /\ permit
    /\ permit' = FALSE
    /\ wpc' = "window"
    /\ UNCHANGED <<disk, pc, wrote, accepted, pending, counted, slot, alive, batch,
                   uid, chan, hup, activation, daemon>>

\* The window has elapsed: pending_count.swap(0).  An empty drain goes back
\* to waiting and leaves the uid slot alone.
Drain ==
    /\ wpc = "window"
    /\ pending' = 0
    /\ counted' = {}
    /\ batch' = counted
    /\ wpc' = IF pending = 0 THEN "wait" ELSE "take"
    /\ UNCHANGED <<disk, pc, wrote, accepted, slot, permit, alive, uid, chan, hup,
                   activation, daemon>>

\* last_peer_uid.lock().await.take().
TakeUid ==
    /\ wpc = "take"
    /\ uid' = slot
    /\ slot' = NoUid
    /\ wpc' = "send"
    /\ UNCHANGED <<disk, pc, wrote, accepted, pending, counted, permit, alive, batch,
                   chan, hup, activation, daemon>>

\* reload_tx.send(uid).await: waits for room, or leaves the loop when the
\* channel is closed, and WorkerAliveGuard clears the liveness flag.
WorkerSend ==
    /\ wpc = "send"
    /\ \/ /\ ~Closed
          /\ Len(chan) < Capacity
          /\ chan' = Append(chan, uid)
          /\ wpc' = "wait"
          /\ UNCHANGED alive
       \/ /\ Closed
          /\ wpc' = "exited"
          /\ alive' = FALSE
          /\ UNCHANGED chan
    /\ UNCHANGED <<disk, pc, wrote, accepted, pending, counted, slot, permit, batch,
                   uid, hup, activation, daemon>>

-----------------------------------------------------------------------------
(* The signal loop.                                                        *)

\* select! picks the reload channel.
RecvReload ==
    /\ loop = "select"
    /\ chan # <<>>
    /\ chan' = Tail(chan)
    /\ loop' = "reload"
    /\ UNCHANGED <<disk, pc, wrote, accepted, coalescer, worker, hup, activation,
                   serving, captured, attempted, active>>

\* select! picks the SIGHUP stream.
RecvHup ==
    /\ loop = "select"
    /\ hup
    /\ hup' = FALSE
    /\ loop' = "reload"
    /\ UNCHANGED <<disk, pc, wrote, accepted, coalescer, worker, chan, activation,
                   serving, captured, attempted, active>>

\* select! picks the activation channel.  A policy that an earlier reload
\* already published is answered at once; any other request is a reload.
RecvActivation ==
    /\ loop = "select"
    /\ acts # <<>>
    /\ acts' = Tail(acts)
    /\ LET j == Head(acts)
       IN  \/ /\ active = wrote[j]
             /\ result' = [result EXCEPT ![j] = "applied"]
             /\ UNCHANGED <<loop, serving>>
          \/ /\ active # wrote[j]
             /\ loop' = "reload" /\ serving' = j
             /\ UNCHANGED result
    /\ UNCHANGED <<disk, pc, wrote, accepted, coalescer, worker, chan, hup, captured,
                   attempted, active>>

\* handle_reload: capture_operator_policy reads the tree.
CapturePolicy ==
    /\ loop = "reload"
    /\ captured' = disk
    /\ loop' = "apply"
    /\ UNCHANGED <<disk, pc, wrote, accepted, coalescer, worker, chan, hup, activation,
                   serving, attempted, active>>

\* Mutation: an accepted reload is taken for the one that was asked for.
ClassifyTrusting(outcome, j, version) ==
    CASE outcome = "error"    -> "unknown"
      [] outcome = "rejected" -> "superseded"
      [] outcome = "accepted" -> "applied"

\* What classify_activation answers for the policy that is now active.
Classify(outcome, j, version) ==
    CASE outcome = "error"    -> "unknown"
      [] outcome = "rejected" -> "rejected"
      [] outcome = "accepted" -> IF version # wrote[j] THEN "superseded" ELSE "applied"

\* Mutation: requests that arrived during the reload are dropped with it.
FinishReloadDropsQueue ==
    /\ loop = "apply"
    /\ \E outcome \in {"accepted", "rejected", "error"} :
          /\ loop' = IF outcome = "error" THEN "stopped" ELSE "select"
          /\ attempted' = IF outcome = "error" THEN attempted ELSE captured
          /\ active' = IF outcome = "accepted" THEN captured ELSE active
          /\ result' = [j \in Jobs |-> IF j = serving THEN Classify(outcome, j, active')
                                                    ELSE result[j]]
    /\ serving' = NoUid
    /\ hup' = FALSE
    /\ chan' = <<>>
    /\ UNCHANGED <<disk, pc, wrote, accepted, coalescer, worker, acts, captured>>

\* handle_reload returns.  Ok(Some(_)) has published the captured policy,
\* Ok(None) has changed nothing, an error leaves signal_loop through `?`;
\* the job the reload was run for is answered first.
FinishReload ==
    /\ loop = "apply"
    /\ \E outcome \in {"accepted", "rejected", "error"} :
          /\ loop' = IF outcome = "error" THEN "stopped" ELSE "select"
          /\ attempted' = IF outcome = "error" THEN attempted ELSE captured
          /\ active' = IF outcome = "accepted" THEN captured ELSE active
          /\ result' = [j \in Jobs |-> IF j = serving THEN Classify(outcome, j, active')
                                                    ELSE result[j]]
    /\ serving' = NoUid
    /\ UNCHANGED <<disk, pc, wrote, accepted, coalescer, worker, chan, hup, acts, captured>>

\* SIGTERM, SIGINT, an IPC shutdown or a managed restart ends the loop.
Shutdown ==
    /\ loop = "select"
    /\ loop' = "stopped"
    /\ UNCHANGED <<disk, pc, wrote, accepted, coalescer, worker, chan, hup, activation,
                   serving, captured, attempted, active>>

\* Mutation: the queue is closed and what is in it is left there.
RetireActivationsKeepsQueue ==
    /\ loop = "stopped"
    /\ loop' = "retired"
    /\ UNCHANGED <<disk, pc, wrote, accepted, coalescer, worker, chan, hup, activation,
                   serving, captured, attempted, active>>

\* retire_activation_queue: no request is admitted any more, and the queued
\* ones are answered Unknown.
RetireActivations ==
    /\ loop = "stopped"
    /\ loop' = "retired"
    /\ result' = [j \in Jobs |-> IF \E i \in 1..Len(acts) : acts[i] = j
                                   THEN "unknown" ELSE result[j]]
    /\ acts' = <<>>
    /\ UNCHANGED <<disk, pc, wrote, accepted, coalescer, worker, chan, hup, serving,
                   captured, attempted, active>>

\* The teardown ends and the reload receiver is dropped with what it holds.
DropReceiver ==
    /\ loop = "retired"
    /\ loop' = "closed"
    /\ chan' = <<>>
    /\ UNCHANGED <<disk, pc, wrote, accepted, coalescer, worker, hup, activation,
                   serving, captured, attempted, active>>

-----------------------------------------------------------------------------
IpcRequest(c) ==
    CheckAlive(c) \/ AddPending(c) \/ StoreUid(c) \/ NotifyWorker(c)
WorkerStep == Wake \/ Drain \/ TakeUid \/ WorkerSend
JobStep(j) == Activate(j) \/ JobAnswered(j)
LoopStep   == \/ RecvReload \/ RecvHup \/ RecvActivation
              \/ CapturePolicy \/ FinishReload
              \/ RetireActivations \/ DropReceiver

Next ==
    \/ \E c \in Clients : Write(c)
    \/ \E c \in IpcClients : IpcRequest(c)
    \/ \E c \in ApiClients : ApiSend(c)
    \/ \E c \in MutClients : MutTrySend(c)
    \/ \E j \in Jobs : JobStep(j)
    \/ EditAndHup
    \/ WorkerStep
    \/ LoopStep
    \/ Shutdown

Spec == Init /\ [][Next]_vars

\* The runtime schedules every ready task: tokio's workers do, the channel's
\* waiters are served in order, and select! picks among ready branches at
\* random.  No write, signal or shutdown has to happen.
Fairness ==
    /\ \A c \in IpcClients : WF_vars(IpcRequest(c))
    /\ \A c \in ApiClients : SF_vars(ApiSend(c))
    /\ \A c \in MutClients : WF_vars(MutTrySend(c))
    /\ \A j \in Jobs : WF_vars(JobStep(j))
    /\ WF_vars(Wake \/ Drain \/ TakeUid)
    /\ SF_vars(WorkerSend)
    /\ SF_vars(RecvReload)
    /\ SF_vars(RecvHup)
    /\ SF_vars(RecvActivation)
    /\ WF_vars(CapturePolicy \/ FinishReload \/ RetireActivations \/ DropReceiver)

FairSpec == Spec /\ Fairness

-----------------------------------------------------------------------------
(* Properties.                                                             *)

\* A reload that will capture a version not older than v is still on its
\* way to the signal loop, or is being served.
Carried(v) ==
    \/ loop = "reload"
    \/ loop = "apply" /\ captured >= v
    \/ chan # <<>>
    \/ wpc \in {"take", "send"}
    \/ pending > 0

\* No accepted reload is lost: whatever request(), a REST handler or a
\* mutation handler answered with success, the ones that found the channel
\* full included, has been attempted by handle_reload, or something that
\* will attempt it is still in the pipeline (reload_coalescer.rs request and
\* run_worker_loop, the capacity-one channel, signal_loop).
NoLostReload ==
    Stopped \/ \A c \in Clients : attempted >= accepted[c] \/ Carried(accepted[c])

\* No lost wakeup: while requests are counted, the worker has a permit
\* waiting, is inside the window whose end drains them, or some request()
\* has yet to notify (the counter is bumped before the permit is stored).
NoLostWakeup ==
    \/ Stopped
    \/ pending = 0
    \/ permit
    \/ wpc = "window"
    \/ \E c \in IpcClients : pc[c] \in {"uid", "notify"}

\* An activation answer tells the truth about the daemon: a job told
\* "applied" is served by its policy or a newer one, a job told
\* "superseded" by a strictly newer one, never by what was there before it
\* (classify_activation compares only for equality).
ActivationTruthful ==
    \A j \in Jobs : /\ result[j] = "applied" => active >= wrote[j]
                    /\ result[j] = "superseded" => active > wrote[j]

\* Versions only flow forward: a caller is answered for its own write,
\* handle_reload reads what is on disk, the published policy is never newer
\* than the last attempt, nor that than the last capture.
Versions ==
    /\ \A c \in Clients : accepted[c] <= wrote[c] /\ wrote[c] <= disk
    /\ active <= attempted /\ attempted <= captured /\ captured <= disk

\* A job that is queued or being answered waits, it is so once, and the
\* reload that answers it captured its write.
Awaited(j) == (\E i \in 1..Len(acts) : acts[i] = j) \/ serving = j
Served ==
    /\ serving # NoUid => loop \in {"reload", "apply"}
    /\ serving # NoUid /\ loop = "apply" => captured >= wrote[serving]
    /\ \A j \in Jobs : Awaited(j) => pc[j] = "await" /\ result[j] = "waiting"
    /\ \A i \in 1..Len(acts) : acts[i] # serving
    /\ \A i, k \in 1..Len(acts) : acts[i] = acts[k] => i = k

\* The worker leaves its loop only after the channel has closed, and a
\* request that is counted but not yet answered is carried already: the
\* worker may drain it, and the loop may serve it, before request() returns.
Counted ==
    /\ (wpc = "exited" \/ ~alive) => Stopped
    /\ Stopped \/ \A c \in IpcClients :
          pc[c] \in {"uid", "notify"} => attempted >= wrote[c] \/ Carried(wrote[c])

\* The inductive invariant that the three invariants above rest on.
PipelineInv ==
    /\ TypeOK /\ Versions /\ Served /\ Counted
    /\ NoLostWakeup /\ NoLostReload /\ ActivationTruthful

\* Every version answered with success or announced by SIGHUP is attempted
\* unless the daemon stops first.
AcceptedIsAttempted ==
    \A v \in 1..MaxVersion :
        ((\E c \in Clients : accepted[c] = v) \/ (hup /\ disk = v)) ~> (attempted >= v \/ Stopped)

\* Every activation is answered, also when the daemon stops with the request
\* still queued (retire_activation_queue): the job, which waits without a
\* timeout, is not left waiting.
ActivationAnswered ==
    \A j \in Jobs : result[j] = "waiting" ~> result[j] # "waiting"

=============================================================================
