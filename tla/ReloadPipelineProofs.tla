------------------------ MODULE ReloadPipelineProofs ------------------------
(* Invariance proofs for ReloadPipeline, for any set of clients and any    *)
(* number of writes.                                                       *)
EXTENDS ReloadPipeline, TLAPS

USE DEF Clients, OptUid, Capacity, Closed, ActsClosed, Stopped, Answers

\* The pipeline starts empty, with nothing accepted.
LEMMA InitPipeline == Init => PipelineInv
  <1> SUFFICES ASSUME Init PROVE PipelineInv
    OBVIOUS
  <1> USE DEF Init
  <1>1. TypeOK
    <2>1. /\ disk \in Nat /\ pending \in Nat /\ captured \in Nat /\ attempted \in Nat
          /\ active \in Nat
          /\ wrote \in [Clients -> Nat] /\ accepted \in [Clients -> Nat]
      OBVIOUS
    <2>2. /\ pc \in [Clients -> {"idle", "check", "add", "uid", "notify", "send", "try",
                                  "activate", "await"}]
          /\ wpc = "wait" /\ loop = "select"
      OBVIOUS
    <2>3. counted \subseteq IpcClients /\ batch \subseteq IpcClients
      OBVIOUS
    <2>4. /\ slot \in OptUid /\ uid \in OptUid /\ chan \in Seq(OptUid)
          /\ Len(chan) <= Capacity
      OBVIOUS
    <2>5. permit \in BOOLEAN /\ alive \in BOOLEAN /\ hup \in BOOLEAN
      OBVIOUS
    <2>6. /\ acts \in Seq(Jobs) /\ Len(acts) <= ActQueue /\ serving \in Jobs \cup {NoUid}
          /\ result \in [Jobs -> Answers]
      BY ReloadAssumption
    <2> QED
      BY <2>1, <2>2, <2>3, <2>4, <2>5, <2>6, Zenon DEF TypeOK
  <1>2. Versions
    BY DEF Versions
  <1>4. Served /\ Counted
    BY ReloadAssumption DEF Served, Counted, Awaited
  <1>3. NoLostWakeup /\ NoLostReload /\ ActivationTruthful
    BY DEF NoLostWakeup, NoLostReload, ActivationTruthful
  <1> QED
    BY <1>1, <1>2, <1>3, <1>4 DEF PipelineInv

\* Types, and the bounds of the two channels.
LEMMA NextTypes == TypeOK /\ [Next]_vars => TypeOK'
  <1> SUFFICES ASSUME TypeOK, [Next]_vars PROVE TypeOK'
    OBVIOUS
  <1> USE ReloadAssumption DEF TypeOK, coalescer, worker, activation, daemon
  <1>1. ASSUME NEW c \in Clients, Write(c) PROVE TypeOK'
    <2>1. PICK step \in {"check", "send", "try", "activate"} : pc' = [pc EXCEPT ![c] = step]
      BY <1>1 DEF Write
    <2>2. pc' \in [Clients -> {"idle", "check", "add", "uid", "notify", "send", "try",
                               "activate", "await"}]
      BY <2>1
    <2>5. wrote' \in [Clients -> Nat] /\ disk' \in Nat
      BY <1>1, SMTT(30) DEF Write
    <2>3. result' \in [Jobs -> Answers]
      BY <1>1 DEF Write
    <2>4. UNCHANGED <<accepted, coalescer, worker, chan, hup, acts, daemon>>
      BY <1>1 DEF Write
    <2> QED
      BY <2>2, <2>3, <2>4, <2>5, SMTT(30)
  <1>2. ASSUME NEW c \in IpcClients, CheckAlive(c) PROVE TypeOK'
    BY <1>2 DEF CheckAlive
  <1>3. ASSUME NEW c \in IpcClients, AddPending(c) PROVE TypeOK'
    BY <1>3 DEF AddPending
  <1>4. ASSUME NEW c \in IpcClients, StoreUid(c) PROVE TypeOK'
    BY <1>4 DEF StoreUid
  <1>5. ASSUME NEW c \in IpcClients, NotifyWorker(c) PROVE TypeOK'
    BY <1>5 DEF NotifyWorker
  <1>6. ASSUME NEW c \in ApiClients, ApiSend(c) PROVE TypeOK'
    <2>1. chan' \in Seq(OptUid) /\ Len(chan') <= Capacity
      BY <1>6 DEF ApiSend
    <2>2. accepted' = accepted \/ accepted' = [accepted EXCEPT ![c] = wrote[c]]
      BY <1>6 DEF ApiSend
    <2>3. accepted' \in [Clients -> Nat]
      BY <2>2
    <2>4. pc' \in [Clients -> {"idle", "check", "add", "uid", "notify", "send", "try",
                               "activate", "await"}]
      BY <1>6 DEF ApiSend
    <2>5. UNCHANGED <<disk, wrote, coalescer, worker, hup, activation, daemon>>
      BY <1>6 DEF ApiSend
    <2> QED
      BY <2>1, <2>3, <2>4, <2>5, SMTT(30)
  <1>7. ASSUME NEW c \in MutClients, MutTrySend(c) PROVE TypeOK'
    <2>1. chan' \in Seq(OptUid) /\ Len(chan') <= Capacity
      BY <1>7 DEF MutTrySend
    <2>2. accepted' = accepted \/ accepted' = [accepted EXCEPT ![c] = wrote[c]]
      BY <1>7 DEF MutTrySend
    <2>3. accepted' \in [Clients -> Nat]
      BY <2>2
    <2>4. pc' \in [Clients -> {"idle", "check", "add", "uid", "notify", "send", "try",
                               "activate", "await"}]
      BY <1>7 DEF MutTrySend
    <2>5. UNCHANGED <<disk, wrote, coalescer, worker, hup, activation, daemon>>
      BY <1>7 DEF MutTrySend
    <2> QED
      BY <2>1, <2>3, <2>4, <2>5, SMTT(30)
  <1>8. ASSUME NEW j \in Jobs, Activate(j) PROVE TypeOK'
    <2>1. /\ pc' \in [Clients -> {"idle", "check", "add", "uid", "notify", "send", "try",
                                   "activate", "await"}]
          /\ result' \in [Jobs -> Answers]
      BY <1>8 DEF Activate
    <2>2. UNCHANGED <<disk, wrote, accepted, coalescer, worker, chan, hup, daemon>>
      BY <1>8 DEF Activate
    <2>3. CASE acts' = Append(acts, j) /\ Len(acts) < ActQueue
      BY <2>1, <2>2, <2>3
    <2>4. CASE UNCHANGED acts
      BY <2>1, <2>2, <2>4
    <2> QED
      BY <1>8, <2>3, <2>4 DEF Activate
  <1>9. ASSUME NEW j \in Jobs, JobAnswered(j) PROVE TypeOK'
    BY <1>9 DEF JobAnswered
  <1>10. CASE EditAndHup
    BY <1>10 DEF EditAndHup
  <1>11. CASE Wake
    BY <1>11 DEF Wake
  <1>12. CASE Drain
    BY <1>12 DEF Drain
  <1>13. CASE TakeUid
    BY <1>13 DEF TakeUid
  <1>14. CASE WorkerSend
    <2>1. chan' \in Seq(OptUid) /\ Len(chan') <= Capacity
      BY <1>14 DEF WorkerSend
    <2>2. wpc' \in {"wait", "exited"} /\ alive' \in BOOLEAN
      BY <1>14 DEF WorkerSend
    <2>3. UNCHANGED <<disk, pc, wrote, accepted, pending, counted, slot, permit, batch,
                      uid, hup, activation, daemon>>
      BY <1>14 DEF WorkerSend
    <2> QED
      BY <2>1, <2>2, <2>3, SMTT(30)
  <1>15. CASE RecvReload
    BY <1>15 DEF RecvReload
  <1>16. CASE RecvHup
    BY <1>16 DEF RecvHup
  <1>17. CASE RecvActivation
    <2>1. acts' \in Seq(Jobs) /\ Len(acts') <= ActQueue /\ Head(acts) \in Jobs
      BY <1>17 DEF RecvActivation
    <2>2. result' \in [Jobs -> Answers]
      BY <1>17, <2>1 DEF RecvActivation
    <2>3. loop' \in {"select", "reload"} /\ serving' \in Jobs \cup {NoUid}
      BY <1>17, <2>1 DEF RecvActivation
    <2>4. UNCHANGED <<disk, pc, wrote, accepted, coalescer, worker, chan, hup, captured,
                      attempted, active>>
      BY <1>17 DEF RecvActivation
    <2> QED
      BY <2>1, <2>2, <2>3, <2>4, SMTT(30)
  <1>18. CASE CapturePolicy
    BY <1>18 DEF CapturePolicy
  <1>19. CASE FinishReload
    <2>1. result' \in [Jobs -> Answers]
      BY <1>19 DEF FinishReload, Classify
    <2> QED
      BY <1>19, <2>1 DEF FinishReload
  <1>20. CASE Shutdown
    BY <1>20 DEF Shutdown
  <1>21. CASE RetireActivations
    BY <1>21 DEF RetireActivations
  <1>22. CASE DropReceiver
    BY <1>22 DEF DropReceiver
  <1>23. CASE UNCHANGED vars
    BY <1>23 DEF vars
  <1> QED
    BY <1>1, <1>2, <1>3, <1>4, <1>5, <1>6, <1>7, <1>8, <1>9, <1>10, <1>11, <1>12, <1>13, <1>14,
       <1>15, <1>16, <1>17, <1>18, <1>19, <1>20, <1>21, <1>22, <1>23
       DEF Next, IpcRequest, JobStep, WorkerStep, LoopStep

\* Versions flow forward.
LEMMA NextVersions == TypeOK /\ Versions /\ [Next]_vars => Versions'
  <1> SUFFICES ASSUME TypeOK, Versions, [Next]_vars PROVE Versions'
    OBVIOUS
  <1> USE ReloadAssumption DEF TypeOK, Versions, coalescer, worker, activation, daemon
  <1>1. ASSUME NEW c \in Clients, Write(c) PROVE Versions'
    BY <1>1, SMTT(30) DEF Write
  <1>2. ASSUME NEW c \in IpcClients, CheckAlive(c) PROVE Versions'
    BY <1>2 DEF CheckAlive
  <1>3. ASSUME NEW c \in IpcClients, AddPending(c) PROVE Versions'
    BY <1>3 DEF AddPending
  <1>4. ASSUME NEW c \in IpcClients, StoreUid(c) PROVE Versions'
    BY <1>4 DEF StoreUid
  <1>5. ASSUME NEW c \in IpcClients, NotifyWorker(c) PROVE Versions'
    BY <1>5 DEF NotifyWorker
  <1>6. ASSUME NEW c \in ApiClients, ApiSend(c) PROVE Versions'
    <2>1. accepted' = accepted \/ accepted' = [accepted EXCEPT ![c] = wrote[c]]
      BY <1>6 DEF ApiSend
    <2>2. UNCHANGED <<disk, wrote, daemon>>
      BY <1>6 DEF ApiSend
    <2>3. \A d \in Clients : accepted'[d] = accepted[d] \/ accepted'[d] = wrote[d]
      BY <2>1
    <2>4. ASSUME NEW d \in Clients PROVE accepted'[d] <= wrote'[d] /\ wrote'[d] <= disk'
      <3>1. wrote[d] \in Nat /\ accepted[d] <= wrote[d] /\ wrote[d] <= disk
        OBVIOUS
      <3>2. wrote'[d] = wrote[d] /\ disk' = disk
        BY <2>2
      <3>3. accepted'[d] <= wrote[d]
        <4> HIDE ReloadAssumption DEF TypeOK, Versions
        <4>1. CASE accepted'[d] = accepted[d]
          BY <3>1, <4>1
        <4>2. CASE accepted'[d] = wrote[d]
          BY <3>1, <4>2
        <4> QED
          BY <2>3, <4>1, <4>2
      <3> QED
        BY <3>1, <3>2, <3>3
    <2>5. active' <= attempted' /\ attempted' <= captured' /\ captured' <= disk'
      BY <2>2
    <2> QED
      BY <2>4, <2>5
  <1>7. ASSUME NEW c \in MutClients, MutTrySend(c) PROVE Versions'
    <2>1. accepted' = accepted \/ accepted' = [accepted EXCEPT ![c] = wrote[c]]
      BY <1>7 DEF MutTrySend
    <2>2. UNCHANGED <<disk, wrote, daemon>>
      BY <1>7 DEF MutTrySend
    <2>3. \A d \in Clients : accepted'[d] = accepted[d] \/ accepted'[d] = wrote[d]
      BY <2>1
    <2>4. ASSUME NEW d \in Clients PROVE accepted'[d] <= wrote'[d] /\ wrote'[d] <= disk'
      <3>1. wrote[d] \in Nat /\ accepted[d] <= wrote[d] /\ wrote[d] <= disk
        OBVIOUS
      <3>2. wrote'[d] = wrote[d] /\ disk' = disk
        BY <2>2
      <3>3. accepted'[d] <= wrote[d]
        <4> HIDE ReloadAssumption DEF TypeOK, Versions
        <4>1. CASE accepted'[d] = accepted[d]
          BY <3>1, <4>1
        <4>2. CASE accepted'[d] = wrote[d]
          BY <3>1, <4>2
        <4> QED
          BY <2>3, <4>1, <4>2
      <3> QED
        BY <3>1, <3>2, <3>3
    <2>5. active' <= attempted' /\ attempted' <= captured' /\ captured' <= disk'
      BY <2>2
    <2> QED
      BY <2>4, <2>5
  <1>8. ASSUME NEW j \in Jobs, Activate(j) PROVE Versions'
    BY <1>8 DEF Activate
  <1>9. ASSUME NEW j \in Jobs, JobAnswered(j) PROVE Versions'
    BY <1>9 DEF JobAnswered
  <1>10. CASE EditAndHup
    BY <1>10 DEF EditAndHup
  <1>11. CASE Wake
    BY <1>11 DEF Wake
  <1>12. CASE Drain
    BY <1>12 DEF Drain
  <1>13. CASE TakeUid
    BY <1>13 DEF TakeUid
  <1>14. CASE WorkerSend
    BY <1>14 DEF WorkerSend
  <1>15. CASE RecvReload
    BY <1>15 DEF RecvReload
  <1>16. CASE RecvHup
    BY <1>16 DEF RecvHup
  <1>17. CASE RecvActivation
    BY <1>17 DEF RecvActivation
  <1>18. CASE CapturePolicy
    BY <1>18 DEF CapturePolicy
  <1>19. CASE FinishReload
    BY <1>19 DEF FinishReload
  <1>20. CASE Shutdown
    BY <1>20 DEF Shutdown
  <1>21. CASE RetireActivations
    BY <1>21 DEF RetireActivations
  <1>22. CASE DropReceiver
    BY <1>22 DEF DropReceiver
  <1>23. CASE UNCHANGED vars
    BY <1>23 DEF vars
  <1> QED
    BY <1>1, <1>2, <1>3, <1>4, <1>5, <1>6, <1>7, <1>8, <1>9, <1>10, <1>11, <1>12, <1>13, <1>14,
       <1>15, <1>16, <1>17, <1>18, <1>19, <1>20, <1>21, <1>22, <1>23
       DEF Next, IpcRequest, JobStep, WorkerStep, LoopStep

\* The queue of activations and the job being answered.
LEMMA NextServed == TypeOK /\ Versions /\ Served /\ [Next]_vars => Served'
  <1> SUFFICES ASSUME TypeOK, Versions, Served, [Next]_vars PROVE Served'
    OBVIOUS
  <1> USE ReloadAssumption DEF TypeOK, Versions, Served, Awaited, coalescer, worker, activation, daemon
  <1>1. ASSUME NEW c \in Clients, Write(c) PROVE Served'
    BY <1>1 DEF Write
  <1>2. ASSUME NEW c \in IpcClients, CheckAlive(c) PROVE Served'
    BY <1>2 DEF CheckAlive
  <1>3. ASSUME NEW c \in IpcClients, AddPending(c) PROVE Served'
    BY <1>3 DEF AddPending
  <1>4. ASSUME NEW c \in IpcClients, StoreUid(c) PROVE Served'
    BY <1>4 DEF StoreUid
  <1>5. ASSUME NEW c \in IpcClients, NotifyWorker(c) PROVE Served'
    BY <1>5 DEF NotifyWorker
  <1>6. ASSUME NEW c \in ApiClients, ApiSend(c) PROVE Served'
    BY <1>6 DEF ApiSend
  <1>7. ASSUME NEW c \in MutClients, MutTrySend(c) PROVE Served'
    BY <1>7 DEF MutTrySend
  <1>8. ASSUME NEW j \in Jobs, Activate(j) PROVE Served'
    <2>1. serving # j /\ ~Awaited(j)
      BY <1>8 DEF Activate
    <2>2. UNCHANGED <<wrote, daemon>>
      BY <1>8 DEF Activate
    <2>3. CASE UNCHANGED acts
      BY <1>8, <2>1, <2>2, <2>3, SMTT(30) DEF Activate
    <2>4. CASE acts' = Append(acts, j) /\ result' = [result EXCEPT ![j] = "waiting"]
                 /\ pc' = [pc EXCEPT ![j] = "await"]
      <3>1. /\ Len(acts') = Len(acts) + 1 /\ acts'[Len(acts) + 1] = j
            /\ \A i \in 1..Len(acts) : acts'[i] = acts[i]
        BY <2>4
      <3>2. \A i \in 1..Len(acts') : i \in 1..Len(acts) \/ i = Len(acts) + 1
        BY <3>1
      <3>3. \A i \in 1..Len(acts) : acts[i] # j
        BY <2>1
      <3>4. \A d \in Jobs : Awaited(d)' => pc'[d] = "await" /\ result'[d] = "waiting"
        BY <2>2, <2>4, <3>1, <3>2
      <3>5. \A i \in 1..Len(acts') : acts'[i] # serving'
        BY <2>1, <2>2, <3>1, <3>2
      <3>6. ASSUME NEW i \in 1..Len(acts'), NEW k \in 1..Len(acts'), acts'[i] = acts'[k]
            PROVE  i = k
        <4>1. CASE i \in 1..Len(acts) /\ k \in 1..Len(acts)
          BY <3>1, <3>6, <4>1
        <4>2. CASE i = Len(acts) + 1 \/ k = Len(acts) + 1
          BY <3>1, <3>2, <3>3, <3>6, <4>2
        <4> QED
          BY <3>2, <4>1, <4>2
      <3> QED
        BY <2>2, <3>4, <3>5, <3>6
    <2> QED
      BY <1>8, <2>3, <2>4 DEF Activate
  <1>9. ASSUME NEW j \in Jobs, JobAnswered(j) PROVE Served'
    BY <1>9 DEF JobAnswered
  <1>10. CASE EditAndHup
    BY <1>10 DEF EditAndHup
  <1>11. CASE Wake
    BY <1>11 DEF Wake
  <1>12. CASE Drain
    BY <1>12 DEF Drain
  <1>13. CASE TakeUid
    BY <1>13 DEF TakeUid
  <1>14. CASE WorkerSend
    BY <1>14 DEF WorkerSend
  <1>15. CASE RecvReload
    BY <1>15 DEF RecvReload
  <1>16. CASE RecvHup
    BY <1>16 DEF RecvHup
  <1>17. CASE RecvActivation
    <2> DEFINE j == Head(acts)
    <2>1. j \in Jobs /\ acts[1] = j /\ 1 \in 1..Len(acts) /\ serving = NoUid
      BY <1>17 DEF RecvActivation
    <2>2. \A i \in 1..Len(acts') : i + 1 \in 1..Len(acts) /\ acts'[i] = acts[i + 1]
      BY <1>17 DEF RecvActivation
    <2>3. \A i \in 1..Len(acts') : acts'[i] # j
      BY <2>1, <2>2
    <2>4. pc[j] = "await" /\ result[j] = "waiting"
      BY <2>1
    <2>5. UNCHANGED <<pc, wrote, captured>> /\ NoUid \notin Jobs
      BY <1>17 DEF RecvActivation
    <2> HIDE DEF j
    <2>6. ASSUME NEW d \in Jobs, NEW i \in 1..Len(acts'), acts'[i] = d
          PROVE  d # j /\ Awaited(d)
      BY <2>2, <2>3, <2>6
    <2>7. ASSUME NEW i \in 1..Len(acts'), NEW k \in 1..Len(acts'), acts'[i] = acts'[k]
          PROVE  i = k
      <3>1. i + 1 = k + 1
        BY <2>2, <2>7
      <3> QED
        BY <3>1
    <2>8. \A i \in 1..Len(acts') : acts'[i] \in Jobs
      <3>1. \A i \in 1..Len(acts) : acts[i] \in Jobs
        OBVIOUS
      <3> QED
        BY <2>2, <3>1
    <2>9. \/ result' = [result EXCEPT ![j] = "applied"] /\ serving' = NoUid /\ loop' = loop
          \/ result' = result /\ serving' = j /\ loop' = "reload"
      BY <1>17, <2>1 DEF RecvActivation, j
    <2>10. \A d \in Jobs : Awaited(d)' => pc'[d] = "await" /\ result'[d] = "waiting"
      BY <2>1, <2>4, <2>5, <2>6, <2>9
    <2>11. \A i \in 1..Len(acts') : acts'[i] # serving'
      BY <2>3, <2>5, <2>8, <2>9
    <2> QED
      BY <2>1, <2>5, <2>7, <2>9, <2>10, <2>11
  <1>18. CASE CapturePolicy
    BY <1>18 DEF CapturePolicy
  <1>19. CASE FinishReload
    <2>1. UNCHANGED <<pc, acts>> /\ serving' = NoUid /\ NoUid \notin Jobs
      BY <1>19 DEF FinishReload
    <2>2. \A j \in Jobs : j # serving => result'[j] = result[j]
      BY <1>19 DEF FinishReload
    <2>3. \A i \in 1..Len(acts) : acts[i] \in Jobs
      OBVIOUS
    <2>4. ASSUME NEW d \in Jobs, Awaited(d)'
          PROVE  pc'[d] = "await" /\ result'[d] = "waiting"
      <3>1. PICK i \in 1..Len(acts) : acts[i] = d
        BY <2>1, <2>4
      <3>2. Awaited(d) /\ d # serving
        BY <3>1
      <3> QED
        BY <2>1, <2>2, <3>2
    <2>5. \A i \in 1..Len(acts') : acts'[i] # serving'
      BY <2>1, <2>3
    <2>6. \A i, k \in 1..Len(acts') : acts'[i] = acts'[k] => i = k
      BY <2>1
    <2> QED
      BY <2>1, <2>4, <2>5, <2>6
  <1>20. CASE Shutdown
    BY <1>20 DEF Shutdown
  <1>21. CASE RetireActivations
    BY <1>21 DEF RetireActivations
  <1>22. CASE DropReceiver
    BY <1>22 DEF DropReceiver
  <1>23. CASE UNCHANGED vars
    BY <1>23 DEF vars
  <1> QED
    BY <1>1, <1>2, <1>3, <1>4, <1>5, <1>6, <1>7, <1>8, <1>9, <1>10, <1>11, <1>12, <1>13, <1>14,
       <1>15, <1>16, <1>17, <1>18, <1>19, <1>20, <1>21, <1>22, <1>23
       DEF Next, IpcRequest, JobStep, WorkerStep, LoopStep

\* The worker and the requests it has yet to drain.
LEMMA NextCounted == TypeOK /\ Versions /\ Counted /\ [Next]_vars => Counted'
  <1> SUFFICES ASSUME TypeOK, Versions, Counted, [Next]_vars PROVE Counted'
    OBVIOUS
  <1> USE ReloadAssumption DEF TypeOK, Versions, Counted, Carried, coalescer, worker, activation, daemon
  <1>1. ASSUME NEW c \in Clients, Write(c) PROVE Counted'
    BY <1>1 DEF Write
  <1>2. ASSUME NEW c \in IpcClients, CheckAlive(c) PROVE Counted'
    BY <1>2 DEF CheckAlive
  <1>3. ASSUME NEW c \in IpcClients, AddPending(c) PROVE Counted'
    BY <1>3 DEF AddPending
  <1>4. ASSUME NEW c \in IpcClients, StoreUid(c) PROVE Counted'
    BY <1>4 DEF StoreUid
  <1>5. ASSUME NEW c \in IpcClients, NotifyWorker(c) PROVE Counted'
    BY <1>5 DEF NotifyWorker
  <1>6. ASSUME NEW c \in ApiClients, ApiSend(c) PROVE Counted'
    BY <1>6 DEF ApiSend
  <1>7. ASSUME NEW c \in MutClients, MutTrySend(c) PROVE Counted'
    BY <1>7 DEF MutTrySend
  <1>8. ASSUME NEW j \in Jobs, Activate(j) PROVE Counted'
    BY <1>8 DEF Activate
  <1>9. ASSUME NEW j \in Jobs, JobAnswered(j) PROVE Counted'
    BY <1>9 DEF JobAnswered
  <1>10. CASE EditAndHup
    BY <1>10 DEF EditAndHup
  <1>11. CASE Wake
    BY <1>11 DEF Wake
  <1>12. CASE Drain
    BY <1>12 DEF Drain
  <1>13. CASE TakeUid
    BY <1>13 DEF TakeUid
  <1>14. CASE WorkerSend
    BY <1>14 DEF WorkerSend
  <1>15. CASE RecvReload
    BY <1>15 DEF RecvReload
  <1>16. CASE RecvHup
    BY <1>16 DEF RecvHup
  <1>17. CASE RecvActivation
    BY <1>17 DEF RecvActivation
  <1>18. CASE CapturePolicy
    BY <1>18 DEF CapturePolicy
  <1>19. CASE FinishReload
    BY <1>19 DEF FinishReload
  <1>20. CASE Shutdown
    BY <1>20 DEF Shutdown
  <1>21. CASE RetireActivations
    BY <1>21 DEF RetireActivations
  <1>22. CASE DropReceiver
    BY <1>22 DEF DropReceiver
  <1>23. CASE UNCHANGED vars
    BY <1>23 DEF vars
  <1> QED
    BY <1>1, <1>2, <1>3, <1>4, <1>5, <1>6, <1>7, <1>8, <1>9, <1>10, <1>11, <1>12, <1>13, <1>14,
       <1>15, <1>16, <1>17, <1>18, <1>19, <1>20, <1>21, <1>22, <1>23
       DEF Next, IpcRequest, JobStep, WorkerStep, LoopStep

\* The permit.
LEMMA NextWakeup == TypeOK /\ NoLostWakeup /\ [Next]_vars => NoLostWakeup'
  <1> SUFFICES ASSUME TypeOK, NoLostWakeup, [Next]_vars PROVE NoLostWakeup'
    OBVIOUS
  <1> USE ReloadAssumption DEF TypeOK, NoLostWakeup, coalescer, worker, activation, daemon
  <1>1. ASSUME NEW c \in Clients, Write(c) PROVE NoLostWakeup'
    BY <1>1 DEF Write
  <1>2. ASSUME NEW c \in IpcClients, CheckAlive(c) PROVE NoLostWakeup'
    BY <1>2 DEF CheckAlive
  <1>3. ASSUME NEW c \in IpcClients, AddPending(c) PROVE NoLostWakeup'
    BY <1>3 DEF AddPending
  <1>4. ASSUME NEW c \in IpcClients, StoreUid(c) PROVE NoLostWakeup'
    BY <1>4 DEF StoreUid
  <1>5. ASSUME NEW c \in IpcClients, NotifyWorker(c) PROVE NoLostWakeup'
    BY <1>5 DEF NotifyWorker
  <1>6. ASSUME NEW c \in ApiClients, ApiSend(c) PROVE NoLostWakeup'
    BY <1>6 DEF ApiSend
  <1>7. ASSUME NEW c \in MutClients, MutTrySend(c) PROVE NoLostWakeup'
    BY <1>7 DEF MutTrySend
  <1>8. ASSUME NEW j \in Jobs, Activate(j) PROVE NoLostWakeup'
    BY <1>8 DEF Activate
  <1>9. ASSUME NEW j \in Jobs, JobAnswered(j) PROVE NoLostWakeup'
    BY <1>9 DEF JobAnswered
  <1>10. CASE EditAndHup
    BY <1>10 DEF EditAndHup
  <1>11. CASE Wake
    BY <1>11 DEF Wake
  <1>12. CASE Drain
    BY <1>12 DEF Drain
  <1>13. CASE TakeUid
    BY <1>13 DEF TakeUid
  <1>14. CASE WorkerSend
    BY <1>14 DEF WorkerSend
  <1>15. CASE RecvReload
    BY <1>15 DEF RecvReload
  <1>16. CASE RecvHup
    BY <1>16 DEF RecvHup
  <1>17. CASE RecvActivation
    BY <1>17 DEF RecvActivation
  <1>18. CASE CapturePolicy
    BY <1>18 DEF CapturePolicy
  <1>19. CASE FinishReload
    BY <1>19 DEF FinishReload
  <1>20. CASE Shutdown
    BY <1>20 DEF Shutdown
  <1>21. CASE RetireActivations
    BY <1>21 DEF RetireActivations
  <1>22. CASE DropReceiver
    BY <1>22 DEF DropReceiver
  <1>23. CASE UNCHANGED vars
    BY <1>23 DEF vars
  <1> QED
    BY <1>1, <1>2, <1>3, <1>4, <1>5, <1>6, <1>7, <1>8, <1>9, <1>10, <1>11, <1>12, <1>13, <1>14,
       <1>15, <1>16, <1>17, <1>18, <1>19, <1>20, <1>21, <1>22, <1>23
       DEF Next, IpcRequest, JobStep, WorkerStep, LoopStep

\* What has been answered with success is attempted or carried.
LEMMA NextReload == TypeOK /\ Versions /\ Counted /\ NoLostReload /\ [Next]_vars => NoLostReload'
  <1> SUFFICES ASSUME TypeOK, Versions, Counted, NoLostReload, [Next]_vars PROVE NoLostReload'
    OBVIOUS
  <1> USE ReloadAssumption DEF TypeOK, Versions, Counted, NoLostReload, Carried, coalescer, worker, activation, daemon
  <1>1. ASSUME NEW c \in Clients, Write(c) PROVE NoLostReload'
    BY <1>1 DEF Write
  <1>2. ASSUME NEW c \in IpcClients, CheckAlive(c) PROVE NoLostReload'
    BY <1>2 DEF CheckAlive
  <1>3. ASSUME NEW c \in IpcClients, AddPending(c) PROVE NoLostReload'
    BY <1>3 DEF AddPending
  <1>4. ASSUME NEW c \in IpcClients, StoreUid(c) PROVE NoLostReload'
    BY <1>4 DEF StoreUid
  <1>5. ASSUME NEW c \in IpcClients, NotifyWorker(c) PROVE NoLostReload'
    BY <1>5 DEF NotifyWorker
  <1>6. ASSUME NEW c \in ApiClients, ApiSend(c) PROVE NoLostReload'
    <2>1. CASE Closed
      BY <1>6, <2>1 DEF ApiSend
    <2>2. CASE ~Closed
      <3>1. chan' # <<>>
        BY <1>6, <2>2 DEF ApiSend
      <3> QED
        BY <3>1
    <2> QED
      BY <2>1, <2>2
  <1>7. ASSUME NEW c \in MutClients, MutTrySend(c) PROVE NoLostReload'
    <2>1. CASE Closed
      BY <1>7, <2>1 DEF MutTrySend
    <2>2. CASE ~Closed
      <3>1. chan' # <<>>
        <4>1. CASE chan' = Append(chan, c)
          BY <4>1, c \in OptUid
        <4>2. CASE Len(chan) = Capacity /\ chan' = chan
          <5>1. chan # <<>>
            <6>1. Len(chan) # 0
              BY <4>2
            <6>2. Len(<<>>) = 0
              OBVIOUS
            <6> QED
              BY <6>1, <6>2, Zenon
          <5> QED
            BY <4>2, <5>1
        <4> QED
          BY <1>7, <2>2, <4>1, <4>2 DEF MutTrySend
      <3> QED
        BY <3>1
    <2> QED
      BY <2>1, <2>2
  <1>8. ASSUME NEW j \in Jobs, Activate(j) PROVE NoLostReload'
    BY <1>8 DEF Activate
  <1>9. ASSUME NEW j \in Jobs, JobAnswered(j) PROVE NoLostReload'
    BY <1>9 DEF JobAnswered
  <1>10. CASE EditAndHup
    BY <1>10 DEF EditAndHup
  <1>11. CASE Wake
    BY <1>11 DEF Wake
  <1>12. CASE Drain
    BY <1>12 DEF Drain
  <1>13. CASE TakeUid
    BY <1>13 DEF TakeUid
  <1>14. CASE WorkerSend
    BY <1>14 DEF WorkerSend
  <1>15. CASE RecvReload
    BY <1>15 DEF RecvReload
  <1>16. CASE RecvHup
    BY <1>16 DEF RecvHup
  <1>17. CASE RecvActivation
    BY <1>17 DEF RecvActivation
  <1>18. CASE CapturePolicy
    BY <1>18 DEF CapturePolicy
  <1>19. CASE FinishReload
    BY <1>19 DEF FinishReload
  <1>20. CASE Shutdown
    BY <1>20 DEF Shutdown
  <1>21. CASE RetireActivations
    BY <1>21 DEF RetireActivations
  <1>22. CASE DropReceiver
    BY <1>22 DEF DropReceiver
  <1>23. CASE UNCHANGED vars
    BY <1>23 DEF vars
  <1> QED
    BY <1>1, <1>2, <1>3, <1>4, <1>5, <1>6, <1>7, <1>8, <1>9, <1>10, <1>11, <1>12, <1>13, <1>14,
       <1>15, <1>16, <1>17, <1>18, <1>19, <1>20, <1>21, <1>22, <1>23
       DEF Next, IpcRequest, JobStep, WorkerStep, LoopStep

\* The answers.
LEMMA NextTruthful == TypeOK /\ Versions /\ Served /\ ActivationTruthful /\ [Next]_vars => ActivationTruthful'
  <1> SUFFICES ASSUME TypeOK, Versions, Served, ActivationTruthful, [Next]_vars PROVE ActivationTruthful'
    OBVIOUS
  <1> USE ReloadAssumption DEF TypeOK, Versions, Served, Awaited, ActivationTruthful, coalescer, worker, activation, daemon
  <1>1. ASSUME NEW c \in Clients, Write(c) PROVE ActivationTruthful'
    BY <1>1 DEF Write
  <1>2. ASSUME NEW c \in IpcClients, CheckAlive(c) PROVE ActivationTruthful'
    BY <1>2 DEF CheckAlive
  <1>3. ASSUME NEW c \in IpcClients, AddPending(c) PROVE ActivationTruthful'
    BY <1>3 DEF AddPending
  <1>4. ASSUME NEW c \in IpcClients, StoreUid(c) PROVE ActivationTruthful'
    BY <1>4 DEF StoreUid
  <1>5. ASSUME NEW c \in IpcClients, NotifyWorker(c) PROVE ActivationTruthful'
    BY <1>5 DEF NotifyWorker
  <1>6. ASSUME NEW c \in ApiClients, ApiSend(c) PROVE ActivationTruthful'
    BY <1>6 DEF ApiSend
  <1>7. ASSUME NEW c \in MutClients, MutTrySend(c) PROVE ActivationTruthful'
    BY <1>7 DEF MutTrySend
  <1>8. ASSUME NEW j \in Jobs, Activate(j) PROVE ActivationTruthful'
    BY <1>8 DEF Activate
  <1>9. ASSUME NEW j \in Jobs, JobAnswered(j) PROVE ActivationTruthful'
    BY <1>9 DEF JobAnswered
  <1>10. CASE EditAndHup
    BY <1>10 DEF EditAndHup
  <1>11. CASE Wake
    BY <1>11 DEF Wake
  <1>12. CASE Drain
    BY <1>12 DEF Drain
  <1>13. CASE TakeUid
    BY <1>13 DEF TakeUid
  <1>14. CASE WorkerSend
    BY <1>14 DEF WorkerSend
  <1>15. CASE RecvReload
    BY <1>15 DEF RecvReload
  <1>16. CASE RecvHup
    BY <1>16 DEF RecvHup
  <1>17. CASE RecvActivation
    <2>1. Head(acts) \in Jobs /\ UNCHANGED <<wrote, active>>
      BY <1>17 DEF RecvActivation
    <2>2. \/ result' = result
          \/ result' = [result EXCEPT ![Head(acts)] = "applied"] /\ active = wrote[Head(acts)]
      BY <1>17 DEF RecvActivation
    <2> QED
      BY <2>1, <2>2
  <1>18. CASE CapturePolicy
    BY <1>18 DEF CapturePolicy
  <1>19. CASE FinishReload
    BY <1>19 DEF FinishReload, Classify
  <1>20. CASE Shutdown
    BY <1>20 DEF Shutdown
  <1>21. CASE RetireActivations
    BY <1>21 DEF RetireActivations
  <1>22. CASE DropReceiver
    BY <1>22 DEF DropReceiver
  <1>23. CASE UNCHANGED vars
    BY <1>23 DEF vars
  <1> QED
    BY <1>1, <1>2, <1>3, <1>4, <1>5, <1>6, <1>7, <1>8, <1>9, <1>10, <1>11, <1>12, <1>13, <1>14,
       <1>15, <1>16, <1>17, <1>18, <1>19, <1>20, <1>21, <1>22, <1>23
       DEF Next, IpcRequest, JobStep, WorkerStep, LoopStep

\* Every step of a caller, of the coalescer's worker and of the signal loop
\* keeps the pipeline invariant.
LEMMA NextPipeline == PipelineInv /\ [Next]_vars => PipelineInv'
  BY NextTypes, NextVersions, NextServed, NextCounted, NextWakeup, NextReload, NextTruthful
     DEF PipelineInv

\* Every reachable state satisfies the pipeline invariant.
THEOREM PipelineInvariant == Spec => []PipelineInv
  BY InitPipeline, NextPipeline, PTL DEF Spec

\* The type invariant, for any number of clients.
THEOREM ReloadTypes == Spec => []TypeOK
  BY PipelineInvariant, PTL DEF PipelineInv

\* No accepted reload is lost, whatever the interleaving of request(), the
\* worker, the REST senders and signal_loop.
THEOREM ReloadNotLost == Spec => []NoLostReload
  BY PipelineInvariant, PTL DEF PipelineInv

\* A counted request always has a wakeup in store for the worker.
THEOREM WakeupNotLost == Spec => []NoLostWakeup
  BY PipelineInvariant, PTL DEF PipelineInv

\* An activation answer is true of the policy that is being served.
THEOREM ActivationAnswersTrue == Spec => []ActivationTruthful
  BY PipelineInvariant, PTL DEF PipelineInv
=============================================================================
