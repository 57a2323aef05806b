-------------------------- MODULE PolicyTransaction --------------------------
(***************************************************************************)
(* The journaled multi-file transaction that publishes a policy tree       *)
(* (src/config/policy_transaction.rs): prepare, commit, recovery, explicit *)
(* rollback, receipts and their expiry.                                    *)
(*                                                                         *)
(* A transaction replaces, creates or deletes several member files as one  *)
(* decision.  The active fence directory holds its journal; each journal   *)
(* write is a rename, hence atomic, and every link, rename and unlink is   *)
(* fsynced before the next step, so a crash or a power loss falls between  *)
(* two steps of this module.  The exclusive configuration lock admits one  *)
(* caller at a time, and every entry point first recovers the fence a dead *)
(* caller left behind.                                                     *)
(*                                                                         *)
(* Data kept: a member's content is a value, its identity an inode; file   *)
(* metadata, blob bytes (durable before the Prepared journal and checked   *)
(* by digest), names and budgets are abstracted.  Foreign editors do not   *)
(* take the lock: EditPoints says between which steps of a caller they may *)
(* save.                                                                   *)
(***************************************************************************)
EXTENDS Integers, FiniteSets

CONSTANTS
    NMembers,     \* member files, in promotion order; the last is the master
    Values,       \* file contents
    None,         \* Option::None: an absent file
    Requests,     \* (actor, request id) keys
    Target,       \* Target[r][m]: content request r wants for member m
    Genesis,      \* Genesis[m]: content of member m at the start
    EditValue,    \* what a foreign editor saves
    EditPoints,   \* the steps before which a foreign save may fall
    MaxReceipts,  \* admission limit of the receipt ledger
    MaxFaults,    \* bound: crashes and I/O errors in a behaviour
    MaxEdits      \* bound: foreign saves in a behaviour

Members == 1..NMembers
OptVal  == Values \cup {None}

\* The entry points, and the steps of a caller.
Ops == {"apply", "lookup", "complete", "rollback", "finalize"}
Steps ==
    {"idle", "recover", "unstage", "staging", "phase", "cleanup", "goal", "restore",
     "swap", "restored", "terminal", "receipt", "op", "admit", "fence", "setup",
     "blobs", "prepared", "stage", "promote", "promoted", "rollback", "failed",
     "failjournal", "failreceipt", "refused"}

ASSUME PolicyAssumption ==
    /\ NMembers \in Nat \ {0}
    /\ None \notin Values
    /\ Target \in [Requests -> [Members -> OptVal]]
    /\ Genesis \in [Members -> OptVal]
    /\ EditValue \in Values /\ EditPoints \subseteq Steps
    /\ MaxReceipts \in Nat /\ MaxFaults \in Nat /\ MaxEdits \in Nat
    /\ \A r \in Requests : Target[r][NMembers] # None

\* At most three names per member hold an inode, so one is always free.
Inodes == 1..(3 * NMembers + 1)
OptIno == 0..(3 * NMembers + 1)     \* 0: no inode recorded

Phases == {"Setup", "Prepared", "AbortCleanup", "Committing", "Committed",
           "RollingBack", "RollbackCleanup", "Aborted", "RolledBack"}
TerminalPhases  == {"Committed", "Aborted", "RolledBack"}
CommittedPhases == {"Committing", "Committed", "RollingBack", "RollbackCleanup",
                    "RolledBack"}
Persistence == {"Prepared", "Committed", "Aborted", "DurabilityUncertain"}

Journal ==
    [req      : Requests,
     phase    : Phases,
     ready    : BOOLEAN,                \* rollback_ready
     pers     : Persistence,            \* receipt.persistence
     restored : BOOLEAN,                \* receipt.rollback_restored
     before   : [Members -> OptVal],
     bino     : [Members -> OptIno],    \* before_inode
     prom     : [Members -> OptIno],    \* promoted_inode
     rest     : [Members -> OptIno],    \* restored_inode
     lstg     : [Members -> OptIno],    \* linked_staging: its payload
     rstg     : [Members -> OptIno],    \* rollback_staging: its payload
     rlnk     : [Members -> BOOLEAN]]   \* rollback_staging.linked
NoJournal == [req |-> None]

Receipt ==
    [pers     : Persistence,
     restored : BOOLEAN,
     settled  : BOOLEAN,    \* receipt_completion_settled
     old      : BOOLEAN]    \* retain_until has passed
NoReceipt == [pers |-> None]

VARIABLES
    \* Durable state.
    files,     \* member -> content and inode
    fwd,       \* member -> inode linked under its forward staging name
    rbk,       \* member -> inode linked under its rollback staging name
    fence,     \* "none", "stage" (setup stage directory), "bare" (fence with
               \* a marker only), "journal"
    jr,        \* the journal in the fence
    undo,      \* request -> terminal journal kept in the undo store
    receipts,  \* request -> record in the receipt ledger
    \* The running caller.
    pc,        \* its next step; "idle" when the lock is free
    call,      \* the operation and request it was called for
    run,       \* "recover", "commit" or "rollback": whose journal mem is
    mem,       \* its in-memory journal
    left,      \* members it has still to promote or restore, lowest first
    \* Callers' plans, the environment and its budgets.
    planned,   \* request -> inventory its plan was made against, or None
    edited,    \* history: members saved by an editor since the fence appeared
    edits,     \* foreign saves so far
    faults     \* crashes and I/O errors so far

tree == <<files, fwd, rbk>>
env  == <<planned, edited, edits>>
vars == <<tree, fence, jr, undo, receipts, pc, call, run, mem, left, env, faults>>

NoCall == [op |-> "none", req |-> None]

TypeOK ==
    /\ files \in [Members -> [val : OptVal, ino : OptIno]]
    /\ fwd \in [Members -> OptIno]
    /\ rbk \in [Members -> OptIno]
    /\ fence \in {"none", "stage", "bare", "journal"}
    /\ jr \in Journal \cup {NoJournal}
    /\ undo \in [Requests -> Journal \cup {NoJournal}]
    /\ receipts \in [Requests -> Receipt \cup {NoReceipt}]
    /\ pc \in Steps
    /\ call \in [op : Ops, req : Requests] \cup {NoCall}
    /\ run \in {"recover", "commit", "rollback"}
    /\ mem \in Journal \cup {NoJournal}
    /\ left \subseteq Members
    /\ planned \in [Requests -> [Members -> OptVal] \cup {None}]
    /\ edited \subseteq Members
    /\ edits \in 0..MaxEdits
    /\ faults \in 0..MaxFaults

-----------------------------------------------------------------------------
(* What the code reads off a journal and the tree.                         *)

Vals == [m \in Members |-> files[m].val]

After(j, m) == Target[j.req][m]

\* plan_members: the operation of one member.
Operation(j, m) ==
    CASE j.before[m] = After(j, m)                        -> "none"
      [] j.before[m] = None                               -> "create"
      [] j.before[m] # None /\ After(j, m) = None         -> "delete"
      [] OTHER                                            -> "replace"

Destructive(j) == {m \in Members : Operation(j, m) \in {"replace", "delete"}}
Published(j)   == {m \in Members : Operation(j, m) \in {"replace", "create"}}

\* Mutant of Matches: compares only whether the member exists.
MatchesPresence(m, val, ino) == (files[m].val = None) = (val = None)

\* plan_matches and verify_target: content and inode of a live member.
Matches(m, val, ino) ==
    files[m].val = val /\ (val # None => files[m].ino = ino)

\* Mutant of IsBefore: a restored member is expected under its old inode.
IsBeforeOriginal(j, m) == Matches(m, j.before[m], j.bino[m])

\* restored_inode.or(before_inode) is the inode of a before image,
\* promoted_inode that of an after image unless the member is untouched.
IsBefore(j, m) ==
    Matches(m, j.before[m], IF j.rest[m] # 0 THEN j.rest[m] ELSE j.bino[m])
IsAfter(j, m) ==
    Matches(m, After(j, m), IF Operation(j, m) = "none" THEN j.bino[m] ELSE j.prom[m])

\* verify_inventory, before = true and before = false.
BeforeInventory(j) == \A m \in Members : IsBefore(j, m)
AfterInventory(j)  == \A m \in Members : IsAfter(j, m)

Bare(j) ==
    \A m \in Members : j.prom[m] = 0 /\ j.rest[m] = 0 /\ j.lstg[m] = 0 /\ j.rstg[m] = 0

\* decode: the journals recovery accepts.
Decodes(j) ==
    /\ \A m \in Members : j.rstg[m] # 0 => m \in Destructive(j)
    /\ \A m \in Members : j.lstg[m] # 0 =>
          IF j.rest[m] # 0
            THEN m \in Published(j) \cup Destructive(j) /\ j.lstg[m] = j.rest[m]
            ELSE m \in Published(j) /\ j.lstg[m] = j.prom[m]
    /\ j.pers \in CASE j.phase = "Setup"            -> {"Prepared"}
                    [] j.phase = "Prepared"         -> {"Prepared", "DurabilityUncertain"}
                    [] j.phase \in CommittedPhases  -> {"Committed", "DurabilityUncertain"}
                    [] OTHER                        -> {"Aborted", "DurabilityUncertain"}
    /\ j.restored = (j.phase \in {"RollbackCleanup", "RolledBack"})
    /\ j.phase = "Setup" => Bare(j) /\ ~j.ready
    /\ j.phase \in CommittedPhases => \A m \in Published(j) : j.prom[m] # 0
    /\ j.phase \in TerminalPhases =>
          ~j.ready /\ \A m \in Members : j.lstg[m] = 0 /\ j.rstg[m] = 0
    /\ j.ready => j.phase \in {"Prepared", "RollingBack", "Committing"}
    /\ j.ready /\ j.phase # "Committing" =>
          \A m \in Destructive(j) : (j.rstg[m] # 0 /\ j.rlnk[m]) \/ j.rest[m] # 0

\* validate_journal_receipt: the journal may only advance the decision that
\* the ledger already records; without a record nothing was promoted.
AgreesWithReceipt(j, rec) ==
    IF rec = NoReceipt
      THEN j.phase \in {"Setup", "Prepared"} /\ j.pers = "Prepared" /\ ~j.ready /\ Bare(j)
      ELSE /\ CASE rec.pers = "Committed" -> j.phase \in CommittedPhases
                [] rec.pers = "Aborted"   -> j.phase = "Aborted"
                [] OTHER                  -> j.phase # "Setup"
           /\ rec.restored => j.phase = "RolledBack" /\ j.restored

Pending(rec)  == rec # NoReceipt /\ rec.pers \in {"Prepared", "DurabilityUncertain"}
Terminal(rec) == rec # NoReceipt /\ rec.pers \in {"Committed", "Aborted"}
Expired(rec)  == Terminal(rec) /\ rec.settled /\ rec.old

\* The record ReceiptStore::write and lookup_in store for a terminal journal:
\* the journal owns the decision, the ledger what was observed after it.
TerminalReceipt(j, rec) ==
    [pers     |-> IF j.phase = "Aborted" THEN "Aborted" ELSE "Committed",
     restored |-> j.restored,
     settled  |-> rec # NoReceipt /\ rec.settled,
     old      |-> FALSE]

First(S) == CHOOSE m \in S : \A n \in S : m <= n

Linked == {files[m].ino : m \in Members} \cup {fwd[m] : m \in Members}
            \cup {rbk[m] : m \in Members}

\* A file system hands out any inode no name refers to, so numbers are
\* reused as early as they can be.
Allocates(i) == i \notin Linked /\ \A k \in 1..(i - 1) : k \in Linked

Init ==
    /\ files = [m \in Members |->
                  [val |-> Genesis[m], ino |-> IF Genesis[m] = None THEN 0 ELSE m]]
    /\ fwd = [m \in Members |-> 0]
    /\ rbk = [m \in Members |-> 0]
    /\ fence = "none"
    /\ jr = NoJournal
    /\ undo = [r \in Requests |-> NoJournal]
    /\ receipts = [r \in Requests |-> NoReceipt]
    /\ pc = "idle" /\ call = NoCall /\ run = "recover" /\ mem = NoJournal /\ left = {}
    /\ planned = [r \in Requests |-> None]
    /\ edited = {} /\ edits = 0 /\ faults = 0

-----------------------------------------------------------------------------
(* Building blocks of the caller's steps.                                  *)

\* The operation returns, or the process dies: the lock is released and the
\* in-memory journal is gone.
Release ==
    /\ pc' = "idle" /\ call' = NoCall /\ run' = "recover" /\ mem' = NoJournal
    /\ left' = {}

\* A failed check: commit() answers it like an I/O error, recovery and
\* rollback return a RecoveryConflict and leave everything in place.
Refuse ==
    /\ pc' = IF run = "commit" THEN "failed" ELSE "refused"
    /\ UNCHANGED <<tree, fence, jr, undo, receipts, call, run, mem, left, env, faults>>

\* write_journal: the caller updates its copy, then renames it over the
\* journal.  When that fails inside commit() the copy keeps the update;
\* elsewhere the error ends the operation, which is Crash.
WriteJournal(j, next) ==
    /\ mem' = j
    /\ \/ jr' = j /\ pc' = next /\ UNCHANGED faults
       \/ /\ run = "commit" /\ faults < MaxFaults
          /\ faults' = faults + 1
          /\ pc' = IF pc = "failed" THEN "failjournal" ELSE "failed"
          /\ UNCHANGED jr
    /\ UNCHANGED <<fence, undo, receipts, call, run, env>>

\* A step that changes only names in the tree.
TreeStep(next) ==
    /\ pc' = next
    /\ UNCHANGED <<fence, jr, undo, receipts, call, run, mem, env, faults>>

\* A step that only moves the caller on.
Goto(next) ==
    /\ pc' = next
    /\ UNCHANGED <<tree, fence, jr, undo, receipts, call, run, mem, left, env, faults>>

-----------------------------------------------------------------------------
(* Callers and the environment.                                            *)

\* A client reads the tree (refused while a fence is up) and plans request r.
Plan(r) ==
    /\ pc = "idle" /\ fence = "none"
    /\ receipts[r] = NoReceipt
    /\ planned' = [planned EXCEPT ![r] = Vals]
    /\ UNCHANGED <<tree, fence, jr, undo, receipts, pc, call, run, mem, left, edited,
                   edits, faults>>

\* An entry point takes the exclusive lock; recovery comes first.
Begin(op, r) ==
    /\ pc = "idle"
    /\ op = "apply" => planned[r] # None
    /\ pc' = "recover"
    /\ call' = [op |-> op, req |-> r]
    /\ UNCHANGED <<tree, fence, jr, undo, receipts, run, mem, left, env, faults>>

\* An editor saves a member, under a new inode as editors do.  A removal by
\* hand is left out: a transaction cannot tell it from its own deletion.
Edit(m) ==
    /\ pc \in EditPoints /\ edits < MaxEdits
    /\ \E i \in Inodes : Allocates(i)
          /\ files' = [files EXCEPT ![m] = [val |-> EditValue, ino |-> i]]
    /\ edits' = edits + 1
    /\ edited' = edited \cup {m}
    /\ UNCHANGED <<fwd, rbk, fence, jr, undo, receipts, pc, call, run, mem, left,
                   planned, faults>>

\* The retention of a receipt passes.
Age(r) ==
    /\ pc = "idle" /\ Terminal(receipts[r]) /\ ~receipts[r].old
    /\ receipts' = [receipts EXCEPT ![r].old = TRUE]
    /\ UNCHANGED <<tree, fence, jr, undo, pc, call, run, mem, left, env, faults>>

\* The process dies, or an operation other than commit() fails on I/O.
Crash ==
    /\ pc # "idle" /\ faults < MaxFaults
    /\ faults' = faults + 1
    /\ Release
    /\ UNCHANGED <<tree, fence, jr, undo, receipts, env>>

\* A link, rename, unlink or fsync of commit() fails before its effect; a
\* failure after the effect is one at the next step.
IoError ==
    /\ run = "commit" /\ faults < MaxFaults
    /\ pc \in {"stage", "promote", "promoted", "cleanup", "goal", "terminal", "receipt"}
    /\ faults' = faults + 1
    /\ pc' = "failed"
    /\ UNCHANGED <<tree, fence, jr, undo, receipts, call, run, mem, left, env>>

-----------------------------------------------------------------------------
(* recover_active.                                                         *)

\* cleanup_setup_stage: a setup that was never published, or one whose
\* removal was interrupted.
RecoverStage ==
    /\ pc = "recover" /\ fence = "stage"
    /\ fence' = "none"
    /\ pc' = "op"
    /\ UNCHANGED <<tree, jr, undo, receipts, call, run, mem, left, env, faults>>

\* reconcile_terminal_receipts: without a fence every pending record must
\* have a terminal undo, whose decision is copied into the ledger.
Reconcile ==
    /\ pc = "recover" /\ fence = "none"
    /\ LET waiting == {r \in Requests : Pending(receipts[r])}
       IN  \/ waiting = {} /\ Goto("op")
          \/ \E r \in waiting :
               IF undo[r] = NoJournal \/ undo[r].phase \notin TerminalPhases
                     \/ ~Decodes(undo[r]) \/ ~AgreesWithReceipt(undo[r], receipts[r])
                 THEN Refuse
                 ELSE /\ receipts' = [receipts EXCEPT ![r] = TerminalReceipt(undo[r], @)]
                      /\ UNCHANGED <<tree, fence, jr, undo, pc, call, run, mem, left,
                                     env, faults>>

\* A fence with a marker and no journal is renamed away, then removed.
RecoverBare ==
    /\ pc = "recover" /\ fence = "bare"
    /\ Goto("unstage")

\* remove_setup.
RemoveSetup ==
    /\ pc = "unstage"
    /\ fence' = IF fence = "bare" THEN "stage" ELSE "none"
    /\ pc' = IF fence = "bare" THEN "unstage" ELSE "op"
    /\ UNCHANGED <<tree, jr, undo, receipts, call, run, mem, left, env, faults>>

\* Mutant of RecoverJournal: an uncertain journal is left for an operator.
RecoverJournalCertain ==
    /\ pc = "recover" /\ fence = "journal"
    /\ IF ~Decodes(jr) \/ ~AgreesWithReceipt(jr, receipts[jr.req])
            \/ jr.pers = "DurabilityUncertain"
         THEN Refuse
         ELSE IF receipts[jr.req] = NoReceipt
         THEN /\ fence' = "bare" /\ jr' = NoJournal /\ pc' = "unstage"
              /\ UNCHANGED <<tree, undo, receipts, call, run, mem, left, env, faults>>
         ELSE /\ mem' = jr /\ pc' = "staging"
              /\ UNCHANGED <<tree, fence, jr, undo, receipts, call, run, left, env, faults>>

\* A journal is decoded and compared with its record.  Without a record the
\* setup was never published: remove_unpublished_setup drops blobs, then
\* the journal.  Otherwise its recovery starts.
RecoverJournal ==
    /\ pc = "recover" /\ fence = "journal"
    /\ IF ~Decodes(jr) \/ ~AgreesWithReceipt(jr, receipts[jr.req])
         THEN Refuse
         ELSE IF receipts[jr.req] = NoReceipt
         THEN /\ fence' = "bare" /\ jr' = NoJournal /\ pc' = "unstage"
              /\ UNCHANGED <<tree, undo, receipts, call, run, mem, left, env, faults>>
         ELSE /\ mem' = jr /\ pc' = "staging"
              /\ UNCHANGED <<tree, fence, jr, undo, receipts, call, run, left, env, faults>>

\* Mutant of CleanStaging: forgets the staging name without unlinking it.
CleanStagingForgets ==
    /\ pc \in {"staging", "failed"}
    /\ LET staged == {m \in Members : mem.lstg[m] # 0}
           m      == First(staged)
       IN  IF staged = {}
             THEN Goto(IF pc = "staging" THEN "phase" ELSE "failjournal")
             ELSE WriteJournal([mem EXCEPT !.lstg[m] = 0], pc) /\ UNCHANGED <<tree, left>>

\* cleanup_staging_receipts, in recovery and in commit()'s error path: unlink
\* a forward stage that is still linked, then clear its receipt.
CleanStaging ==
    /\ pc \in {"staging", "failed"}
    /\ LET staged == {m \in Members : mem.lstg[m] # 0}
           m      == First(staged)
       IN  IF staged = {}
             THEN Goto(IF pc = "staging" THEN "phase" ELSE "failjournal")
             ELSE IF fwd[m] # 0
             THEN fwd' = [fwd EXCEPT ![m] = 0] /\ UNCHANGED <<files, rbk, left>> /\ TreeStep(pc)
             ELSE WriteJournal([mem EXCEPT !.lstg[m] = 0], pc) /\ UNCHANGED <<tree, left>>

\* recover_active_impl's match on the phase: check the inventory the phase
\* promises before anything is removed or restored.
ResolvePhase ==
    /\ pc = "phase"
    /\ CASE mem.phase \in {"Prepared", "RollingBack"} /\ mem.ready ->
              IF \A m \in Members : IsBefore(mem, m) \/ IsAfter(mem, m)
                THEN /\ pc' = "restore"
                     /\ left' = {m \in Members : ~IsBefore(mem, m)}
                     /\ UNCHANGED <<tree, fence, jr, undo, receipts, call, run, mem, env,
                                    faults>>
                ELSE Refuse
         [] \/ mem.phase = "Prepared" /\ ~mem.ready
            \/ mem.phase \in {"AbortCleanup", "RollbackCleanup"} ->
              IF BeforeInventory(mem) THEN Goto("cleanup") ELSE Refuse
         [] mem.phase = "Committing" \/ (mem.phase = "RollingBack" /\ ~mem.ready) ->
              IF AfterInventory(mem) THEN Goto("cleanup") ELSE Refuse
         [] mem.phase = "Committed" ->
              IF AfterInventory(mem)
                THEN /\ WriteJournal([mem EXCEPT !.pers = "Committed"], "terminal")
                     /\ UNCHANGED <<tree, left>>
                ELSE Refuse
         [] OTHER ->
              IF BeforeInventory(mem) THEN Goto("terminal") ELSE Refuse

-----------------------------------------------------------------------------
(* Rollback copies: cleanup_rollback_staging and restore_members.          *)

\* Mutant of CleanRollback: the readiness marker outlives the copies.
CleanRollbackKeepsReady ==
    /\ pc = "cleanup"
    /\ LET staged == {m \in Members : mem.rstg[m] # 0}
           m      == First(staged)
       IN  IF staged = {} THEN Goto("goal")
           ELSE IF rbk[m] # 0
           THEN rbk' = [rbk EXCEPT ![m] = 0] /\ UNCHANGED <<files, fwd, left>> /\ TreeStep(pc)
           ELSE /\ WriteJournal([mem EXCEPT !.rstg[m] = 0, !.rlnk[m] = FALSE], pc)
                /\ UNCHANGED <<tree, left>>

\* cleanup_rollback_staging_member: note the intent to unlink, unlink, clear
\* the receipt.  A linked copy that is gone must have been consumed by a
\* restore.  After the last one the readiness marker is cleared.
CleanRollback ==
    /\ pc = "cleanup"
    /\ LET staged == {m \in Members : mem.rstg[m] # 0}
           m      == First(staged)
           Write(j, next) == WriteJournal(j, next) /\ UNCHANGED <<tree, left>>
       IN  CASE staged = {} -> Write([mem EXCEPT !.ready = FALSE], "goal")
             [] staged # {} /\ rbk[m] # 0 /\ mem.rlnk[m] ->
                  Write([mem EXCEPT !.rlnk[m] = FALSE], pc)
             [] staged # {} /\ rbk[m] # 0 /\ ~mem.rlnk[m] ->
                  rbk' = [rbk EXCEPT ![m] = 0] /\ UNCHANGED <<files, fwd, left>> /\ TreeStep(pc)
             [] staged # {} /\ rbk[m] = 0 ->
                  IF mem.rlnk[m] /\ ~(mem.rest[m] = mem.rstg[m] /\ IsBefore(mem, m))
                    THEN Refuse
                    ELSE Write([mem EXCEPT !.rstg[m] = 0, !.rlnk[m] = FALSE], pc)

\* The terminal phase that follows a cleanup phase, and its decision.
Goal(j) ==
    CASE j.phase \in {"Prepared", "AbortCleanup"}   -> "Aborted"
      [] j.phase \in {"Committing", "RollingBack"}  -> "Committed"
      [] OTHER                                      -> "RolledBack"

WriteGoal ==
    /\ pc = "goal"
    /\ WriteJournal([mem EXCEPT !.phase = Goal(mem),
                                !.pers = IF Goal(mem) = "Aborted" THEN "Aborted" ELSE "Committed",
                                !.restored = (Goal(mem) = "RolledBack")], "terminal")
    /\ UNCHANGED <<tree, left>>

\* restore_members: the members ResolvePhase found away from their before
\* image are put back one at a time, a created one by unlinking it, any
\* other from its rollback copy, whose inode is journaled as the restored
\* one first.  When the whole before inventory is back the cleanup phase is
\* written.
Restore ==
    /\ pc = "restore"
    /\ LET m        == First(left)
           explicit == mem.phase = "RollingBack"
           Write(j, next) == WriteJournal(j, next) /\ UNCHANGED <<tree, left>>
       IN  CASE left = {} ->
                  IF BeforeInventory(mem)
                    THEN Write([mem EXCEPT
                                  !.phase = IF explicit THEN "RollbackCleanup" ELSE "AbortCleanup",
                                  !.pers = IF explicit THEN "Committed" ELSE "Aborted",
                                  !.restored = explicit,
                                  !.ready = FALSE], "cleanup")
                    ELSE Refuse
             [] left # {} /\ (~IsAfter(mem, m)
                               \/ (mem.before[m] # None /\ (mem.rstg[m] = 0 \/ rbk[m] = 0))) ->
                  Refuse
             [] left # {} /\ IsAfter(mem, m) /\ mem.before[m] = None ->
                  /\ files' = [files EXCEPT ![m] = [val |-> None, ino |-> 0]]
                  /\ left' = left \ {m}
                  /\ UNCHANGED <<fwd, rbk>> /\ TreeStep(pc)
             [] left # {} /\ IsAfter(mem, m) /\ mem.before[m] # None
                  /\ mem.rstg[m] # 0 /\ rbk[m] # 0 ->
                  Write([mem EXCEPT !.rest[m] = rbk[m]], "swap")

\* restore_rollback_stage: the copy is renamed over the member, without a
\* further look at it, and then cleared.
RestoreSwap ==
    /\ pc = "swap"
    /\ LET m == First(left)
       IN  /\ files' = [files EXCEPT ![m] = [val |-> mem.before[m], ino |-> rbk[m]]]
           /\ rbk' = [rbk EXCEPT ![m] = 0]
    /\ UNCHANGED <<fwd, left>>
    /\ TreeStep("restored")

RestoreDone ==
    /\ pc = "restored"
    /\ LET m == First(left)
       IN  /\ WriteJournal([mem EXCEPT !.rstg[m] = 0, !.rlnk[m] = FALSE], "restore")
           /\ left' = left \ {m}
    /\ UNCHANGED tree

-----------------------------------------------------------------------------
(* Terminal steps, shared by commit(), recovery and rollback.              *)

\* terminalize: the fence is renamed into the undo store.
Terminalize ==
    /\ pc = "terminal"
    /\ IF undo[mem.req] # NoJournal
         THEN Refuse
         ELSE /\ undo' = [undo EXCEPT ![mem.req] = jr]
              /\ fence' = "none"
              /\ jr' = NoJournal
              /\ pc' = "receipt"
              /\ UNCHANGED <<tree, receipts, call, run, mem, left, env, faults>>

\* ReceiptStore::write of the terminal decision.  commit() and rollback
\* return, recovery goes on with the operation that called it.
WriteReceipt ==
    /\ pc = "receipt"
    /\ receipts' = [receipts EXCEPT ![mem.req] = TerminalReceipt(mem, @)]
    /\ \/ run # "recover" /\ Release
       \/ /\ run = "recover"
          /\ pc' = "op" /\ mem' = NoJournal
          /\ UNCHANGED <<call, run, left>>
    /\ UNCHANGED <<tree, fence, jr, undo, env, faults>>

\* commit()'s error path: the in-memory journal, marked uncertain, is
\* written if the fence is still active, then the record; both are best
\* effort, and the caller gets an uncertain receipt.
Uncertain(j) == [j EXCEPT !.pers = "DurabilityUncertain"]

FailSkipCleanup ==
    /\ pc = "failed" /\ faults < MaxFaults
    /\ faults' = faults + 1
    /\ pc' = "failjournal"
    /\ UNCHANGED <<tree, fence, jr, undo, receipts, call, run, mem, left, env>>

FailJournal ==
    /\ pc = "failjournal"
    /\ mem' = Uncertain(mem)
    /\ pc' = "failreceipt"
    /\ \/ jr' = (IF fence = "journal" THEN mem' ELSE jr) /\ UNCHANGED faults
       \/ faults < MaxFaults /\ faults' = faults + 1 /\ UNCHANGED jr
    /\ UNCHANGED <<tree, fence, undo, receipts, call, run, left, env>>

FailReceipt ==
    /\ pc = "failreceipt"
    /\ \/ /\ receipts' = [receipts EXCEPT ![mem.req] =
                             [pers |-> mem.pers, restored |-> mem.restored,
                              settled |-> FALSE, old |-> FALSE]]
          /\ UNCHANGED faults
       \/ faults < MaxFaults /\ faults' = faults + 1 /\ UNCHANGED receipts
    /\ Release
    /\ UNCHANGED <<tree, fence, jr, undo, env>>

-----------------------------------------------------------------------------
(* The operations, once the fence is clear.                                *)

\* The caller returns without a change.
Return ==
    /\ Release
    /\ UNCHANGED <<tree, fence, jr, undo, receipts, env, faults>>

\* An operation answers a RecoveryConflict.
ReturnRefused == pc = "refused" /\ Return

\* lookup_in, for prepare and lookup_receipt: an expired identity is not
\* reused, a retained undo journal is replayed and the ledger brought up to
\* its decision, a decided record without undo is replayed as it stands.
\* Only a request nobody has seen is admitted.
Lookup ==
    /\ pc = "op" /\ call.op \in {"apply", "lookup"}
    /\ LET r   == call.req
           rec == receipts[r]
           j   == undo[r]
       IN  IF Expired(rec) THEN Return
           ELSE IF j = NoJournal
           THEN IF Pending(rec) THEN Refuse
                ELSE IF rec = NoReceipt /\ call.op = "apply" THEN Goto("admit")
                ELSE Return
           ELSE IF j.phase \notin TerminalPhases \/ ~Decodes(j) \/ ~AgreesWithReceipt(j, rec)
           THEN Refuse
           ELSE LET healed == TerminalReceipt(j, rec)
                IN  /\ receipts' = IF rec # NoReceipt /\ rec.pers = healed.pers
                                        /\ rec.restored = healed.restored
                                      THEN receipts ELSE [receipts EXCEPT ![r] = healed]
                    /\ Release
                    /\ UNCHANGED <<tree, fence, jr, undo, env, faults>>

\* complete_receipt_activation, freeze_receipt_audit and
\* mark_receipt_audit_recorded: what was observed after the decision.
Complete ==
    /\ pc = "op" /\ call.op = "complete"
    /\ LET r == call.req
       IN  receipts' = IF Terminal(receipts[r])
                         THEN [receipts EXCEPT ![r].settled = TRUE] ELSE receipts
    /\ Release
    /\ UNCHANGED <<tree, fence, jr, undo, env, faults>>

\* finalize_after_recovery: the undo of a decided request is dropped.
Finalize ==
    /\ pc = "op" /\ call.op = "finalize"
    /\ undo' = IF Terminal(receipts[call.req])
                 THEN [undo EXCEPT ![call.req] = NoJournal] ELSE undo
    /\ Release
    /\ UNCHANGED <<tree, fence, jr, receipts, env, faults>>

\* rollback_after_recovery_impl: a committed undo whose after inventory is
\* still in place becomes the active fence again.
RollbackOpen ==
    /\ pc = "op" /\ call.op = "rollback"
    /\ LET r == call.req
           j == undo[r]
       IN  IF j = NoJournal THEN Return
           ELSE IF ~Decodes(j) \/ ~AgreesWithReceipt(j, receipts[r]) THEN Refuse
           ELSE IF j.phase # "Committed" \/ ~AfterInventory(j) THEN Return
           ELSE /\ undo' = [undo EXCEPT ![r] = NoJournal]
                /\ fence' = "journal" /\ jr' = j /\ mem' = j
                /\ run' = "rollback" /\ pc' = "rollback"
                /\ edited' = {}
                /\ UNCHANGED <<tree, receipts, call, left, planned, edits, faults>>

RollbackBegin ==
    /\ pc = "rollback"
    /\ WriteJournal([mem EXCEPT !.phase = "RollingBack", !.ready = FALSE], "stage")
    /\ UNCHANGED <<tree, left>>

\* Mutant of ExpireReceipt: the record goes before its undo.
ExpireReceiptFirst(r) ==
    /\ pc = "admit" /\ Expired(receipts[r])
    /\ receipts' = [receipts EXCEPT ![r] = NoReceipt]
    /\ UNCHANGED <<tree, fence, jr, undo, pc, call, run, mem, left, env, faults>>

\* ReceiptStore::admit: expired records go, each after its undo.
ExpireReceipt(r) ==
    /\ pc = "admit" /\ Expired(receipts[r])
    /\ IF undo[r] # NoJournal
         THEN undo' = [undo EXCEPT ![r] = NoJournal] /\ UNCHANGED receipts
         ELSE receipts' = [receipts EXCEPT ![r] = NoReceipt] /\ UNCHANGED undo
    /\ UNCHANGED <<tree, fence, jr, pc, call, run, mem, left, env, faults>>

\* The journal prepare builds for request r from the captured tree.
SetupJournal(r) ==
    [req |-> r, phase |-> "Setup", ready |-> FALSE, pers |-> "Prepared",
     restored |-> FALSE, before |-> Vals,
     bino |-> [m \in Members |-> files[m].ino],
     prom |-> [m \in Members |-> 0], rest |-> [m \in Members |-> 0],
     lstg |-> [m \in Members |-> 0], rstg |-> [m \in Members |-> 0],
     rlnk |-> [m \in Members |-> FALSE]]

\* Mutant of Admit: the plan's revision is not compared with the tree.
AdmitStalePlan ==
    /\ pc = "admit" /\ \A r \in Requests : ~Expired(receipts[r])
    /\ IF Cardinality({r \in Requests : receipts[r] # NoReceipt}) >= MaxReceipts
         THEN Return
         ELSE /\ mem' = SetupJournal(call.req)
              /\ fence' = "stage" /\ pc' = "fence"
              /\ edited' = {}
              /\ UNCHANGED <<tree, jr, undo, receipts, call, run, left, planned, edits, faults>>

\* The rest of admit and prepare_with_hook_impl: a full ledger and a stale
\* plan are turned away, then the setup stage is created.
Admit ==
    /\ pc = "admit" /\ \A r \in Requests : ~Expired(receipts[r])
    /\ IF \/ Cardinality({r \in Requests : receipts[r] # NoReceipt}) >= MaxReceipts
          \/ planned[call.req] # Vals
         THEN Return
         ELSE /\ mem' = SetupJournal(call.req)
              /\ fence' = "stage" /\ pc' = "fence"
              /\ edited' = {}
              /\ UNCHANGED <<tree, jr, undo, receipts, call, run, left, planned, edits, faults>>

\* publish_fence renames the stage to the fence; publish_prepared writes the
\* setup journal, the blobs, the Prepared journal and the pending record.
PublishFence ==
    /\ pc = "fence"
    /\ fence' = "bare" /\ pc' = "setup"
    /\ UNCHANGED <<tree, jr, undo, receipts, call, run, mem, left, env, faults>>

WriteSetup ==
    /\ pc = "setup"
    /\ fence' = "journal" /\ jr' = mem /\ pc' = "blobs"
    /\ UNCHANGED <<tree, undo, receipts, call, run, mem, left, env, faults>>

WritePrepared ==
    /\ pc = "blobs"
    /\ WriteJournal([mem EXCEPT !.phase = "Prepared"], "prepared")
    /\ UNCHANGED <<tree, left>>

PublishReceipt ==
    /\ pc = "prepared"
    /\ receipts' = [receipts EXCEPT ![mem.req] =
                       [pers |-> "Prepared", restored |-> FALSE, settled |-> FALSE, old |-> FALSE]]
    /\ run' = "commit" /\ pc' = "stage"
    /\ UNCHANGED <<tree, fence, jr, undo, call, mem, left, env, faults>>

\* stage_rollback_members, for commit() and rollback alike: every member that
\* is about to be overwritten or removed gets a copy of its before image,
\* journaled, linked, and journaled as linked; then the set is ready.
StageRollback ==
    /\ pc = "stage"
    /\ LET todo == {m \in Destructive(mem) : ~mem.rlnk[m]}
           m    == First(todo)
           Write(j, next) == WriteJournal(j, next) /\ UNCHANGED tree
       IN  CASE todo = {} ->
                  /\ Write([mem EXCEPT !.ready = TRUE],
                           IF run = "commit" THEN "promote" ELSE "phase")
                  /\ left' = IF run = "commit" THEN Members ELSE {}
             [] todo # {} /\ mem.rstg[m] = 0 ->
                  IF IF run = "commit" THEN IsBefore(mem, m) ELSE IsAfter(mem, m)
                    THEN /\ \E i \in Inodes : Allocates(i)
                                /\ Write([mem EXCEPT !.rstg[m] = i], pc)
                         /\ UNCHANGED left
                    ELSE Refuse
             [] todo # {} /\ mem.rstg[m] # 0 /\ rbk[m] = 0 ->
                  /\ rbk' = [rbk EXCEPT ![m] = mem.rstg[m]]
                  /\ UNCHANGED <<files, fwd, left>> /\ TreeStep(pc)
             [] todo # {} /\ mem.rstg[m] # 0 /\ rbk[m] # 0 ->
                  Write([mem EXCEPT !.rlnk[m] = TRUE], pc) /\ UNCHANGED left

\* promote_and_commit's loop: each member is verified at its before image,
\* then unlinked, or journaled, linked under a staging name and renamed into
\* place.  The commit decision is the Committing journal, written when the
\* whole after inventory is in place.
Promote ==
    /\ pc = "promote"
    /\ LET m  == First(left)
           op == Operation(mem, m)
           Write(j, next) == WriteJournal(j, next) /\ UNCHANGED <<tree, left>>
       IN  CASE left = {} ->
                  IF AfterInventory(mem)
                    THEN Write([mem EXCEPT !.phase = "Committing", !.pers = "Committed"], "cleanup")
                    ELSE Refuse
             [] left # {} /\ mem.prom[m] # 0 /\ fwd[m] = 0 ->
                  /\ fwd' = [fwd EXCEPT ![m] = mem.prom[m]]
                  /\ UNCHANGED <<files, rbk, left>> /\ TreeStep(pc)
             [] left # {} /\ ~(mem.prom[m] # 0 /\ fwd[m] = 0) /\ ~IsBefore(mem, m) ->
                  Refuse
             [] left # {} /\ mem.prom[m] = 0 /\ IsBefore(mem, m) /\ op = "none" ->
                  /\ left' = left \ {m}
                  /\ UNCHANGED tree /\ TreeStep(pc)
             [] left # {} /\ mem.prom[m] = 0 /\ IsBefore(mem, m) /\ op = "delete" ->
                  /\ files' = [files EXCEPT ![m] = [val |-> None, ino |-> 0]]
                  /\ left' = left \ {m}
                  /\ UNCHANGED <<fwd, rbk>> /\ TreeStep(pc)
             [] left # {} /\ mem.prom[m] = 0 /\ IsBefore(mem, m) /\ m \in Published(mem) ->
                  \E i \in Inodes : Allocates(i)
                     /\ Write([mem EXCEPT !.prom[m] = i, !.lstg[m] = i], pc)
             [] left # {} /\ mem.prom[m] # 0 /\ fwd[m] # 0 /\ IsBefore(mem, m) ->
                  /\ files' = [files EXCEPT ![m] = [val |-> After(mem, m), ino |-> fwd[m]]]
                  /\ fwd' = [fwd EXCEPT ![m] = 0]
                  /\ UNCHANGED <<rbk, left>> /\ TreeStep("promoted")

\* cleanup_staging_member: the consumed staging name is cleared.
PromoteDone ==
    /\ pc = "promoted"
    /\ LET m == First(left)
       IN  /\ WriteJournal([mem EXCEPT !.lstg[m] = 0], "promote")
           /\ left' = left \ {m}
    /\ UNCHANGED tree

-----------------------------------------------------------------------------
Caller ==
    \/ RecoverStage \/ Reconcile \/ RecoverBare \/ RemoveSetup \/ RecoverJournal
    \/ CleanStaging \/ ResolvePhase \/ CleanRollback \/ WriteGoal
    \/ Restore \/ RestoreSwap \/ RestoreDone \/ Terminalize \/ WriteReceipt
    \/ FailJournal \/ FailReceipt \/ ReturnRefused
    \/ Lookup \/ Complete \/ Finalize \/ RollbackOpen \/ RollbackBegin
    \/ (\E r \in Requests : ExpireReceipt(r)) \/ Admit
    \/ PublishFence \/ WriteSetup \/ WritePrepared \/ PublishReceipt
    \/ StageRollback \/ Promote \/ PromoteDone

Next ==
    \/ Caller
    \/ \E r \in Requests : Plan(r) \/ Age(r)
    \/ \E op \in Ops, r \in Requests : Begin(op, r)
    \/ \E m \in Members : Edit(m)
    \/ Crash \/ IoError \/ FailSkipCleanup

Spec == Init /\ [][Next]_vars

\* A live process keeps stepping, and some client (or the next start of the
\* daemon) calls in again after one that died or was refused.
Fairness == WF_vars(Caller) /\ WF_vars(\E r \in Requests : Begin("lookup", r))

FairSpec == Spec /\ Fairness

-----------------------------------------------------------------------------
(* Properties.                                                             *)

\* A journal that a crash leaves in the fence or the undo store is one that
\* decode accepts and that agrees with its ledger record: recovery
\* is never locked out by what the program itself wrote.
JournalsDecode ==
    /\ fence = "journal" => Decodes(jr) /\ AgreesWithReceipt(jr, receipts[jr.req])
    /\ \A r \in Requests : undo[r] # NoJournal =>
          undo[r].phase \in TerminalPhases /\ Decodes(undo[r])
            /\ AgreesWithReceipt(undo[r], receipts[r])

\* Only a foreign save makes an operation end in a RecoveryConflict.
OnlyEditsConflict == pc \in {"refused"} => edited # {}

\* What an editor saved after a transaction captured the tree is not touched
\* by its promotion, its recovery or its rollback.
EditsSurvive ==
    [][\A m \in edited : edits' = edits => files'[m] = files[m]]_vars

\* When no transaction is open, no staging name is left in the tree: nothing
\* would ever remove it (cleanup_staging_receipts and
\* cleanup_rollback_staging only visit what a journal records).
NoOrphans ==
    fence = "none" => \A m \in Members : fwd[m] = 0 /\ rbk[m] = 0

\* What reconcile_terminal_receipts says of a death between the terminal
\* rename and the ledger write: once recovery is over, a record tells whether
\* its retained undo was rolled back.
LedgerTellsRollback ==
    pc = "op" => \A r \in Requests : undo[r] # NoJournal =>
                    receipts[r].restored = undo[r].restored

\* A request that was prepared gets its decision into the ledger, when no
\* editor interferes.
PendingResolves ==
    \A r \in Requests : Pending(receipts[r]) ~> (~Pending(receipts[r]) \/ edits > 0)

\* Recovery finishes: a fence does not stay up when no editor interferes.
FenceClears == (fence # "none") ~> (fence = "none" \/ edits > 0)

-----------------------------------------------------------------------------
(* The abstraction: while a journal is up, its phase decides which tree is *)
(* the policy, whatever the members look like halfway.                     *)

AfterDecided == {"Committing", "Committed", "RollingBack"}

PolicyView ==
    [m \in Members |->
        IF fence # "journal" \/ m \in edited THEN files[m].val
        ELSE IF jr.phase \in AfterDecided THEN After(jr, m) ELSE jr.before[m]]

Decided(phase) ==
    CASE phase \in {"Setup", "Prepared"}       -> "open"
      [] phase \in {"AbortCleanup", "Aborted"} -> "aborted"
      [] OTHER                                 -> "committed"

OutcomeView ==
    [r \in Requests |->
        CASE fence = "journal" /\ jr.req = r           -> Decided(jr.phase)
          [] ~(fence = "journal" /\ jr.req = r) /\ undo[r] # NoJournal -> Decided(undo[r].phase)
          [] OTHER -> IF receipts[r] = NoReceipt THEN "open"
                      ELSE IF receipts[r].pers = "Aborted" THEN "aborted" ELSE "committed"]

SavedView ==
    [r \in Requests |->
        IF fence = "journal" /\ jr.req = r
          THEN IF jr.phase \in AfterDecided THEN jr.before ELSE None
        ELSE IF undo[r] # NoJournal /\ undo[r].phase = "Committed" THEN undo[r].before
        ELSE None]

Atomic == INSTANCE AtomicPolicy WITH
             policy <- PolicyView, dirty <- edited, outcome <- OutcomeView, saved <- SavedView

\* Every behaviour of the journaled transaction, through crashes, I/O errors
\* and foreign saves, is one of atomic commits, aborts and rollbacks.
RefinesAtomic == Atomic!ASpec
=============================================================================
