----------------------- MODULE PolicyTransactionProofs -----------------------
(***************************************************************************)
(* What holds of PolicyTransaction for every set of members, requests and  *)
(* contents and every bound: its types, that no staging name is orphaned   *)
(* (NoOrphans), that what a crash leaves on disk decodes (JournalsDecode), *)
(* that only a foreign save ends in a conflict (OnlyEditsConflict), and,   *)
(* for saves a look can tell from the program's own work, that it is the   *)
(* atomic transaction of AtomicPolicy (RefinesAtomic) and never overwrites *)
(* one (EditsSurvive).                                                     *)
(*                                                                         *)
(* Each part has an invariant of its own that uses the parts before it:    *)
(* TypeInv, StagingInv, DecodeInv, TreeInv and RefInv.  Types first.  They *)
(* are not inductive by themselves: a step that edits the in-memory        *)
(* journal needs one to be there, and so does recovery of a fence, so      *)
(* TypeInv also says when a journal, a call and a member in hand exist.    *)
(***************************************************************************)
EXTENDS PolicyTransaction, WellFoundedInduction, NaturalsInduction, TLAPS

USE PolicyAssumption

\* The lowest member of a set is one of its elements: each loop over members
\* works on a member.
LEMMA FirstIsMember ==
    ASSUME NEW S \in SUBSET Members, S # {}
    PROVE  First(S) \in S
<1>1. S \subseteq Nat BY DEF Members
<1>2. IsWellFoundedOn(OpToRel(<, Nat), Nat) BY NatLessThanWellFounded
<1>3. PICK x \in S : \A y \in S : ~(<<y, x>> \in OpToRel(<, Nat))
  BY <1>1, <1>2, WFMin
<1>4. \A y \in S : x <= y
  <2> SUFFICES ASSUME NEW y \in S, ~(x <= y) PROVE FALSE OBVIOUS
  <2>1. x \in Nat /\ y \in Nat /\ y < x BY <1>1
  <2>2. <<y, x>> \in {ss \in Nat \X Nat : ss[1] < ss[2]} BY <2>1
  <2> QED BY <1>3, <2>2 DEF OpToRel
<1> QED BY <1>4 DEF First

LEMMA ZeroIno == 0 \in OptIno
BY DEF OptIno

\* What the loops write into a journal keeps it a journal.
LEMMA JournalEdits ==
    ASSUME NEW j \in Journal, NEW m \in Members, NEW i \in OptIno
    PROVE  /\ [j EXCEPT !.lstg[m] = 0] \in Journal
           /\ [j EXCEPT !.rlnk[m] = FALSE] \in Journal
           /\ [j EXCEPT !.rlnk[m] = TRUE] \in Journal
           /\ [j EXCEPT !.rstg[m] = 0, !.rlnk[m] = FALSE] \in Journal
           /\ [j EXCEPT !.rstg[m] = i] \in Journal
           /\ [j EXCEPT !.rest[m] = i] \in Journal
           /\ [j EXCEPT !.prom[m] = i, !.lstg[m] = i] \in Journal
<1>0. 0 \in OptIno BY DEF OptIno
<1>1. [j EXCEPT !.lstg[m] = 0] \in Journal BY <1>0 DEF Journal
<1>2. [j EXCEPT !.rlnk[m] = FALSE] \in Journal BY <1>0 DEF Journal
<1>3. [j EXCEPT !.rlnk[m] = TRUE] \in Journal BY <1>0 DEF Journal
<1>4. [j EXCEPT !.rstg[m] = 0, !.rlnk[m] = FALSE] \in Journal BY <1>0 DEF Journal
<1>5. [j EXCEPT !.rstg[m] = i] \in Journal BY <1>0 DEF Journal
<1>6. [j EXCEPT !.rest[m] = i] \in Journal BY <1>0 DEF Journal
<1>7. [j EXCEPT !.prom[m] = i, !.lstg[m] = i] \in Journal BY <1>0 DEF Journal
<1> QED BY <1>1, <1>2, <1>3, <1>4, <1>5, <1>6, <1>7

\* So do the phase changes.
LEMMA JournalPhases ==
    ASSUME NEW j \in Journal, NEW p \in Phases, NEW q \in Persistence,
           NEW b \in BOOLEAN, NEW c \in BOOLEAN
    PROVE  /\ [j EXCEPT !.phase = p, !.pers = q, !.restored = b, !.ready = c] \in Journal
           /\ [j EXCEPT !.phase = p, !.pers = q, !.restored = b] \in Journal
           /\ [j EXCEPT !.phase = p, !.pers = q] \in Journal
           /\ [j EXCEPT !.phase = p, !.ready = c] \in Journal
           /\ [j EXCEPT !.phase = p] \in Journal
           /\ [j EXCEPT !.pers = q] \in Journal
           /\ [j EXCEPT !.ready = c] \in Journal
<1>1. [j EXCEPT !.phase = p, !.pers = q, !.restored = b, !.ready = c] \in Journal BY DEF Journal
<1>2. [j EXCEPT !.phase = p, !.pers = q, !.restored = b] \in Journal BY DEF Journal
<1>3. [j EXCEPT !.phase = p, !.pers = q] \in Journal BY DEF Journal
<1>4. [j EXCEPT !.phase = p, !.ready = c] \in Journal BY DEF Journal
<1>5. [j EXCEPT !.phase = p] \in Journal BY DEF Journal
<1>6. [j EXCEPT !.pers = q] \in Journal BY DEF Journal
<1>7. [j EXCEPT !.ready = c] \in Journal BY DEF Journal
<1> QED BY <1>1, <1>2, <1>3, <1>4, <1>5, <1>6, <1>7

-----------------------------------------------------------------------------
MemSteps == Steps \ {"idle", "recover", "unstage", "op", "admit", "refused"}

Held ==
    /\ fence = "journal" => jr \in Journal
    /\ run = "commit" => mem \in Journal
    /\ pc \in MemSteps => mem \in Journal
    /\ pc # "idle" => call \in [op : Ops, req : Requests]
    /\ pc \in {"swap", "restored", "promoted"} => left # {}

TypeInv == TypeOK /\ Held

USE DEF tree, env, Steps, MemSteps

LEMMA InitTypes == Init => TypeInv
<1> SUFFICES ASSUME Init PROVE TypeInv OBVIOUS
<1>1. files \in [Members -> [val : OptVal, ino : OptIno]]
  BY DEF Init, OptIno, Members
<1>2. fwd \in [Members -> OptIno] /\ rbk \in [Members -> OptIno]
  BY DEF Init, OptIno
<1>3. /\ undo \in [Requests -> Journal \cup {NoJournal}]
      /\ receipts \in [Requests -> Receipt \cup {NoReceipt}]
      /\ jr \in Journal \cup {NoJournal} /\ mem \in Journal \cup {NoJournal}
  BY DEF Init
<1>4. planned \in [Requests -> [Members -> OptVal] \cup {None}]
  BY DEF Init
<1>5. edits \in 0..MaxEdits /\ faults \in 0..MaxFaults
  BY DEF Init
<1>6. /\ fence = "none" /\ pc = "idle" /\ call = NoCall /\ run = "recover"
      /\ left = {} /\ edited = {}
  BY DEF Init
<1> QED BY <1>1, <1>2, <1>3, <1>4, <1>5, <1>6 DEF TypeInv, TypeOK, Held

LEMMA RefuseTypes == TypeInv /\ Refuse /\ pc # "idle" => TypeInv'
BY DEF TypeInv, TypeOK, Held, Refuse

LEMMA GotoTypes ==
    ASSUME TypeInv, NEW n \in Steps, Goto(n), pc # "idle",
           n \in MemSteps => mem \in Journal, n \notin {"swap", "restored", "promoted"}
    PROVE  TypeInv'
BY DEF TypeInv, TypeOK, Held, Goto

LEMMA ReturnTypes == TypeInv /\ Return => TypeInv'
BY DEF TypeInv, TypeOK, Held, Return, Release

LEMMA WriteTypes ==
    ASSUME TypeInv, NEW j \in Journal, NEW n \in Steps, WriteJournal(j, n), pc # "idle",
           UNCHANGED tree, left' \in SUBSET Members,
           n \in {"swap", "restored", "promoted"} => left' # {}
    PROVE  TypeInv'
BY DEF TypeInv, TypeOK, Held, WriteJournal

LEMMA TreeTypes ==
    ASSUME TypeInv, NEW n \in Steps, TreeStep(n), pc # "idle",
           n \in MemSteps => mem \in Journal,
           files' \in [Members -> [val : OptVal, ino : OptIno]],
           fwd' \in [Members -> OptIno], rbk' \in [Members -> OptIno],
           left' \in SUBSET Members,
           n \in {"swap", "restored", "promoted"} => left' # {}
    PROVE  TypeInv'
BY DEF TypeInv, TypeOK, Held, TreeStep

-----------------------------------------------------------------------------
\* Callers, editors and faults.
LEMMA EnvironmentTypes ==
    TypeInv /\ (\/ \E r \in Requests : Plan(r) \/ Age(r)
                \/ \E op \in Ops, r \in Requests : Begin(op, r)
                \/ \E m \in Members : Edit(m)
                \/ Crash \/ IoError \/ FailSkipCleanup) => TypeInv'
<1> SUFFICES ASSUME TypeInv PROVE
      (\/ \E r \in Requests : Plan(r) \/ Age(r)
       \/ \E op \in Ops, r \in Requests : Begin(op, r)
       \/ \E m \in Members : Edit(m)
       \/ Crash \/ IoError \/ FailSkipCleanup) => TypeInv'
  OBVIOUS
<1>1. ASSUME NEW r \in Requests, Plan(r) PROVE TypeInv'
  <2>1. Vals \in [Members -> OptVal] BY DEF TypeInv, TypeOK, Vals
  <2> QED BY <1>1, <2>1 DEF TypeInv, TypeOK, Held, Plan
<1>2. ASSUME NEW r \in Requests, Age(r) PROVE TypeInv'
  <2>1. receipts[r] \in Receipt BY <1>2 DEF Age, Terminal, TypeInv, TypeOK
  <2>2. [receipts[r] EXCEPT !.old = TRUE] \in Receipt BY <2>1 DEF Receipt
  <2>3. receipts' \in [Requests -> Receipt \cup {NoReceipt}]
    BY <1>2, <2>2 DEF Age, TypeInv, TypeOK
  <2> QED BY <1>2, <2>3 DEF TypeInv, TypeOK, Held, Age
<1>3. ASSUME NEW op \in Ops, NEW r \in Requests, Begin(op, r) PROVE TypeInv'
  <2>1. [op |-> op, req |-> r] \in [op : Ops, req : Requests] OBVIOUS
  <2> QED BY <1>3, <2>1 DEF TypeInv, TypeOK, Held, Begin
<1>4. ASSUME NEW m \in Members, Edit(m) PROVE TypeInv'
  <2>1. files' \in [Members -> [val : OptVal, ino : OptIno]]
    BY <1>4 DEF Edit, TypeInv, TypeOK, OptVal, Inodes, OptIno, Members
  <2>2. edits' \in 0..MaxEdits BY <1>4 DEF Edit, TypeInv, TypeOK
  <2> QED BY <1>4, <2>1, <2>2 DEF TypeInv, TypeOK, Held, Edit
<1>5. ASSUME Crash PROVE TypeInv'
  BY <1>5 DEF TypeInv, TypeOK, Held, Crash, Release
<1>6. ASSUME IoError PROVE TypeInv'
  BY <1>6 DEF TypeInv, TypeOK, Held, IoError
<1>7. ASSUME FailSkipCleanup PROVE TypeInv'
  BY <1>7 DEF TypeInv, TypeOK, Held, FailSkipCleanup
<1> QED BY <1>1, <1>2, <1>3, <1>4, <1>5, <1>6, <1>7

LEMMA TerminalReceiptType ==
    ASSUME NEW j \in Journal, NEW rec \in Receipt \cup {NoReceipt}
    PROVE  TerminalReceipt(j, rec) \in Receipt
<1>1. (rec # NoReceipt /\ rec.settled) \in BOOLEAN BY DEF Receipt
<1>2. j.restored \in BOOLEAN BY DEF Journal
<1> QED BY <1>1, <1>2 DEF TerminalReceipt, Receipt, Persistence

\* recover_active up to the match on the phase.
LEMMA RecoveryTypes ==
    TypeInv /\ (\/ RecoverStage \/ Reconcile \/ RecoverBare \/ RemoveSetup
                \/ RecoverJournal \/ CleanStaging) => TypeInv'
<1> SUFFICES ASSUME TypeInv PROVE
      (\/ RecoverStage \/ Reconcile \/ RecoverBare \/ RemoveSetup
       \/ RecoverJournal \/ CleanStaging) => TypeInv'
  OBVIOUS
<1>1. ASSUME RecoverStage PROVE TypeInv'
  BY <1>1 DEF TypeInv, TypeOK, Held, RecoverStage
<1>2. ASSUME Reconcile PROVE TypeInv'
  <2>1. CASE Goto("op") BY <1>2, <2>1, GotoTypes DEF Reconcile
  <2>2. CASE Refuse BY <1>2, <2>2, RefuseTypes DEF Reconcile
  <2>3. ASSUME NEW r \in Requests, undo[r] # NoJournal,
               receipts' = [receipts EXCEPT ![r] = TerminalReceipt(undo[r], @)],
               UNCHANGED <<tree, fence, jr, undo, pc, call, run, mem, left, env, faults>>
        PROVE  TypeInv'
    <3>1. TerminalReceipt(undo[r], receipts[r]) \in Receipt
      BY <2>3, TerminalReceiptType DEF TypeInv, TypeOK
    <3>2. receipts' \in [Requests -> Receipt \cup {NoReceipt}]
      BY <2>3, <3>1 DEF TypeInv, TypeOK
    <3> QED BY <2>3, <3>2 DEF TypeInv, TypeOK, Held
  <2> QED BY <1>2, <2>1, <2>2, <2>3 DEF Reconcile
<1>3. ASSUME RecoverBare PROVE TypeInv'
  BY <1>3, GotoTypes DEF RecoverBare
<1>4. ASSUME RemoveSetup PROVE TypeInv'
  BY <1>4 DEF TypeInv, TypeOK, Held, RemoveSetup
<1>5. ASSUME RecoverJournal PROVE TypeInv'
  <2>1. CASE Refuse BY <1>5, <2>1, RefuseTypes DEF RecoverJournal
  <2>2. CASE ~Refuse BY <1>5, <2>2 DEF TypeInv, TypeOK, Held, RecoverJournal
  <2> QED BY <2>1, <2>2
<1>6. ASSUME CleanStaging PROVE TypeInv'
  <2> DEFINE staged == {m \in Members : mem.lstg[m] # 0}
             n == First(staged)
  <2>0. mem \in Journal /\ pc # "idle" BY <1>6 DEF CleanStaging, TypeInv, Held
  <2>1. CASE staged = {}
    BY <1>6, <2>0, <2>1, GotoTypes DEF CleanStaging
  <2>2. CASE staged # {}
    <3>0. staged \in SUBSET Members OBVIOUS
    <3>1. n \in Members
      <4> HIDE DEF staged
      <4> QED BY <2>2, <3>0, FirstIsMember
    <3> HIDE DEF n
    <3>2. CASE fwd[n] # 0
      <4>1. fwd' = [fwd EXCEPT ![n] = 0] /\ UNCHANGED <<files, rbk, left>> /\ TreeStep(pc)
        BY <1>6, <2>2, <3>2 DEF CleanStaging, n
      <4>2. fwd' \in [Members -> OptIno] BY <3>1, <4>1, ZeroIno DEF TypeInv, TypeOK
      <4>3. pc \in {"staging", "failed"} BY <1>6 DEF CleanStaging
      <4> QED BY <2>0, <4>1, <4>2, <4>3, TreeTypes DEF TypeInv, TypeOK
    <3>3. CASE ~(fwd[n] # 0)
      <4>1. WriteJournal([mem EXCEPT !.lstg[n] = 0], pc) /\ UNCHANGED <<tree, left>>
        BY <1>6, <2>2, <3>3 DEF CleanStaging, n
      <4>2. [mem EXCEPT !.lstg[n] = 0] \in Journal
        BY <2>0, <3>1, ZeroIno, JournalEdits
      <4>3. pc \in {"staging", "failed"} BY <1>6 DEF CleanStaging
      <4> QED BY <2>0, <4>1, <4>2, <4>3, WriteTypes DEF TypeInv, TypeOK
    <3> QED BY <3>2, <3>3
  <2> QED BY <2>1, <2>2
<1> QED BY <1>1, <1>2, <1>3, <1>4, <1>5, <1>6

-----------------------------------------------------------------------------
\* The phase of a recovered journal, and the removal of its rollback copies.
LEMMA CleanupTypes ==
    TypeInv /\ (ResolvePhase \/ CleanRollback \/ WriteGoal) => TypeInv'
<1> SUFFICES ASSUME TypeInv PROVE (ResolvePhase \/ CleanRollback \/ WriteGoal) => TypeInv'
  OBVIOUS
<1>1. ASSUME ResolvePhase PROVE TypeInv'
  <2>0. mem \in Journal /\ pc # "idle" BY <1>1 DEF ResolvePhase, TypeInv, Held
  <2>1. CASE Refuse BY <2>0, <2>1, RefuseTypes
  <2>2. CASE Goto("cleanup") BY <2>0, <2>2, GotoTypes
  <2>3. CASE Goto("terminal") BY <2>0, <2>3, GotoTypes
  <2>4. ASSUME WriteJournal([mem EXCEPT !.pers = "Committed"], "terminal"),
               UNCHANGED <<tree, left>>
        PROVE  TypeInv'
    <3>1. [mem EXCEPT !.pers = "Committed"] \in Journal
      BY <2>0 DEF Journal, Persistence
    <3> QED BY <2>0, <2>4, <3>1, WriteTypes DEF TypeInv, TypeOK
  <2>5. ASSUME pc' = "restore", left' = {m \in Members : ~IsBefore(mem, m)},
               UNCHANGED <<tree, fence, jr, undo, receipts, call, run, mem, env, faults>>
        PROVE  TypeInv'
    <3>1. left' \subseteq Members BY <2>5
    <3> QED BY <2>0, <2>5, <3>1 DEF TypeInv, TypeOK, Held
  <2> QED BY <1>1, <2>1, <2>2, <2>3, <2>4, <2>5 DEF ResolvePhase
<1>2. ASSUME CleanRollback PROVE TypeInv'
  <2> DEFINE staged == {m \in Members : mem.rstg[m] # 0}
             n == First(staged)
  <2>0. mem \in Journal /\ pc = "cleanup" BY <1>2 DEF CleanRollback, TypeInv, Held
  <2>1. CASE staged = {}
    <3>1. WriteJournal([mem EXCEPT !.ready = FALSE], "goal") /\ UNCHANGED <<tree, left>>
      BY <1>2, <2>1 DEF CleanRollback
    <3>2. [mem EXCEPT !.ready = FALSE] \in Journal BY <2>0 DEF Journal
    <3> QED BY <2>0, <3>1, <3>2, WriteTypes DEF TypeInv, TypeOK
  <2>2. CASE staged # {}
    <3>0. staged \in SUBSET Members OBVIOUS
    <3>1. n \in Members
      <4> HIDE DEF staged
      <4> QED BY <2>2, <3>0, FirstIsMember
    <3>2. ASSUME NEW j \in Journal, WriteJournal(j, pc) /\ UNCHANGED <<tree, left>> PROVE TypeInv'
      BY <2>0, <3>2, WriteTypes DEF TypeInv, TypeOK
    <3>3. /\ [mem EXCEPT !.rlnk[n] = FALSE] \in Journal
          /\ [mem EXCEPT !.rstg[n] = 0, !.rlnk[n] = FALSE] \in Journal
      <4> HIDE DEF n
      <4> QED BY <2>0, <3>1, ZeroIno, JournalEdits
    <3>4. CASE rbk[n] # 0 /\ mem.rlnk[n]
      <4>1. WriteJournal([mem EXCEPT !.rlnk[n] = FALSE], pc) /\ UNCHANGED <<tree, left>>
        BY <1>2, <2>2, <3>4 DEF CleanRollback
      <4> QED BY <3>2, <3>3, <4>1
    <3>5. CASE rbk[n] # 0 /\ ~mem.rlnk[n]
      <4>1. rbk' = [rbk EXCEPT ![n] = 0] /\ UNCHANGED <<files, fwd, left>> /\ TreeStep(pc)
        BY <1>2, <2>2, <3>5 DEF CleanRollback
      <4>2. rbk' \in [Members -> OptIno]
        <5> HIDE DEF n
        <5> QED BY <3>1, <4>1, ZeroIno DEF TypeInv, TypeOK
      <4> QED BY <2>0, <4>1, <4>2, TreeTypes DEF TypeInv, TypeOK
    <3>6. CASE rbk[n] = 0
      <4>1. \/ Refuse
            \/ /\ WriteJournal([mem EXCEPT !.rstg[n] = 0, !.rlnk[n] = FALSE], pc)
               /\ UNCHANGED <<tree, left>>
        BY <1>2, <2>2, <3>6 DEF CleanRollback
      <4> QED BY <2>0, <3>2, <3>3, <4>1, RefuseTypes
    <3> QED BY <3>4, <3>5, <3>6
  <2> QED BY <2>1, <2>2
<1>3. ASSUME WriteGoal PROVE TypeInv'
  <2>0. mem \in Journal /\ pc = "goal" BY <1>3 DEF WriteGoal, TypeInv, Held
  <2>1. Goal(mem) \in Phases BY DEF Goal, Phases
  <2>2. (IF Goal(mem) = "Aborted" THEN "Aborted" ELSE "Committed") \in Persistence
    BY DEF Persistence
  <2>3. (Goal(mem) = "RolledBack") \in BOOLEAN OBVIOUS
  <2> DEFINE j == [mem EXCEPT !.phase = Goal(mem),
                     !.pers = IF Goal(mem) = "Aborted" THEN "Aborted" ELSE "Committed",
                     !.restored = (Goal(mem) = "RolledBack")]
  <2>4. j \in Journal BY <2>0, <2>1, <2>2, <2>3, JournalPhases
  <2>5. WriteJournal(j, "terminal") /\ UNCHANGED <<tree, left>> BY <1>3 DEF WriteGoal
  <2> HIDE DEF j
  <2> QED BY <2>0, <2>4, <2>5, WriteTypes DEF TypeInv, TypeOK
<1> QED BY <1>1, <1>2, <1>3

\* restore_members.
LEMMA RestoreTypes ==
    TypeInv /\ (Restore \/ RestoreSwap \/ RestoreDone) => TypeInv'
<1> SUFFICES ASSUME TypeInv PROVE (Restore \/ RestoreSwap \/ RestoreDone) => TypeInv'
  OBVIOUS
<1>0. left # {} => First(left) \in Members
  BY FirstIsMember DEF TypeInv, TypeOK
<1>1. ASSUME Restore PROVE TypeInv'
  <2> DEFINE n == First(left)
             explicit == mem.phase = "RollingBack"
  <2>0. mem \in Journal /\ pc = "restore" BY <1>1 DEF Restore, TypeInv, Held
  <2>1. CASE Refuse BY <2>0, <2>1, RefuseTypes
  <2>2. CASE left = {} /\ ~Refuse
    <3> DEFINE j == [mem EXCEPT
                       !.phase = IF explicit THEN "RollbackCleanup" ELSE "AbortCleanup",
                       !.pers = IF explicit THEN "Committed" ELSE "Aborted",
                       !.restored = explicit,
                       !.ready = FALSE]
    <3>1. WriteJournal(j, "cleanup") /\ UNCHANGED <<tree, left>>
      BY <1>1, <2>2 DEF Restore
    <3>2. j \in Journal
      <4>1. (IF explicit THEN "RollbackCleanup" ELSE "AbortCleanup") \in Phases BY DEF Phases
      <4>2. (IF explicit THEN "Committed" ELSE "Aborted") \in Persistence BY DEF Persistence
      <4>3. explicit \in BOOLEAN /\ FALSE \in BOOLEAN OBVIOUS
      <4> QED BY <2>0, <4>1, <4>2, <4>3, JournalPhases
    <3> HIDE DEF j
    <3> QED BY <2>0, <3>1, <3>2, WriteTypes DEF TypeInv, TypeOK
  <2>3. CASE left # {} /\ ~Refuse
    <3>1. n \in Members BY <1>0, <2>3
    <3>2. CASE mem.before[n] = None
      <4>1. /\ files' = [files EXCEPT ![n] = [val |-> None, ino |-> 0]]
            /\ left' = left \ {n}
            /\ UNCHANGED <<fwd, rbk>> /\ TreeStep(pc)
        BY <1>1, <2>3, <3>2 DEF Restore
      <4> HIDE DEF n
      <4>2. files' \in [Members -> [val : OptVal, ino : OptIno]]
        BY <3>1, <4>1, ZeroIno DEF TypeInv, TypeOK, OptVal
      <4>3. left' \in SUBSET Members BY <4>1 DEF TypeInv, TypeOK
      <4> QED BY <2>0, <4>1, <4>2, <4>3, TreeTypes DEF TypeInv, TypeOK
    <3>3. CASE mem.before[n] # None
      <4>1. WriteJournal([mem EXCEPT !.rest[n] = rbk[n]], "swap") /\ UNCHANGED <<tree, left>>
        BY <1>1, <2>3, <3>3 DEF Restore
      <4> HIDE DEF n
      <4>2. rbk[n] \in OptIno BY <3>1 DEF TypeInv, TypeOK
      <4>3. [mem EXCEPT !.rest[n] = rbk[n]] \in Journal BY <2>0, <3>1, <4>2, JournalEdits
      <4> QED BY <2>0, <2>3, <4>1, <4>3, WriteTypes DEF TypeInv, TypeOK
    <3> QED BY <3>2, <3>3
  <2> QED BY <2>1, <2>2, <2>3
<1>2. ASSUME RestoreSwap PROVE TypeInv'
  <2> DEFINE n == First(left)
  <2>0. mem \in Journal /\ pc = "swap" /\ left # {} BY <1>2 DEF RestoreSwap, TypeInv, Held
  <2>1. n \in Members BY <1>0, <2>0
  <2>2. /\ files' = [files EXCEPT ![n] = [val |-> mem.before[n], ino |-> rbk[n]]]
        /\ rbk' = [rbk EXCEPT ![n] = 0]
        /\ UNCHANGED <<fwd, left>> /\ TreeStep("restored")
    BY <1>2 DEF RestoreSwap
  <2> HIDE DEF n
  <2>3. mem.before[n] \in OptVal BY <2>0, <2>1 DEF Journal
  <2>4. files' \in [Members -> [val : OptVal, ino : OptIno]]
    BY <2>1, <2>2, <2>3 DEF TypeInv, TypeOK
  <2>5. rbk' \in [Members -> OptIno] BY <2>1, <2>2, ZeroIno DEF TypeInv, TypeOK
  <2> QED BY <2>0, <2>2, <2>4, <2>5, TreeTypes DEF TypeInv, TypeOK
<1>3. ASSUME RestoreDone PROVE TypeInv'
  <2> DEFINE n == First(left)
  <2>0. mem \in Journal /\ pc = "restored" /\ left # {} BY <1>3 DEF RestoreDone, TypeInv, Held
  <2>1. n \in Members BY <1>0, <2>0
  <2>2. /\ WriteJournal([mem EXCEPT !.rstg[n] = 0, !.rlnk[n] = FALSE], "restore")
        /\ left' = left \ {n} /\ UNCHANGED tree
    BY <1>3 DEF RestoreDone
  <2> HIDE DEF n
  <2>3. [mem EXCEPT !.rstg[n] = 0, !.rlnk[n] = FALSE] \in Journal
    BY <2>0, <2>1, ZeroIno, JournalEdits
  <2>4. left' \in SUBSET Members BY <2>2 DEF TypeInv, TypeOK
  <2> QED BY <2>0, <2>2, <2>3, <2>4, WriteTypes
<1> QED BY <1>1, <1>2, <1>3

-----------------------------------------------------------------------------
\* The terminal steps and commit()'s error path.
LEMMA TerminalTypes ==
    TypeInv /\ (Terminalize \/ WriteReceipt \/ FailJournal \/ FailReceipt) => TypeInv'
<1> SUFFICES ASSUME TypeInv PROVE
      (Terminalize \/ WriteReceipt \/ FailJournal \/ FailReceipt) => TypeInv'
  OBVIOUS
<1>0. ASSUME mem \in Journal PROVE mem.req \in Requests BY <1>0 DEF Journal
<1>1. ASSUME Terminalize PROVE TypeInv'
  <2>0. mem \in Journal /\ pc = "terminal" BY <1>1 DEF Terminalize, TypeInv, Held
  <2>1. CASE Refuse BY <2>0, <2>1, RefuseTypes
  <2>2. CASE ~Refuse BY <1>1, <2>0, <2>2 DEF TypeInv, TypeOK, Held, Terminalize
  <2> QED BY <2>1, <2>2
<1>2. ASSUME WriteReceipt PROVE TypeInv'
  <2>0. mem \in Journal /\ mem.req \in Requests /\ pc = "receipt"
    BY <1>0, <1>2 DEF WriteReceipt, TypeInv, Held
  <2>1. TerminalReceipt(mem, receipts[mem.req]) \in Receipt
    BY <2>0, TerminalReceiptType DEF TypeInv, TypeOK
  <2>2. receipts' \in [Requests -> Receipt \cup {NoReceipt}]
    BY <1>2, <2>0, <2>1 DEF WriteReceipt, TypeInv, TypeOK
  <2> QED BY <1>2, <2>0, <2>2 DEF TypeInv, TypeOK, Held, WriteReceipt, Release
<1>3. ASSUME FailJournal PROVE TypeInv'
  <2>0. mem \in Journal /\ pc = "failjournal" BY <1>3 DEF FailJournal, TypeInv, Held
  <2>1. Uncertain(mem) \in Journal BY <2>0 DEF Uncertain, Journal, Persistence
  <2> QED BY <1>3, <2>0, <2>1 DEF TypeInv, TypeOK, Held, FailJournal
<1>4. ASSUME FailReceipt PROVE TypeInv'
  <2>0. mem \in Journal /\ mem.req \in Requests /\ pc = "failreceipt"
    BY <1>0, <1>4 DEF FailReceipt, TypeInv, Held
  <2>1. [pers |-> mem.pers, restored |-> mem.restored, settled |-> FALSE, old |-> FALSE]
          \in Receipt
    BY <2>0 DEF Journal, Receipt
  <2>2. receipts' \in [Requests -> Receipt \cup {NoReceipt}]
    BY <1>4, <2>0, <2>1 DEF FailReceipt, TypeInv, TypeOK
  <2> QED BY <1>4, <2>0, <2>2 DEF TypeInv, TypeOK, Held, FailReceipt, Release
<1> QED BY <1>1, <1>2, <1>3, <1>4

\* The operations that answer from the ledger and the undo store.
LEMMA OperationTypes ==
    TypeInv /\ (ReturnRefused \/ Lookup \/ Complete \/ Finalize \/ RollbackOpen
                \/ RollbackBegin \/ \E r \in Requests : ExpireReceipt(r)) => TypeInv'
<1> SUFFICES ASSUME TypeInv PROVE
      (ReturnRefused \/ Lookup \/ Complete \/ Finalize \/ RollbackOpen
         \/ RollbackBegin \/ \E r \in Requests : ExpireReceipt(r)) => TypeInv'
  OBVIOUS
<1>0. ASSUME pc = "op" PROVE call.req \in Requests BY <1>0 DEF TypeInv, Held
<1>1. ASSUME ReturnRefused PROVE TypeInv' BY <1>1, ReturnTypes DEF ReturnRefused
<1>2. ASSUME Lookup PROVE TypeInv'
  <2> DEFINE r == call.req
  <2>0. r \in Requests /\ pc = "op" BY <1>0, <1>2 DEF Lookup
  <2>1. CASE Return BY <2>1, ReturnTypes
  <2>2. CASE Refuse BY <2>0, <2>2, RefuseTypes
  <2>3. CASE Goto("admit") BY <2>0, <2>3, GotoTypes
  <2>4. ASSUME undo[r] # NoJournal,
               \/ receipts' = receipts
               \/ receipts' = [receipts EXCEPT ![r] = TerminalReceipt(undo[r], receipts[r])],
               Release,
               UNCHANGED <<tree, fence, jr, undo, env, faults>>
        PROVE  TypeInv'
    <3>1. TerminalReceipt(undo[r], receipts[r]) \in Receipt
      BY <2>0, <2>4, TerminalReceiptType DEF TypeInv, TypeOK
    <3>2. receipts' \in [Requests -> Receipt \cup {NoReceipt}]
      BY <2>0, <2>4, <3>1 DEF TypeInv, TypeOK
    <3> QED BY <2>4, <3>2 DEF TypeInv, TypeOK, Held, Release
  <2> QED BY <1>2, <2>1, <2>2, <2>3, <2>4 DEF Lookup
<1>3. ASSUME Complete PROVE TypeInv'
  <2> DEFINE r == call.req
  <2>0. r \in Requests BY <1>0, <1>3 DEF Complete
  <2>1. ASSUME Terminal(receipts[r]) PROVE [receipts[r] EXCEPT !.settled = TRUE] \in Receipt
    <3>1. receipts[r] \in Receipt BY <2>0, <2>1 DEF Terminal, TypeInv, TypeOK
    <3> QED BY <3>1 DEF Receipt
  <2>2. receipts' \in [Requests -> Receipt \cup {NoReceipt}]
    BY <1>3, <2>0, <2>1 DEF Complete, TypeInv, TypeOK
  <2> QED BY <1>3, <2>2 DEF TypeInv, TypeOK, Held, Complete, Release
<1>4. ASSUME Finalize PROVE TypeInv'
  BY <1>0, <1>4 DEF TypeInv, TypeOK, Held, Finalize, Release
<1>5. ASSUME RollbackOpen PROVE TypeInv'
  <2>0. call.req \in Requests /\ pc = "op" BY <1>0, <1>5 DEF RollbackOpen
  <2>1. CASE Return BY <2>1, ReturnTypes
  <2>2. CASE Refuse BY <2>0, <2>2, RefuseTypes
  <2>3. CASE ~Return /\ ~Refuse
    <3>1. undo[call.req] \in Journal
      BY <1>5, <2>0, <2>3 DEF RollbackOpen, TypeInv, TypeOK
    <3> QED BY <1>5, <2>0, <2>3, <3>1 DEF TypeInv, TypeOK, Held, RollbackOpen
  <2> QED BY <2>1, <2>2, <2>3
<1>6. ASSUME RollbackBegin PROVE TypeInv'
  <2>0. mem \in Journal /\ pc = "rollback" BY <1>6 DEF RollbackBegin, TypeInv, Held
  <2>1. [mem EXCEPT !.phase = "RollingBack", !.ready = FALSE] \in Journal
    BY <2>0 DEF Journal, Phases
  <2> QED BY <1>6, <2>0, <2>1, WriteTypes DEF RollbackBegin, TypeInv, TypeOK
<1>7. ASSUME NEW r \in Requests, ExpireReceipt(r) PROVE TypeInv'
  <2>1. /\ undo' \in [Requests -> Journal \cup {NoJournal}]
        /\ receipts' \in [Requests -> Receipt \cup {NoReceipt}]
    BY <1>7 DEF ExpireReceipt, TypeInv, TypeOK
  <2> QED BY <1>7, <2>1 DEF TypeInv, TypeOK, Held, ExpireReceipt
<1> QED BY <1>1, <1>2, <1>3, <1>4, <1>5, <1>6, <1>7

\* prepare, up to the pending record.
LEMMA PrepareTypes ==
    TypeInv /\ (Admit \/ PublishFence \/ WriteSetup \/ WritePrepared \/ PublishReceipt)
      => TypeInv'
<1> SUFFICES ASSUME TypeInv PROVE
      (Admit \/ PublishFence \/ WriteSetup \/ WritePrepared \/ PublishReceipt) => TypeInv'
  OBVIOUS
<1>1. ASSUME Admit PROVE TypeInv'
  <2>0. call.req \in Requests /\ pc = "admit" BY <1>1 DEF Admit, TypeInv, Held
  <2>1. SetupJournal(call.req) \in Journal
    <3>1. Vals \in [Members -> OptVal] BY DEF TypeInv, TypeOK, Vals
    <3>2. [m \in Members |-> files[m].ino] \in [Members -> OptIno] BY DEF TypeInv, TypeOK
    <3>3. [m \in Members |-> 0] \in [Members -> OptIno] BY ZeroIno
    <3>4. [m \in Members |-> FALSE] \in [Members -> BOOLEAN] OBVIOUS
    <3>5. "Setup" \in Phases /\ "Prepared" \in Persistence BY DEF Phases, Persistence
    <3> QED BY <2>0, <3>1, <3>2, <3>3, <3>4, <3>5 DEF SetupJournal, Journal
  <2>2. CASE Return BY <2>2, ReturnTypes
  <2>3. CASE ~Return BY <1>1, <2>0, <2>1, <2>3 DEF TypeInv, TypeOK, Held, Admit
  <2> QED BY <2>2, <2>3
<1>2. ASSUME PublishFence PROVE TypeInv'
  BY <1>2 DEF TypeInv, TypeOK, Held, PublishFence
<1>3. ASSUME WriteSetup PROVE TypeInv'
  BY <1>3 DEF TypeInv, TypeOK, Held, WriteSetup
<1>4. ASSUME WritePrepared PROVE TypeInv'
  <2>0. mem \in Journal /\ pc = "blobs" BY <1>4 DEF WritePrepared, TypeInv, Held
  <2>1. [mem EXCEPT !.phase = "Prepared"] \in Journal BY <2>0 DEF Journal, Phases
  <2> QED BY <1>4, <2>0, <2>1, WriteTypes DEF WritePrepared, TypeInv, TypeOK
<1>5. ASSUME PublishReceipt PROVE TypeInv'
  <2>0. mem \in Journal /\ mem.req \in Requests
    BY <1>5 DEF PublishReceipt, TypeInv, Held, Journal
  <2>1. [pers |-> "Prepared", restored |-> FALSE, settled |-> FALSE, old |-> FALSE] \in Receipt
    BY DEF Receipt, Persistence
  <2>2. receipts' \in [Requests -> Receipt \cup {NoReceipt}]
    BY <1>5, <2>0, <2>1 DEF PublishReceipt, TypeInv, TypeOK
  <2> QED BY <1>5, <2>0, <2>2 DEF TypeInv, TypeOK, Held, PublishReceipt
<1> QED BY <1>1, <1>2, <1>3, <1>4, <1>5

\* commit(): rollback copies, then promotion.
LEMMA CommitTypes ==
    TypeInv /\ (StageRollback \/ Promote \/ PromoteDone) => TypeInv'
<1> SUFFICES ASSUME TypeInv PROVE (StageRollback \/ Promote \/ PromoteDone) => TypeInv'
  OBVIOUS
<1>0. left # {} => First(left) \in Members
  BY FirstIsMember DEF TypeInv, TypeOK
<1>1. ASSUME StageRollback PROVE TypeInv'
  <2> DEFINE todo == {m \in Destructive(mem) : ~mem.rlnk[m]}
             n == First(todo)
  <2>0. mem \in Journal /\ pc = "stage" BY <1>1 DEF StageRollback, TypeInv, Held
  <2>1. CASE todo = {}
    <3>1. /\ WriteJournal([mem EXCEPT !.ready = TRUE], IF run = "commit" THEN "promote" ELSE "phase")
          /\ UNCHANGED tree
          /\ left' = IF run = "commit" THEN Members ELSE {}
      BY <1>1, <2>1 DEF StageRollback
    <3>2. [mem EXCEPT !.ready = TRUE] \in Journal BY <2>0 DEF Journal
    <3>3. left' \in SUBSET Members BY <3>1
    <3> QED BY <2>0, <3>1, <3>2, <3>3, WriteTypes
  <2>2. CASE todo # {} /\ ~Refuse
    <3>0. todo \in SUBSET Members BY DEF Destructive
    <3>1. n \in Members
      <4> HIDE DEF todo
      <4> QED BY <2>2, <3>0, FirstIsMember
    <3>2. ASSUME NEW j \in Journal, WriteJournal(j, pc), UNCHANGED <<tree, left>> PROVE TypeInv'
      BY <2>0, <3>2, WriteTypes DEF TypeInv, TypeOK
    <3>3. CASE mem.rstg[n] = 0
      <4>1. PICK i \in Inodes : /\ WriteJournal([mem EXCEPT !.rstg[n] = i], pc)
                                /\ UNCHANGED <<tree, left>>
        BY <1>1, <2>2, <3>3 DEF StageRollback
      <4>2. i \in OptIno BY DEF Inodes, OptIno
      <4>3. [mem EXCEPT !.rstg[n] = i] \in Journal
        <5> HIDE DEF n
        <5> QED BY <2>0, <3>1, <4>2, JournalEdits
      <4> QED BY <3>2, <4>1, <4>3
    <3>4. CASE mem.rstg[n] # 0 /\ rbk[n] = 0
      <4>1. /\ rbk' = [rbk EXCEPT ![n] = mem.rstg[n]]
            /\ UNCHANGED <<files, fwd, left>> /\ TreeStep(pc)
        BY <1>1, <2>2, <3>4 DEF StageRollback
      <4>2. rbk' \in [Members -> OptIno]
        <5>1. mem.rstg \in [Members -> OptIno] BY <2>0 DEF Journal
        <5> HIDE DEF n
        <5> QED BY <3>1, <4>1, <5>1 DEF TypeInv, TypeOK
      <4> QED BY <2>0, <4>1, <4>2, TreeTypes DEF TypeInv, TypeOK
    <3>5. CASE mem.rstg[n] # 0 /\ rbk[n] # 0
      <4>1. WriteJournal([mem EXCEPT !.rlnk[n] = TRUE], pc) /\ UNCHANGED <<tree, left>>
        BY <1>1, <2>2, <3>5 DEF StageRollback
      <4>2. [mem EXCEPT !.rlnk[n] = TRUE] \in Journal
        <5> HIDE DEF n
        <5> QED BY <2>0, <3>1, ZeroIno, JournalEdits
      <4> QED BY <3>2, <4>1, <4>2
    <3> QED BY <3>3, <3>4, <3>5
  <2>3. CASE Refuse BY <2>0, <2>3, RefuseTypes
  <2> QED BY <2>1, <2>2, <2>3
<1>2. ASSUME Promote PROVE TypeInv'
  <2> DEFINE n == First(left)
             op == Operation(mem, n)
  <2>0. mem \in Journal /\ pc = "promote" BY <1>2 DEF Promote, TypeInv, Held
  <2>1. CASE Refuse BY <2>0, <2>1, RefuseTypes
  <2>2. CASE left = {} /\ ~Refuse
    <3>1. /\ WriteJournal([mem EXCEPT !.phase = "Committing", !.pers = "Committed"], "cleanup")
          /\ UNCHANGED <<tree, left>>
      BY <1>2, <2>2 DEF Promote
    <3>2. [mem EXCEPT !.phase = "Committing", !.pers = "Committed"] \in Journal
      BY <2>0 DEF Journal, Phases, Persistence
    <3> QED BY <2>0, <3>1, <3>2, WriteTypes DEF TypeInv, TypeOK
  <2>3. CASE left # {} /\ ~Refuse
    <3>1. n \in Members BY <1>0, <2>3
    <3>2. left \in SUBSET Members /\ left \ {n} \in SUBSET Members BY DEF TypeInv, TypeOK
    <3>3. CASE mem.prom[n] # 0 /\ fwd[n] = 0
      <4>1. /\ fwd' = [fwd EXCEPT ![n] = mem.prom[n]]
            /\ UNCHANGED <<files, rbk, left>> /\ TreeStep(pc)
        BY <1>2, <2>3, <3>3 DEF Promote
      <4>2. fwd' \in [Members -> OptIno]
        <5>1. mem.prom \in [Members -> OptIno] BY <2>0 DEF Journal
        <5> HIDE DEF n
        <5> QED BY <3>1, <4>1, <5>1 DEF TypeInv, TypeOK
      <4> QED BY <2>0, <4>1, <4>2, TreeTypes DEF TypeInv, TypeOK
    <3>4. CASE ~(mem.prom[n] # 0 /\ fwd[n] = 0)
      <4>0. IsBefore(mem, n) BY <1>2, <2>3, <3>4 DEF Promote
      <4>1. CASE mem.prom[n] = 0 /\ op = "none"
        <5>1. left' = left \ {n} /\ UNCHANGED tree /\ TreeStep(pc)
          BY <1>2, <2>3, <4>0, <4>1 DEF Promote, Published
        <5> QED BY <2>0, <3>2, <5>1, TreeTypes DEF TypeInv, TypeOK
      <4>2. CASE mem.prom[n] = 0 /\ op = "delete"
        <5>1. /\ files' = [files EXCEPT ![n] = [val |-> None, ino |-> 0]]
              /\ left' = left \ {n}
              /\ UNCHANGED <<fwd, rbk>> /\ TreeStep(pc)
          BY <1>2, <2>3, <4>0, <4>2 DEF Promote, Published
        <5>2. files' \in [Members -> [val : OptVal, ino : OptIno]]
          <6> HIDE DEF n
          <6> QED BY <3>1, <5>1, ZeroIno DEF TypeInv, TypeOK, OptVal
        <5> QED BY <2>0, <3>2, <5>1, <5>2, TreeTypes DEF TypeInv, TypeOK
      <4>3. CASE mem.prom[n] = 0 /\ op \notin {"none", "delete"}
        <5>1. n \in Published(mem) BY <3>1, <4>3 DEF Published, Operation
        <5>2. PICK i \in Inodes : /\ WriteJournal([mem EXCEPT !.prom[n] = i, !.lstg[n] = i], pc)
                                  /\ UNCHANGED <<tree, left>>
          BY <1>2, <2>3, <4>0, <4>3, <5>1 DEF Promote
        <5>3. i \in OptIno BY DEF Inodes, OptIno
        <5>4. [mem EXCEPT !.prom[n] = i, !.lstg[n] = i] \in Journal
          <6> HIDE DEF n
          <6> QED BY <2>0, <3>1, <5>3, JournalEdits
        <5> QED BY <2>0, <5>2, <5>4, WriteTypes DEF TypeInv, TypeOK
      <4>4. CASE mem.prom[n] # 0 /\ fwd[n] # 0
        <5>1. /\ files' = [files EXCEPT ![n] = [val |-> After(mem, n), ino |-> fwd[n]]]
              /\ fwd' = [fwd EXCEPT ![n] = 0]
              /\ UNCHANGED <<rbk, left>> /\ TreeStep("promoted")
          BY <1>2, <2>3, <4>0, <4>4 DEF Promote
        <5>2. After(mem, n) \in OptVal BY <2>0, <3>1 DEF After, Journal
        <5>3. files' \in [Members -> [val : OptVal, ino : OptIno]]
          <6> HIDE DEF n
          <6> QED BY <3>1, <5>1, <5>2 DEF TypeInv, TypeOK
        <5>4. fwd' \in [Members -> OptIno]
          <6> HIDE DEF n
          <6> QED BY <3>1, <5>1, ZeroIno DEF TypeInv, TypeOK
        <5> QED BY <2>0, <2>3, <3>2, <5>1, <5>3, <5>4, TreeTypes DEF TypeInv, TypeOK
      <4> QED BY <3>4, <4>1, <4>2, <4>3, <4>4
    <3> QED BY <3>3, <3>4
  <2> QED BY <2>1, <2>2, <2>3
<1>3. ASSUME PromoteDone PROVE TypeInv'
  <2> DEFINE n == First(left)
  <2>0. mem \in Journal /\ pc = "promoted" /\ left # {} BY <1>3 DEF PromoteDone, TypeInv, Held
  <2>1. n \in Members BY <1>0, <2>0
  <2>2. /\ WriteJournal([mem EXCEPT !.lstg[n] = 0], "promote")
        /\ left' = left \ {n} /\ UNCHANGED tree
    BY <1>3 DEF PromoteDone
  <2> HIDE DEF n
  <2>3. [mem EXCEPT !.lstg[n] = 0] \in Journal
    BY <2>0, <2>1, ZeroIno, JournalEdits
  <2>4. left' \in SUBSET Members BY <2>2 DEF TypeInv, TypeOK
  <2> QED BY <2>0, <2>2, <2>3, <2>4, WriteTypes
<1> QED BY <1>1, <1>2, <1>3

LEMMA NextTypes == TypeInv /\ [Next]_vars => TypeInv'
<1> SUFFICES ASSUME TypeInv, [Next]_vars PROVE TypeInv' OBVIOUS
<1>1. CASE UNCHANGED vars BY <1>1 DEF TypeInv, TypeOK, Held, vars
<1>2. CASE Caller
  BY <1>2, RecoveryTypes, CleanupTypes, RestoreTypes, TerminalTypes, OperationTypes,
     PrepareTypes, CommitTypes DEF Caller
<1>3. CASE Next /\ ~Caller BY <1>3, EnvironmentTypes DEF Next
<1> QED BY <1>1, <1>2, <1>3

\* The transaction never leaves its types, whatever crashes and I/O errors do:
\* in particular the record in the ledger is always one of the four
\* persistence states and every journal on disk is complete.
THEOREM PolicyTypes == Spec => []TypeOK
<1>1. TypeInv => TypeOK BY DEF TypeInv
<1> QED BY <1>1, InitTypes, NextTypes, PTL DEF Spec

-----------------------------------------------------------------------------
(***************************************************************************)
(* No staging name outlives its transaction, for every tree and every      *)
(* pattern of crashes and I/O errors (NoOrphans).                          *)
(*                                                                         *)
(* The argument: every linked staging name is owned by a receipt in the    *)
(* journal that is on disk (Owned), because a receipt is journaled before  *)
(* its link and cleared after its unlink, and the fence is only taken down *)
(* once the journal holds no receipt.  The journal on disk and the         *)
(* caller's copy agree while it works (Synced), and after a failed write   *)
(* the copy, which the error path then saves, still owns every name        *)
(* (CopyOwns).                                                             *)
(***************************************************************************)

Clear(names) == \A m \in Members : names[m] = 0

Owned ==
    /\ fence # "journal" => Clear(fwd) /\ Clear(rbk)
    /\ fence = "journal" => \A m \in Members :
          (fwd[m] # 0 => jr.lstg[m] # 0) /\ (rbk[m] # 0 => jr.rstg[m] # 0)

SyncedSteps == {"blobs", "prepared", "stage", "promote", "promoted", "cleanup", "goal",
                "terminal", "rollback", "staging", "phase", "restore", "swap", "restored"}
Synced ==
    /\ pc \in SyncedSteps => fence = "journal" /\ jr = mem
    /\ pc \in {"op", "admit", "receipt"} => fence = "none"
    /\ pc = "unstage" => fence # "journal"
    /\ pc \in {"idle", "recover"} => run = "recover"

CopyOwns ==
    pc \in {"failed", "failjournal"} => \A m \in Members :
       (fwd[m] # 0 => mem.lstg[m] # 0) /\ (rbk[m] # 0 => mem.rstg[m] # 0)

\* Which names may still be linked at which step.
Progress ==
    /\ pc \in SyncedSteps \ {"staging", "promote"} => Clear(fwd)
    /\ pc = "promote" => \A m \in Members : fwd[m] # 0 =>
          left # {} /\ m = First(left) /\ mem.prom[m] # 0
    /\ pc \in {"blobs", "prepared", "rollback", "goal", "terminal"} => Clear(rbk)
    /\ pc = "restored" => rbk[First(left)] = 0
    /\ pc \in {"blobs", "prepared", "stage"} => mem.phase \notin TerminalPhases
    /\ pc \in {"prepared", "stage"} => mem.phase # "Setup"
    /\ pc = "rollback" => run = "rollback"
    /\ pc \in {"fence", "setup", "blobs", "prepared"} => Clear(mem.prom)
    /\ pc = "stage" /\ run = "commit" => Clear(mem.prom)
    /\ pc \in {"promote", "promoted"} => \A m \in left : mem.prom[m] # 0 => mem.lstg[m] # 0
    /\ pc \in {"fence", "setup"} => mem.phase = "Setup" /\ fence \in {"stage", "bare"}
    /\ pc \in {"staging", "phase"} =>
          mem.phase # "Setup" /\ (mem.phase \in TerminalPhases => Clear(rbk))

StagingInv == Owned /\ Synced /\ CopyOwns /\ Progress

-----------------------------------------------------------------------------
USE DEF SyncedSteps, Clear

\* What the journal edits do to the fields the invariant speaks of.
LEMMA EditFields ==
    ASSUME NEW j \in Journal, NEW n \in Members, NEW i \in OptIno
    PROVE  /\ LET k == [j EXCEPT !.lstg[n] = 0]
              IN  k.lstg = [j.lstg EXCEPT ![n] = 0] /\ k.rstg = j.rstg /\ k.phase = j.phase
                    /\ k.prom = j.prom
           /\ LET k == [j EXCEPT !.rlnk[n] = FALSE]
              IN  k.lstg = j.lstg /\ k.rstg = j.rstg /\ k.phase = j.phase
           /\ LET k == [j EXCEPT !.rlnk[n] = TRUE]
              IN  k.lstg = j.lstg /\ k.rstg = j.rstg /\ k.phase = j.phase
           /\ LET k == [j EXCEPT !.rstg[n] = 0, !.rlnk[n] = FALSE]
              IN  k.lstg = j.lstg /\ k.rstg = [j.rstg EXCEPT ![n] = 0] /\ k.phase = j.phase
           /\ LET k == [j EXCEPT !.rstg[n] = i]
              IN  k.lstg = j.lstg /\ k.rstg = [j.rstg EXCEPT ![n] = i] /\ k.phase = j.phase
           /\ LET k == [j EXCEPT !.rest[n] = i]
              IN  k.lstg = j.lstg /\ k.rstg = j.rstg /\ k.phase = j.phase
           /\ LET k == [j EXCEPT !.prom[n] = i, !.lstg[n] = i]
              IN  k.lstg = [j.lstg EXCEPT ![n] = i] /\ k.prom = [j.prom EXCEPT ![n] = i]
                    /\ k.rstg = j.rstg /\ k.phase = j.phase
           /\ j.lstg \in [Members -> OptIno] /\ j.rstg \in [Members -> OptIno]
           /\ j.prom \in [Members -> OptIno]
BY DEF Journal

LEMMA InitStaging == Init => StagingInv
BY DEF Init, StagingInv, Owned, Synced, CopyOwns, Progress

\* A failed check during commit() leaves a copy that owns every name.
LEMMA RefuseStaging ==
    ASSUME StagingInv, Refuse, pc \in SyncedSteps \cup {"recover", "op"}
    PROVE  StagingInv'
BY DEF StagingInv, Owned, Synced, CopyOwns, Progress, Refuse

LEMMA ReturnStaging == StagingInv /\ Return => StagingInv'
BY DEF StagingInv, Owned, Synced, CopyOwns, Progress, Return, Release

\* Writing a journal that owns every name, from a step that works on the
\* journal on disk; what the next step expects is left to the caller.
LEMMA WriteStaging ==
    ASSUME StagingInv, NEW j \in Journal, NEW n \in SyncedSteps,
           WriteJournal(j, n), UNCHANGED tree, pc \in SyncedSteps,
           \A m \in Members :
              (fwd[m] # 0 => j.lstg[m] # 0) /\ (rbk[m] # 0 => j.rstg[m] # 0),
           pc' = n => Progress'
    PROVE  StagingInv'
<1>1. Owned' BY DEF StagingInv, Owned, Synced, WriteJournal
<1>2. Synced' BY DEF StagingInv, Owned, Synced, WriteJournal
<1>3. CopyOwns' BY DEF StagingInv, CopyOwns, WriteJournal
<1>4. Progress'
  <2>1. CASE pc' = n BY <2>1
  <2>2. CASE pc' = "failed" BY <2>2 DEF Progress
  <2>3. pc' \in {n, "failed"} BY DEF WriteJournal
  <2> QED BY <2>1, <2>2, <2>3
<1> QED BY <1>1, <1>2, <1>3, <1>4 DEF StagingInv

-----------------------------------------------------------------------------
LEMMA EnvironmentStaging ==
    TypeInv /\ StagingInv
      /\ (\/ \E r \in Requests : Plan(r) \/ Age(r)
          \/ \E op \in Ops, r \in Requests : Begin(op, r)
          \/ \E m \in Members : Edit(m)
          \/ Crash \/ IoError \/ FailSkipCleanup) => StagingInv'
<1> SUFFICES ASSUME TypeInv, StagingInv PROVE
      (\/ \E r \in Requests : Plan(r) \/ Age(r)
       \/ \E op \in Ops, r \in Requests : Begin(op, r)
       \/ \E m \in Members : Edit(m)
       \/ Crash \/ IoError \/ FailSkipCleanup) => StagingInv'
  OBVIOUS
<1> USE DEF StagingInv, Owned, Synced, CopyOwns, Progress
<1>1. ASSUME NEW r \in Requests, Plan(r) PROVE StagingInv' BY <1>1 DEF Plan
<1>2. ASSUME NEW r \in Requests, Age(r) PROVE StagingInv' BY <1>2 DEF Age
<1>3. ASSUME NEW op \in Ops, NEW r \in Requests, Begin(op, r) PROVE StagingInv'
  BY <1>3 DEF Begin
<1>4. ASSUME NEW m \in Members, Edit(m) PROVE StagingInv' BY <1>4 DEF Edit
<1>5. ASSUME Crash PROVE StagingInv' BY <1>5 DEF Crash, Release
<1>6. ASSUME IoError PROVE StagingInv' BY <1>6 DEF IoError
<1>7. ASSUME FailSkipCleanup PROVE StagingInv' BY <1>7 DEF FailSkipCleanup
<1> QED BY <1>1, <1>2, <1>3, <1>4, <1>5, <1>6, <1>7

LEMMA RecoveryStaging ==
    TypeInv /\ StagingInv
      /\ (\/ RecoverStage \/ Reconcile \/ RecoverBare \/ RemoveSetup
          \/ RecoverJournal \/ CleanStaging) => StagingInv'
<1> SUFFICES ASSUME TypeInv, StagingInv PROVE
      (\/ RecoverStage \/ Reconcile \/ RecoverBare \/ RemoveSetup
       \/ RecoverJournal \/ CleanStaging) => StagingInv'
  OBVIOUS
<1>1. ASSUME RecoverStage PROVE StagingInv'
  BY <1>1 DEF StagingInv, Owned, Synced, CopyOwns, Progress, RecoverStage
<1>2. ASSUME Reconcile PROVE StagingInv'
  <2>1. CASE Refuse BY <1>2, <2>1, RefuseStaging DEF Reconcile
  <2>2. CASE ~Refuse
    <3>1. /\ pc = "recover" /\ fence = "none" /\ pc' \in {"recover", "op"}
          /\ UNCHANGED <<tree, fence, jr, run, mem>>
      BY <1>2, <2>2 DEF Reconcile, Goto
    <3> QED BY <3>1 DEF StagingInv, Owned, Synced, CopyOwns, Progress
  <2> QED BY <2>1, <2>2
<1>3. ASSUME RecoverBare PROVE StagingInv'
  BY <1>3 DEF StagingInv, Owned, Synced, CopyOwns, Progress, RecoverBare, Goto
<1>4. ASSUME RemoveSetup PROVE StagingInv'
  BY <1>4 DEF StagingInv, Owned, Synced, CopyOwns, Progress, RemoveSetup
<1>5. ASSUME RecoverJournal PROVE StagingInv'
  <2>0. pc = "recover" /\ fence = "journal" BY <1>5 DEF RecoverJournal
  <2>1. CASE Refuse BY <2>0, <2>1, RefuseStaging
  <2>2. CASE ~Refuse
    <3>1. Decodes(jr) /\ AgreesWithReceipt(jr, receipts[jr.req])
      BY <1>5, <2>2 DEF RecoverJournal
    <3>2. CASE receipts[jr.req] = NoReceipt
      <4>1. Bare(jr) BY <3>1, <3>2 DEF AgreesWithReceipt
      <4>2. Clear(fwd) /\ Clear(rbk) BY <2>0, <4>1 DEF StagingInv, Owned, Bare
      <4>3. fence' = "bare" /\ pc' = "unstage" /\ UNCHANGED tree
        BY <1>5, <2>2, <3>1, <3>2 DEF RecoverJournal
      <4> QED BY <4>2, <4>3 DEF StagingInv, Owned, Synced, CopyOwns, Progress
    <3>3. CASE receipts[jr.req] # NoReceipt
      <4>1. jr.phase # "Setup"
        BY <3>1, <3>3 DEF AgreesWithReceipt, CommittedPhases
      <4>2. jr.phase \in TerminalPhases => Clear(rbk)
        BY <2>0, <3>1 DEF Decodes, StagingInv, Owned
      <4>3. mem' = jr /\ pc' = "staging" /\ UNCHANGED <<tree, fence, jr, run>>
        BY <1>5, <2>2, <3>1, <3>3 DEF RecoverJournal
      <4> QED BY <2>0, <4>1, <4>2, <4>3 DEF StagingInv, Owned, Synced, CopyOwns, Progress
    <3> QED BY <3>2, <3>3
  <2> QED BY <2>1, <2>2
<1>6. ASSUME CleanStaging PROVE StagingInv'
  <2> DEFINE staged == {m \in Members : mem.lstg[m] # 0}
             n == First(staged)
  <2>0. mem \in Journal /\ pc \in {"staging", "failed"} BY <1>6 DEF CleanStaging, TypeInv, Held
  <2>1. CASE staged = {}
    <3>1. /\ pc' = IF pc = "staging" THEN "phase" ELSE "failjournal"
          /\ UNCHANGED <<tree, fence, jr, run, mem>>
      BY <1>6, <2>1 DEF CleanStaging, Goto
    <3>2. pc = "staging" => Clear(fwd)
      BY <2>1 DEF StagingInv, Owned, Synced
    <3> QED BY <2>0, <3>1, <3>2 DEF StagingInv, Owned, Synced, CopyOwns, Progress
  <2>2. CASE staged # {}
    <3>0. staged \in SUBSET Members OBVIOUS
    <3>1. n \in Members
      <4> HIDE DEF staged
      <4> QED BY <2>2, <3>0, FirstIsMember
    <3>2. CASE fwd[n] # 0
      <4>1. fwd' = [fwd EXCEPT ![n] = 0] /\ UNCHANGED <<files, rbk, left>> /\ TreeStep(pc)
        BY <1>6, <2>2, <3>2 DEF CleanStaging
      <4> HIDE DEF n
      <4>2. \A m \in Members : fwd'[m] # 0 => fwd[m] # 0
        BY <3>1, <4>1 DEF TypeInv, TypeOK
      <4> QED BY <2>0, <4>1, <4>2
              DEF StagingInv, Owned, Synced, CopyOwns, Progress, TreeStep
    <3>3. CASE ~(fwd[n] # 0)
      <4> DEFINE j == [mem EXCEPT !.lstg[n] = 0]
      <4>1. WriteJournal(j, pc) /\ UNCHANGED <<tree, left>>
        BY <1>6, <2>2, <3>3 DEF CleanStaging
      <4>2. /\ j.lstg = [mem.lstg EXCEPT ![n] = 0] /\ j.rstg = mem.rstg
            /\ j.phase = mem.phase /\ mem.lstg \in [Members -> OptIno]
        <5> HIDE DEF n
        <5> QED BY <2>0, <3>1, ZeroIno, EditFields
      <4> HIDE DEF n, j
      <4>3. \A m \in Members : j.lstg[m] # mem.lstg[m] => fwd[m] = 0
        BY <3>1, <3>3, <4>2
      <4>4. fence = "journal" => \A m \in Members :
               (fwd[m] # 0 => j.lstg[m] # 0) /\ (rbk[m] # 0 => j.rstg[m] # 0)
        BY <2>0, <4>2, <4>3 DEF StagingInv, Owned, Synced, CopyOwns
      <4>5. /\ mem' = j /\ (jr' = j \/ jr' = jr) /\ UNCHANGED <<fence, run>>
            /\ pc' = pc \/ pc' \in {"failed", "failjournal"}
            /\ pc' = pc => jr' = j \/ pc = "failed"
        BY <2>0, <4>1 DEF WriteJournal
      <4> QED BY <2>0, <4>1, <4>2, <4>4, <4>5
              DEF StagingInv, Owned, Synced, CopyOwns, Progress
    <3> QED BY <3>2, <3>3
  <2> QED BY <2>1, <2>2
<1> QED BY <1>1, <1>2, <1>3, <1>4, <1>5, <1>6

LEMMA CleanupStaging ==
    TypeInv /\ StagingInv /\ (ResolvePhase \/ CleanRollback \/ WriteGoal) => StagingInv'
<1> SUFFICES ASSUME TypeInv, StagingInv
             PROVE  (ResolvePhase \/ CleanRollback \/ WriteGoal) => StagingInv'
  OBVIOUS
<1>1. ASSUME ResolvePhase PROVE StagingInv'
  <2>0. mem \in Journal /\ pc = "phase" BY <1>1 DEF ResolvePhase, TypeInv, Held
  <2>a. mem.phase \in Phases /\ mem.ready \in BOOLEAN BY <2>0 DEF Journal
  <2>b. Owned /\ Clear(fwd) /\ jr = mem /\ fence = "journal"
    BY <2>0 DEF StagingInv, Synced, Progress
  <2>c. mem.phase # "Setup" /\ (mem.phase \in TerminalPhases => Clear(rbk))
    BY <2>0 DEF StagingInv, Progress
  <2>1. CASE Refuse BY <2>0, <2>1, RefuseStaging
  <2>2. CASE pc' \in {"restore", "cleanup"} /\ UNCHANGED <<tree, fence, jr, run, mem>>
    BY <2>b, <2>2 DEF StagingInv, Owned, Synced, CopyOwns, Progress
  <2>3. CASE Goto("terminal") /\ mem.phase \in TerminalPhases
    BY <2>b, <2>c, <2>3 DEF StagingInv, Owned, Synced, CopyOwns, Progress, Goto
  <2>4. ASSUME mem.phase = "Committed", UNCHANGED <<tree, left>>,
               WriteJournal([mem EXCEPT !.pers = "Committed"], "terminal")
        PROVE  StagingInv'
    <3> DEFINE j == [mem EXCEPT !.pers = "Committed"]
    <3>1. j \in Journal /\ j.lstg = mem.lstg /\ j.rstg = mem.rstg /\ j.phase = mem.phase
      BY <2>0 DEF Journal, Persistence
    <3>2. Clear(rbk) BY <2>4, <2>c DEF TerminalPhases
    <3>3. WriteJournal(j, "terminal") BY <2>4
    <3> HIDE DEF j
    <3>4. pc' = "terminal" => Progress' BY <2>4, <2>b, <3>2 DEF Progress
    <3> QED BY <2>0, <2>4, <2>b, <3>1, <3>2, <3>3, <3>4, WriteStaging
  <2>d. Goto("cleanup") => pc' \in {"restore", "cleanup"} /\ UNCHANGED <<tree, fence, jr, run, mem>>
    BY DEF Goto
  <2>5. CASE mem.phase \in {"Aborted", "RolledBack"}
    <3>1. Refuse \/ Goto("terminal") BY <1>1, <2>5 DEF ResolvePhase
    <3> QED BY <2>1, <2>3, <2>5, <3>1 DEF TerminalPhases
  <2>6. CASE mem.phase = "Committed"
    <3>1. \/ Refuse
          \/ /\ WriteJournal([mem EXCEPT !.pers = "Committed"], "terminal")
             /\ UNCHANGED <<tree, left>>
      BY <1>1, <2>6 DEF ResolvePhase
    <3> QED BY <2>1, <2>4, <2>6, <3>1
  <2>7. CASE mem.phase \in Phases \ {"Setup", "Aborted", "RolledBack", "Committed"}
    <3>1. \/ Refuse \/ Goto("cleanup")
          \/ /\ pc' = "restore"
             /\ UNCHANGED <<tree, fence, jr, undo, receipts, call, run, mem, env, faults>>
      <4>1. CASE mem.phase \in {"Prepared", "RollingBack"} /\ mem.ready
        BY <1>1, <4>1 DEF ResolvePhase
      <4>2. CASE \/ mem.phase = "Prepared" /\ ~mem.ready
                 \/ mem.phase \in {"AbortCleanup", "RollbackCleanup"}
        BY <1>1, <4>2 DEF ResolvePhase
      <4>3. CASE mem.phase = "Committing" \/ (mem.phase = "RollingBack" /\ ~mem.ready)
        BY <1>1, <4>3 DEF ResolvePhase
      <4> QED BY <2>7, <2>a, <4>1, <4>2, <4>3 DEF Phases
    <3> QED BY <2>1, <2>2, <2>d, <3>1
  <2> QED BY <2>5, <2>6, <2>7, <2>a, <2>c
<1>2. ASSUME CleanRollback PROVE StagingInv'
  <2> DEFINE staged == {m \in Members : mem.rstg[m] # 0}
             n == First(staged)
  <2>0. mem \in Journal /\ pc = "cleanup" BY <1>2 DEF CleanRollback, TypeInv, Held
  <2>b. Owned /\ Clear(fwd) /\ jr = mem /\ fence = "journal"
    BY <2>0 DEF StagingInv, Synced, Progress
  <2>1. CASE staged = {}
    <3> DEFINE j == [mem EXCEPT !.ready = FALSE]
    <3>1. WriteJournal(j, "goal") /\ UNCHANGED <<tree, left>>
      BY <1>2, <2>1 DEF CleanRollback
    <3>2. j \in Journal /\ j.lstg = mem.lstg /\ j.rstg = mem.rstg BY <2>0 DEF Journal
    <3>3. Clear(rbk) BY <2>1, <2>b DEF Owned
    <3> HIDE DEF j
    <3>4. pc' = "goal" => Progress' BY <2>b, <3>1, <3>3 DEF Progress
    <3> QED BY <2>0, <2>b, <3>1, <3>2, <3>3, <3>4, WriteStaging
  <2>2. CASE staged # {}
    <3>0. staged \in SUBSET Members OBVIOUS
    <3>1. n \in Members
      <4> HIDE DEF staged
      <4> QED BY <2>2, <3>0, FirstIsMember
    <3>2. ASSUME NEW j \in Journal, WriteJournal(j, pc), UNCHANGED <<tree, left>>,
                 \A m \in Members : rbk[m] # 0 => j.rstg[m] # 0
          PROVE  StagingInv'
      <4>1. pc' = "cleanup" => Progress' BY <2>b, <3>2 DEF Progress
      <4> QED BY <2>0, <2>b, <3>2, <4>1, WriteStaging
    <3>3. /\ [mem EXCEPT !.rlnk[n] = FALSE] \in Journal
          /\ [mem EXCEPT !.rlnk[n] = FALSE].rstg = mem.rstg
          /\ [mem EXCEPT !.rstg[n] = 0, !.rlnk[n] = FALSE] \in Journal
          /\ [mem EXCEPT !.rstg[n] = 0, !.rlnk[n] = FALSE].rstg = [mem.rstg EXCEPT ![n] = 0]
          /\ mem.rstg \in [Members -> OptIno]
      <4> HIDE DEF n
      <4>1. /\ [mem EXCEPT !.rlnk[n] = FALSE] \in Journal
            /\ [mem EXCEPT !.rstg[n] = 0, !.rlnk[n] = FALSE] \in Journal
        BY <2>0, <3>1, ZeroIno, JournalEdits
      <4>2. /\ [mem EXCEPT !.rlnk[n] = FALSE].rstg = mem.rstg
            /\ [mem EXCEPT !.rstg[n] = 0, !.rlnk[n] = FALSE].rstg = [mem.rstg EXCEPT ![n] = 0]
            /\ mem.rstg \in [Members -> OptIno]
        BY <2>0, <3>1, ZeroIno, EditFields
      <4> QED BY <4>1, <4>2
    <3>4. CASE rbk[n] # 0 /\ mem.rlnk[n]
      <4>1. WriteJournal([mem EXCEPT !.rlnk[n] = FALSE], pc) /\ UNCHANGED <<tree, left>>
        BY <1>2, <2>2, <3>4 DEF CleanRollback
      <4> DEFINE j == [mem EXCEPT !.rlnk[n] = FALSE]
      <4>2. j \in Journal /\ \A m \in Members : rbk[m] # 0 => j.rstg[m] # 0
        BY <2>b, <3>3 DEF Owned
      <4>3. WriteJournal(j, pc) /\ UNCHANGED <<tree, left>> BY <4>1
      <4> HIDE DEF j
      <4> QED BY <3>2, <4>2, <4>3
    <3>5. CASE rbk[n] # 0 /\ ~mem.rlnk[n]
      <4>1. rbk' = [rbk EXCEPT ![n] = 0] /\ UNCHANGED <<files, fwd, left>> /\ TreeStep(pc)
        BY <1>2, <2>2, <3>5 DEF CleanRollback
      <4> HIDE DEF n
      <4>2. \A m \in Members : rbk'[m] # 0 => rbk[m] # 0
        BY <3>1, <4>1 DEF TypeInv, TypeOK
      <4> QED BY <2>0, <2>b, <4>1, <4>2
              DEF StagingInv, Owned, Synced, CopyOwns, Progress, TreeStep
    <3>6. CASE rbk[n] = 0
      <4>1. \/ Refuse
            \/ /\ WriteJournal([mem EXCEPT !.rstg[n] = 0, !.rlnk[n] = FALSE], pc)
               /\ UNCHANGED <<tree, left>>
        BY <1>2, <2>2, <3>6 DEF CleanRollback
      <4> DEFINE j == [mem EXCEPT !.rstg[n] = 0, !.rlnk[n] = FALSE]
      <4>2. \A m \in Members : rbk[m] # 0 => j.rstg[m] # 0
        <5>1. j.rstg = [mem.rstg EXCEPT ![n] = 0] BY <3>3
        <5> HIDE DEF j, n
        <5> QED BY <2>b, <3>1, <3>3, <3>6, <5>1 DEF Owned
      <4> QED BY <2>0, <3>2, <3>3, <4>1, <4>2, RefuseStaging
    <3> QED BY <3>4, <3>5, <3>6
  <2> QED BY <2>1, <2>2
<1>3. ASSUME WriteGoal PROVE StagingInv'
  <2>0. mem \in Journal /\ pc = "goal" BY <1>3 DEF WriteGoal, TypeInv, Held
  <2>b. Clear(fwd) /\ Clear(rbk) BY <2>0 DEF StagingInv, Progress
  <2> DEFINE j == [mem EXCEPT !.phase = Goal(mem),
                     !.pers = IF Goal(mem) = "Aborted" THEN "Aborted" ELSE "Committed",
                     !.restored = (Goal(mem) = "RolledBack")]
  <2>1. j \in Journal
    <3>1. Goal(mem) \in Phases BY DEF Goal, Phases
    <3>2. (IF Goal(mem) = "Aborted" THEN "Aborted" ELSE "Committed") \in Persistence
      BY DEF Persistence
    <3>3. (Goal(mem) = "RolledBack") \in BOOLEAN OBVIOUS
    <3> QED BY <2>0, <3>1, <3>2, <3>3, JournalPhases
  <2>2. WriteJournal(j, "terminal") /\ UNCHANGED <<tree, left>> BY <1>3 DEF WriteGoal
  <2> HIDE DEF j
  <2>3. pc' = "terminal" => Progress' BY <2>b, <2>2 DEF Progress
  <2> QED BY <2>0, <2>b, <2>1, <2>2, <2>3, WriteStaging
<1> QED BY <1>1, <1>2, <1>3

LEMMA RestoreStaging ==
    TypeInv /\ StagingInv /\ (Restore \/ RestoreSwap \/ RestoreDone) => StagingInv'
<1> SUFFICES ASSUME TypeInv, StagingInv
             PROVE  (Restore \/ RestoreSwap \/ RestoreDone) => StagingInv'
  OBVIOUS
<1> DEFINE n == First(left)
<1>0. left # {} => n \in Members BY FirstIsMember DEF TypeInv, TypeOK
<1>1. ASSUME Restore PROVE StagingInv'
  <2> DEFINE explicit == mem.phase = "RollingBack"
  <2>0. mem \in Journal /\ pc = "restore" BY <1>1 DEF Restore, TypeInv, Held
  <2>b. Owned /\ Clear(fwd) /\ jr = mem /\ fence = "journal"
    BY <2>0 DEF StagingInv, Synced, Progress
  <2>1. CASE Refuse BY <2>0, <2>1, RefuseStaging
  <2>2. CASE left = {} /\ ~Refuse
    <3> DEFINE j == [mem EXCEPT
                       !.phase = IF explicit THEN "RollbackCleanup" ELSE "AbortCleanup",
                       !.pers = IF explicit THEN "Committed" ELSE "Aborted",
                       !.restored = explicit,
                       !.ready = FALSE]
    <3>1. WriteJournal(j, "cleanup") /\ UNCHANGED <<tree, left>>
      BY <1>1, <2>2 DEF Restore
    <3>2. j \in Journal /\ j.lstg = mem.lstg /\ j.rstg = mem.rstg
      <4>1. (IF explicit THEN "RollbackCleanup" ELSE "AbortCleanup") \in Phases BY DEF Phases
      <4>2. (IF explicit THEN "Committed" ELSE "Aborted") \in Persistence BY DEF Persistence
      <4>3. explicit \in BOOLEAN /\ FALSE \in BOOLEAN OBVIOUS
      <4>4. j \in Journal BY <2>0, <4>1, <4>2, <4>3, JournalPhases
      <4>5. j.lstg = mem.lstg /\ j.rstg = mem.rstg BY <2>0 DEF Journal
      <4> QED BY <4>4, <4>5
    <3> HIDE DEF j
    <3>3. pc' = "cleanup" => Progress' BY <2>b, <3>1 DEF Progress
    <3> QED BY <2>0, <2>b, <3>1, <3>2, <3>3, WriteStaging DEF Owned
  <2>3. CASE left # {} /\ ~Refuse
    <3>1. n \in Members BY <1>0, <2>3
    <3>2. CASE mem.before[n] = None
      <4>1. UNCHANGED <<fwd, rbk>> /\ TreeStep(pc)
        BY <1>1, <2>3, <3>2 DEF Restore
      <4> QED BY <2>0, <2>b, <4>1 DEF StagingInv, Owned, Synced, CopyOwns, Progress, TreeStep
    <3>3. CASE mem.before[n] # None
      <4> DEFINE j == [mem EXCEPT !.rest[n] = rbk[n]]
      <4>1. WriteJournal(j, "swap") /\ UNCHANGED <<tree, left>>
        BY <1>1, <2>3, <3>3 DEF Restore
      <4>2. rbk[n] \in OptIno BY <3>1 DEF TypeInv, TypeOK
      <4>3. j \in Journal /\ j.lstg = mem.lstg /\ j.rstg = mem.rstg
        <5> HIDE DEF n
        <5>1. j \in Journal BY <2>0, <3>1, <4>2, JournalEdits
        <5>2. j.lstg = mem.lstg /\ j.rstg = mem.rstg BY <2>0 DEF Journal
        <5> QED BY <5>1, <5>2
      <4> HIDE DEF j
      <4>4. pc' = "swap" => Progress' BY <2>b, <4>1 DEF Progress
      <4> QED BY <2>0, <2>b, <4>1, <4>3, <4>4, WriteStaging DEF Owned
    <3> QED BY <3>2, <3>3
  <2> QED BY <2>1, <2>2, <2>3
<1>2. ASSUME RestoreSwap PROVE StagingInv'
  <2>0. mem \in Journal /\ pc = "swap" /\ left # {} BY <1>2 DEF RestoreSwap, TypeInv, Held
  <2>1. n \in Members BY <1>0, <2>0
  <2>2. /\ rbk' = [rbk EXCEPT ![n] = 0]
        /\ UNCHANGED <<fwd, left>> /\ TreeStep("restored")
    BY <1>2 DEF RestoreSwap
  <2>3. rbk'[n] = 0 /\ \A m \in Members : rbk'[m] # 0 => rbk[m] # 0
    <3> HIDE DEF n
    <3> QED BY <2>1, <2>2 DEF TypeInv, TypeOK
  <2> QED BY <2>0, <2>2, <2>3 DEF StagingInv, Owned, Synced, CopyOwns, Progress, TreeStep
<1>3. ASSUME RestoreDone PROVE StagingInv'
  <2>0. mem \in Journal /\ pc = "restored" /\ left # {} BY <1>3 DEF RestoreDone, TypeInv, Held
  <2>1. n \in Members BY <1>0, <2>0
  <2>b. Owned /\ Clear(fwd) /\ rbk[n] = 0 /\ jr = mem /\ fence = "journal"
    BY <2>0 DEF StagingInv, Synced, Progress
  <2> DEFINE j == [mem EXCEPT !.rstg[n] = 0, !.rlnk[n] = FALSE]
  <2>2. WriteJournal(j, "restore") /\ UNCHANGED tree BY <1>3 DEF RestoreDone
  <2>3. /\ j \in Journal /\ j.rstg = [mem.rstg EXCEPT ![n] = 0]
        /\ mem.rstg \in [Members -> OptIno]
    <3> HIDE DEF n
    <3>1. j \in Journal BY <2>0, <2>1, ZeroIno, JournalEdits
    <3>2. j.rstg = [mem.rstg EXCEPT ![n] = 0] /\ mem.rstg \in [Members -> OptIno]
      BY <2>0 DEF Journal
    <3> QED BY <3>1, <3>2
  <2> HIDE DEF j, n
  <2>4. \A m \in Members : rbk[m] # 0 => j.rstg[m] # 0 BY <2>1, <2>b, <2>3 DEF Owned
  <2>5. pc' = "restore" => Progress' BY <2>b, <2>2 DEF Progress
  <2> QED BY <2>0, <2>b, <2>2, <2>3, <2>4, <2>5, WriteStaging
<1> QED BY <1>1, <1>2, <1>3

-----------------------------------------------------------------------------
LEMMA TerminalStaging ==
    TypeInv /\ StagingInv /\ (Terminalize \/ WriteReceipt \/ FailJournal \/ FailReceipt)
      => StagingInv'
<1> SUFFICES ASSUME TypeInv, StagingInv PROVE
      (Terminalize \/ WriteReceipt \/ FailJournal \/ FailReceipt) => StagingInv'
  OBVIOUS
<1>1. ASSUME Terminalize PROVE StagingInv'
  <2>0. pc = "terminal" /\ Clear(fwd) /\ Clear(rbk)
    BY <1>1 DEF Terminalize, StagingInv, Progress
  <2>1. CASE Refuse BY <2>0, <2>1, RefuseStaging
  <2>2. CASE ~Refuse
    <3>1. fence' = "none" /\ pc' = "receipt" /\ UNCHANGED tree
      BY <1>1, <2>2 DEF Terminalize
    <3> QED BY <2>0, <3>1 DEF StagingInv, Owned, Synced, CopyOwns, Progress
  <2> QED BY <2>1, <2>2
<1>2. ASSUME WriteReceipt PROVE StagingInv'
  <2>1. /\ pc = "receipt" /\ UNCHANGED <<tree, fence, jr>>
        /\ pc' = "op" \/ (pc' = "idle" /\ run' = "recover")
    BY <1>2 DEF WriteReceipt, Release
  <2> QED BY <2>1 DEF StagingInv, Owned, Synced, CopyOwns, Progress
<1>3. ASSUME FailJournal PROVE StagingInv'
  <2>0. mem \in Journal /\ pc = "failjournal" BY <1>3 DEF FailJournal, TypeInv, Held
  <2>1. Uncertain(mem).lstg = mem.lstg /\ Uncertain(mem).rstg = mem.rstg
    BY <2>0 DEF Uncertain, Journal
  <2>2. /\ pc' = "failreceipt" /\ UNCHANGED <<tree, fence>>
        /\ jr' = jr \/ (jr' = Uncertain(mem) /\ fence = "journal")
    BY <1>3 DEF FailJournal
  <2> QED BY <2>0, <2>1, <2>2 DEF StagingInv, Owned, Synced, CopyOwns, Progress
<1>4. ASSUME FailReceipt PROVE StagingInv'
  BY <1>4 DEF StagingInv, Owned, Synced, CopyOwns, Progress, FailReceipt, Release
<1> QED BY <1>1, <1>2, <1>3, <1>4

LEMMA OperationStaging ==
    TypeInv /\ StagingInv
      /\ (ReturnRefused \/ Lookup \/ Complete \/ Finalize \/ RollbackOpen
          \/ RollbackBegin \/ \E r \in Requests : ExpireReceipt(r)) => StagingInv'
<1> SUFFICES ASSUME TypeInv, StagingInv PROVE
      (ReturnRefused \/ Lookup \/ Complete \/ Finalize \/ RollbackOpen
         \/ RollbackBegin \/ \E r \in Requests : ExpireReceipt(r)) => StagingInv'
  OBVIOUS
<1>1. ASSUME ReturnRefused PROVE StagingInv' BY <1>1, ReturnStaging DEF ReturnRefused
<1>2. ASSUME Lookup PROVE StagingInv'
  <2>0. pc = "op" BY <1>2 DEF Lookup
  <2>1. CASE Return BY <2>1, ReturnStaging
  <2>2. CASE Refuse BY <2>0, <2>2, RefuseStaging
  <2>3. CASE Goto("admit")
    BY <2>0, <2>3 DEF StagingInv, Owned, Synced, CopyOwns, Progress, Goto
  <2>4. CASE Release /\ UNCHANGED <<tree, fence, jr, undo, env, faults>>
    BY <2>4 DEF StagingInv, Owned, Synced, CopyOwns, Progress, Release
  <2> QED BY <1>2, <2>1, <2>2, <2>3, <2>4 DEF Lookup
<1>3. ASSUME Complete PROVE StagingInv'
  BY <1>3 DEF StagingInv, Owned, Synced, CopyOwns, Progress, Complete, Release
<1>4. ASSUME Finalize PROVE StagingInv'
  BY <1>4 DEF StagingInv, Owned, Synced, CopyOwns, Progress, Finalize, Release
<1>5. ASSUME RollbackOpen PROVE StagingInv'
  <2>0. pc = "op" /\ Clear(fwd) /\ Clear(rbk)
    BY <1>5 DEF RollbackOpen, StagingInv, Owned, Synced
  <2>1. CASE Return BY <2>1, ReturnStaging
  <2>2. CASE Refuse BY <2>0, <2>2, RefuseStaging
  <2>3. CASE ~Return /\ ~Refuse
    <3>1. fence' = "journal" /\ jr' = mem' /\ pc' = "rollback" /\ run' = "rollback"
          /\ UNCHANGED tree
      BY <1>5, <2>3 DEF RollbackOpen
    <3> QED BY <2>0, <3>1 DEF StagingInv, Owned, Synced, CopyOwns, Progress
  <2> QED BY <2>1, <2>2, <2>3
<1>6. ASSUME RollbackBegin PROVE StagingInv'
  <2>0. mem \in Journal /\ pc = "rollback" BY <1>6 DEF RollbackBegin, TypeInv, Held
  <2>b. Clear(fwd) /\ Clear(rbk) /\ run = "rollback" BY <2>0 DEF StagingInv, Progress
  <2> DEFINE j == [mem EXCEPT !.phase = "RollingBack", !.ready = FALSE]
  <2>1. j \in Journal /\ j.phase = "RollingBack" BY <2>0 DEF Journal, Phases
  <2>2. WriteJournal(j, "stage") /\ UNCHANGED <<tree, left>> BY <1>6 DEF RollbackBegin
  <2> HIDE DEF j
  <2>3. pc' = "stage" => Progress'
    BY <2>b, <2>1, <2>2 DEF Progress, WriteJournal, TerminalPhases
  <2> QED BY <2>0, <2>b, <2>1, <2>2, <2>3, WriteStaging
<1>7. ASSUME NEW r \in Requests, ExpireReceipt(r) PROVE StagingInv'
  BY <1>7 DEF StagingInv, Owned, Synced, CopyOwns, Progress, ExpireReceipt
<1> QED BY <1>1, <1>2, <1>3, <1>4, <1>5, <1>6, <1>7

LEMMA PrepareStaging ==
    TypeInv /\ StagingInv
      /\ (Admit \/ PublishFence \/ WriteSetup \/ WritePrepared \/ PublishReceipt)
      => StagingInv'
<1> SUFFICES ASSUME TypeInv, StagingInv PROVE
      (Admit \/ PublishFence \/ WriteSetup \/ WritePrepared \/ PublishReceipt) => StagingInv'
  OBVIOUS
<1>1. ASSUME Admit PROVE StagingInv'
  <2>0. pc = "admit" /\ Clear(fwd) /\ Clear(rbk)
    BY <1>1 DEF Admit, StagingInv, Owned, Synced
  <2>1. CASE Return BY <2>1, ReturnStaging
  <2>2. CASE ~Return
    <3>1. fence' = "stage" /\ pc' = "fence" /\ mem'.phase = "Setup" /\ UNCHANGED tree
          /\ Clear(mem'.prom)
      BY <1>1, <2>2 DEF Admit, SetupJournal
    <3> QED BY <2>0, <3>1 DEF StagingInv, Owned, Synced, CopyOwns, Progress
  <2> QED BY <2>1, <2>2
<1>2. ASSUME PublishFence PROVE StagingInv'
  BY <1>2 DEF StagingInv, Owned, Synced, CopyOwns, Progress, PublishFence
<1>3. ASSUME WriteSetup PROVE StagingInv'
  <2>1. Clear(fwd) /\ Clear(rbk) /\ mem.phase = "Setup" /\ Clear(mem.prom)
    BY <1>3 DEF WriteSetup, StagingInv, Owned, Progress
  <2> QED BY <1>3, <2>1
          DEF StagingInv, Owned, Synced, CopyOwns, Progress, WriteSetup, TerminalPhases
<1>4. ASSUME WritePrepared PROVE StagingInv'
  <2>0. mem \in Journal /\ pc = "blobs" BY <1>4 DEF WritePrepared, TypeInv, Held
  <2>b. Clear(fwd) /\ Clear(rbk) /\ Clear(mem.prom) BY <2>0 DEF StagingInv, Progress
  <2> DEFINE j == [mem EXCEPT !.phase = "Prepared"]
  <2>1. j \in Journal /\ j.phase = "Prepared" /\ j.prom = mem.prom BY <2>0 DEF Journal, Phases
  <2>2. WriteJournal(j, "prepared") /\ UNCHANGED <<tree, left>> BY <1>4 DEF WritePrepared
  <2> HIDE DEF j
  <2>3. pc' = "prepared" => Progress'
    BY <2>b, <2>1, <2>2 DEF Progress, WriteJournal, TerminalPhases
  <2> QED BY <2>0, <2>b, <2>1, <2>2, <2>3, WriteStaging
<1>5. ASSUME PublishReceipt PROVE StagingInv'
  BY <1>5 DEF StagingInv, Owned, Synced, CopyOwns, Progress, PublishReceipt
<1> QED BY <1>1, <1>2, <1>3, <1>4, <1>5

LEMMA CommitStaging ==
    TypeInv /\ StagingInv /\ (StageRollback \/ Promote \/ PromoteDone) => StagingInv'
<1> SUFFICES ASSUME TypeInv, StagingInv
             PROVE  (StageRollback \/ Promote \/ PromoteDone) => StagingInv'
  OBVIOUS
<1>0. left # {} => First(left) \in Members
  BY FirstIsMember DEF TypeInv, TypeOK
<1>1. ASSUME StageRollback PROVE StagingInv'
  <2> DEFINE todo == {m \in Destructive(mem) : ~mem.rlnk[m]}
             n == First(todo)
  <2>0. mem \in Journal /\ pc = "stage" BY <1>1 DEF StageRollback, TypeInv, Held
  <2>b. /\ Owned /\ Clear(fwd) /\ jr = mem /\ fence = "journal"
        /\ mem.phase \notin TerminalPhases /\ mem.phase # "Setup"
        /\ run = "commit" => Clear(mem.prom)
    BY <2>0 DEF StagingInv, Synced, Progress
  <2>1. CASE todo = {}
    <3> DEFINE j == [mem EXCEPT !.ready = TRUE]
               next == IF run = "commit" THEN "promote" ELSE "phase"
    <3>1. WriteJournal(j, next) /\ UNCHANGED tree
      BY <1>1, <2>1 DEF StageRollback
    <3>2. /\ j \in Journal /\ j.lstg = mem.lstg /\ j.rstg = mem.rstg
          /\ j.phase = mem.phase /\ j.prom = mem.prom
      BY <2>0 DEF Journal
    <3>a. left' \in SUBSET Members BY <1>1, <2>1 DEF StageRollback
    <3> HIDE DEF j
    <3>3. pc' = next => Progress'
      BY <2>b, <3>1, <3>2, <3>a DEF Progress, WriteJournal
    <3> QED BY <2>0, <2>b, <3>1, <3>2, <3>3, WriteStaging DEF Owned
  <2>2. CASE todo # {} /\ ~Refuse
    <3>0. todo \in SUBSET Members BY DEF Destructive
    <3>1. n \in Members
      <4> HIDE DEF todo
      <4> QED BY <2>2, <3>0, FirstIsMember
    <3>2. ASSUME NEW j \in Journal, WriteJournal(j, pc), UNCHANGED <<tree, left>>,
                 j.phase = mem.phase, j.prom = mem.prom,
                 \A m \in Members : rbk[m] # 0 => j.rstg[m] # 0
          PROVE  StagingInv'
      <4>1. pc' = "stage" => Progress' BY <2>b, <3>2 DEF Progress, WriteJournal
      <4> QED BY <2>0, <2>b, <3>2, <4>1, WriteStaging
    <3>3. CASE mem.rstg[n] = 0
      <4>1. PICK i \in Inodes : /\ WriteJournal([mem EXCEPT !.rstg[n] = i], pc)
                                /\ UNCHANGED <<tree, left>>
        BY <1>1, <2>2, <3>3 DEF StageRollback
      <4>2. i \in OptIno /\ i # 0 BY DEF Inodes, OptIno
      <4> DEFINE j == [mem EXCEPT !.rstg[n] = i]
      <4>3. j \in Journal
        <5> HIDE DEF n
        <5> QED BY <2>0, <3>1, <4>2, JournalEdits
      <4>4. /\ j.rstg = [mem.rstg EXCEPT ![n] = i] /\ j.phase = mem.phase
            /\ mem.rstg \in [Members -> OptIno] /\ j.prom = mem.prom
        <5> HIDE DEF n
        <5> QED BY <2>0 DEF Journal
      <4>5. WriteJournal(j, pc) BY <4>1
      <4> HIDE DEF j, n
      <4>6. \A m \in Members : rbk[m] # 0 => j.rstg[m] # 0
        BY <2>b, <3>1, <4>2, <4>4 DEF Owned
      <4> QED BY <3>2, <4>1, <4>3, <4>4, <4>5, <4>6
    <3>4. CASE mem.rstg[n] # 0 /\ rbk[n] = 0
      <4>1. /\ rbk' = [rbk EXCEPT ![n] = mem.rstg[n]]
            /\ UNCHANGED <<files, fwd, left>> /\ TreeStep(pc)
        BY <1>1, <2>2, <3>4 DEF StageRollback
      <4> HIDE DEF n
      <4>2. \A m \in Members : rbk'[m] # 0 => rbk[m] # 0 \/ mem.rstg[m] # 0
        BY <3>1, <3>4, <4>1 DEF TypeInv, TypeOK
      <4> QED BY <2>0, <2>b, <4>1, <4>2
              DEF StagingInv, Owned, Synced, CopyOwns, Progress, TreeStep
    <3>5. CASE mem.rstg[n] # 0 /\ rbk[n] # 0
      <4> DEFINE j == [mem EXCEPT !.rlnk[n] = TRUE]
      <4>1. WriteJournal(j, pc) /\ UNCHANGED <<tree, left>>
        BY <1>1, <2>2, <3>5 DEF StageRollback
      <4>2. j \in Journal
        <5> HIDE DEF n
        <5> QED BY <2>0, <3>1, ZeroIno, JournalEdits
      <4>3. j.rstg = mem.rstg /\ j.phase = mem.phase /\ j.prom = mem.prom
        <5> HIDE DEF n
        <5> QED BY <2>0 DEF Journal
      <4> HIDE DEF j
      <4> QED BY <2>b, <3>2, <4>1, <4>2, <4>3 DEF Owned
    <3> QED BY <3>3, <3>4, <3>5
  <2>3. CASE Refuse BY <2>0, <2>3, RefuseStaging
  <2> QED BY <2>1, <2>2, <2>3
<1>2. ASSUME Promote PROVE StagingInv'
  <2> DEFINE n == First(left)
             op == Operation(mem, n)
  <2>0. mem \in Journal /\ pc = "promote" BY <1>2 DEF Promote, TypeInv, Held
  <2>b. /\ Owned /\ jr = mem /\ fence = "journal"
        /\ \A m \in Members : fwd[m] # 0 => left # {} /\ m = n /\ mem.prom[m] # 0
    BY <2>0 DEF StagingInv, Synced, Progress
  <2>c. \A m \in left : mem.prom[m] # 0 => mem.lstg[m] # 0
    BY <2>0 DEF StagingInv, Progress
  <2>d. left \subseteq Members BY DEF TypeInv, TypeOK
  <2>1. CASE Refuse BY <2>0, <2>1, RefuseStaging
  <2>2. CASE left = {} /\ ~Refuse
    <3> DEFINE j == [mem EXCEPT !.phase = "Committing", !.pers = "Committed"]
    <3>1. WriteJournal(j, "cleanup") /\ UNCHANGED <<tree, left>>
      BY <1>2, <2>2 DEF Promote
    <3>2. j \in Journal /\ j.lstg = mem.lstg /\ j.rstg = mem.rstg
      BY <2>0 DEF Journal, Phases, Persistence
    <3>3. Clear(fwd) BY <2>b, <2>2
    <3> HIDE DEF j
    <3>4. pc' = "cleanup" => Progress' BY <3>1, <3>3 DEF Progress
    <3> QED BY <2>0, <2>b, <3>1, <3>2, <3>3, <3>4, WriteStaging DEF Owned
  <2>3. CASE left # {} /\ ~Refuse
    <3>1. n \in Members BY <1>0, <2>3
    <3>2. n \in left BY <2>3, <2>d, FirstIsMember
    <3>3. CASE mem.prom[n] # 0 /\ fwd[n] = 0
      <4>1. /\ fwd' = [fwd EXCEPT ![n] = mem.prom[n]]
            /\ UNCHANGED <<files, rbk, left>> /\ TreeStep(pc)
        BY <1>2, <2>3, <3>3 DEF Promote
      <4>2. mem.lstg[n] # 0 BY <2>c, <3>2, <3>3
      <4>3. \A m \in Members : fwd'[m] # 0 => m = n
        <5> HIDE DEF n
        <5> QED BY <2>b, <3>1, <3>3, <4>1 DEF TypeInv, TypeOK
      <4> QED BY <2>0, <2>3, <2>b, <3>3, <4>1, <4>2, <4>3
              DEF StagingInv, Owned, Synced, CopyOwns, Progress, TreeStep
    <3>4. CASE ~(mem.prom[n] # 0 /\ fwd[n] = 0)
      <4>0. IsBefore(mem, n) BY <1>2, <2>3, <3>4 DEF Promote
      <4>a. mem.prom[n] = 0 => Clear(fwd) BY <2>b
      <4>1. CASE mem.prom[n] = 0 /\ op \in {"none", "delete"}
        <5>1. UNCHANGED <<fwd, rbk>> /\ left' = left \ {n} /\ TreeStep(pc)
          <6>1. CASE op = "none" BY <1>2, <2>3, <4>0, <4>1, <6>1 DEF Promote, Published
          <6>2. CASE op = "delete" BY <1>2, <2>3, <4>0, <4>1, <6>2 DEF Promote, Published
          <6> QED BY <4>1, <6>1, <6>2
        <5> QED BY <2>0, <2>b, <2>c, <4>1, <4>a, <5>1
                DEF StagingInv, Owned, Synced, CopyOwns, Progress, TreeStep
      <4>3. CASE mem.prom[n] = 0 /\ op \notin {"none", "delete"}
        <5>1. n \in Published(mem) BY <3>1, <4>3 DEF Published, Operation
        <5>2. PICK i \in Inodes : /\ WriteJournal([mem EXCEPT !.prom[n] = i, !.lstg[n] = i], pc)
                                  /\ UNCHANGED <<tree, left>>
          BY <1>2, <2>3, <4>0, <4>3, <5>1 DEF Promote
        <5>3. i \in OptIno /\ i # 0 BY DEF Inodes, OptIno
        <5> DEFINE j == [mem EXCEPT !.prom[n] = i, !.lstg[n] = i]
        <5>4. j \in Journal
          <6> HIDE DEF n
          <6> QED BY <2>0, <3>1, <5>3, JournalEdits
        <5>5. /\ j.rstg = mem.rstg /\ j.lstg = [mem.lstg EXCEPT ![n] = i]
              /\ j.prom = [mem.prom EXCEPT ![n] = i]
              /\ mem.lstg \in [Members -> OptIno] /\ mem.prom \in [Members -> OptIno]
          <6> HIDE DEF n
          <6> QED BY <2>0 DEF Journal
        <5>6. WriteJournal(j, pc) BY <5>2
        <5> HIDE DEF j
        <5>8. \A m \in left : j.prom[m] # 0 => j.lstg[m] # 0
          <6> HIDE DEF n
          <6> QED BY <2>c, <2>d, <3>1, <5>3, <5>5
        <5>7. pc' = "promote" => Progress' BY <4>3, <4>a, <5>2, <5>6, <5>8 DEF Progress, WriteJournal
        <5> QED BY <2>0, <2>b, <4>3, <4>a, <5>2, <5>4, <5>5, <5>6, <5>7, WriteStaging DEF Owned
      <4>4. CASE mem.prom[n] # 0 /\ fwd[n] # 0
        <5>1. /\ fwd' = [fwd EXCEPT ![n] = 0]
              /\ UNCHANGED <<rbk, left>> /\ TreeStep("promoted")
          BY <1>2, <2>3, <4>0, <4>4 DEF Promote
        <5>2. Clear(fwd')
          <6> HIDE DEF n
          <6> QED BY <2>b, <3>1, <5>1 DEF TypeInv, TypeOK
        <5> QED BY <2>0, <2>b, <5>1, <5>2
                DEF StagingInv, Owned, Synced, CopyOwns, Progress, TreeStep
      <4> QED BY <3>4, <4>1, <4>3, <4>4
    <3> QED BY <3>3, <3>4
  <2> QED BY <2>1, <2>2, <2>3
<1>3. ASSUME PromoteDone PROVE StagingInv'
  <2> DEFINE n == First(left)
             j == [mem EXCEPT !.lstg[n] = 0]
  <2>0. mem \in Journal /\ pc = "promoted" /\ left # {} BY <1>3 DEF PromoteDone, TypeInv, Held
  <2>1. n \in Members BY <1>0, <2>0
  <2>b. /\ Owned /\ Clear(fwd) /\ jr = mem /\ fence = "journal"
        /\ \A m \in left : mem.prom[m] # 0 => mem.lstg[m] # 0
    BY <2>0 DEF StagingInv, Synced, Progress
  <2>d. left \subseteq Members BY DEF TypeInv, TypeOK
  <2>2. WriteJournal(j, "promote") /\ left' = left \ {n} /\ UNCHANGED tree
    BY <1>3 DEF PromoteDone
  <2>3. j \in Journal
    <3> HIDE DEF n
    <3> QED BY <2>0, <2>1, ZeroIno, JournalEdits
  <2>4. /\ j.rstg = mem.rstg /\ j.lstg = [mem.lstg EXCEPT ![n] = 0] /\ j.prom = mem.prom
        /\ mem.lstg \in [Members -> OptIno]
    <3> HIDE DEF n
    <3> QED BY <2>0 DEF Journal
  <2> HIDE DEF j
  <2>6. \A m \in left' : j.prom[m] # 0 => j.lstg[m] # 0
    <3> HIDE DEF n
    <3> QED BY <2>1, <2>2, <2>4, <2>b, <2>d
  <2>5. pc' = "promote" => Progress' BY <2>b, <2>2, <2>6 DEF Progress, WriteJournal
  <2> QED BY <2>0, <2>b, <2>2, <2>3, <2>4, <2>5, WriteStaging DEF Owned
<1> QED BY <1>1, <1>2, <1>3

LEMMA NextStaging == TypeInv /\ StagingInv /\ [Next]_vars => StagingInv'
<1> SUFFICES ASSUME TypeInv, StagingInv, [Next]_vars PROVE StagingInv' OBVIOUS
<1>1. CASE UNCHANGED vars
  BY <1>1 DEF StagingInv, Owned, Synced, CopyOwns, Progress, vars
<1>2. CASE Caller
  BY <1>2, RecoveryStaging, CleanupStaging, RestoreStaging, TerminalStaging,
     OperationStaging, PrepareStaging, CommitStaging DEF Caller
<1>3. CASE Next /\ ~Caller BY <1>3, EnvironmentStaging DEF Next
<1> QED BY <1>1, <1>2, <1>3

\* When no transaction is open, neither a forward stage nor a rollback copy
\* is left in the policy tree, however the transactions before it ended.
THEOREM StagesNotOrphaned == Spec => []NoOrphans
<1>1. StagingInv => NoOrphans BY DEF StagingInv, Owned, NoOrphans
<1>2. Init => TypeInv /\ StagingInv BY InitTypes, InitStaging
<1>3. TypeInv /\ StagingInv /\ [Next]_vars => (TypeInv /\ StagingInv)'
  BY NextTypes, NextStaging
<1> QED BY <1>1, <1>2, <1>3, PTL DEF Spec

-----------------------------------------------------------------------------
(***************************************************************************)
(* What a step does, with the member it works on named once for all the    *)
(* invariants that follow.                                                 *)
(***************************************************************************)

Writes(j, next) == WriteJournal(j, next) /\ UNCHANGED <<tree, left>>

LEMMA CleanStagingDoes ==
    ASSUME TypeInv, CleanStaging
    PROVE  /\ mem \in Journal /\ pc \in {"staging", "failed"}
           /\ \/ Clear(mem.lstg) /\ Goto(IF pc = "staging" THEN "phase" ELSE "failjournal")
              \/ \E n \in Members : fwd' = [fwd EXCEPT ![n] = 0] /\ UNCHANGED <<files, rbk, left>>
                                      /\ TreeStep(pc)
              \/ \E n \in Members : mem.lstg[n] # 0 /\ Writes([mem EXCEPT !.lstg[n] = 0], pc)
<1> DEFINE staged == {m \in Members : mem.lstg[m] # 0}
           n == First(staged)
<1>0. mem \in Journal /\ pc \in {"staging", "failed"} BY DEF CleanStaging, TypeInv, Held
<1>1. CASE staged = {} BY <1>0, <1>1 DEF CleanStaging
<1>2. CASE staged # {}
  <2>1. staged \in SUBSET Members OBVIOUS
  <2>2. n \in staged
    <3> HIDE DEF staged
    <3> QED BY <1>2, <2>1, FirstIsMember
  <2>3. \/ fwd' = [fwd EXCEPT ![n] = 0] /\ UNCHANGED <<files, rbk, left>> /\ TreeStep(pc)
        \/ Writes([mem EXCEPT !.lstg[n] = 0], pc)
    BY <1>2 DEF CleanStaging, Writes
  <2> HIDE DEF n
  <2> QED BY <1>0, <2>2, <2>3
<1> QED BY <1>1, <1>2

LEMMA CleanRollbackDoes ==
    ASSUME TypeInv, CleanRollback
    PROVE  /\ mem \in Journal /\ pc = "cleanup"
           /\ \/ Clear(mem.rstg) /\ Writes([mem EXCEPT !.ready = FALSE], "goal")
              \/ \E n \in Members : rbk[n] # 0 /\ Writes([mem EXCEPT !.rlnk[n] = FALSE], pc)
              \/ \E n \in Members : /\ ~mem.rlnk[n] /\ rbk' = [rbk EXCEPT ![n] = 0]
                                    /\ UNCHANGED <<files, fwd, left>> /\ TreeStep(pc)
              \/ \E n \in Members : /\ mem.rlnk[n] /\ rbk[n] = 0 /\ Refuse
                                    /\ ~(mem.rest[n] = mem.rstg[n] /\ IsBefore(mem, n))
              \/ \E n \in Members : /\ rbk[n] = 0
                                    /\ Writes([mem EXCEPT !.rstg[n] = 0, !.rlnk[n] = FALSE], pc)
<1> DEFINE staged == {m \in Members : mem.rstg[m] # 0}
           n == First(staged)
<1>0. mem \in Journal /\ pc = "cleanup" BY DEF CleanRollback, TypeInv, Held
<1>1. CASE staged = {} BY <1>0, <1>1 DEF CleanRollback, Writes
<1>2. CASE staged # {}
  <2>1. staged \in SUBSET Members OBVIOUS
  <2>2. n \in staged
    <3> HIDE DEF staged
    <3> QED BY <1>2, <2>1, FirstIsMember
  <2>3. CASE rbk[n] # 0 /\ mem.rlnk[n]
    <3>1. Writes([mem EXCEPT !.rlnk[n] = FALSE], pc) BY <1>2, <2>3 DEF CleanRollback, Writes
    <3> HIDE DEF n
    <3> QED BY <1>0, <2>2, <2>3, <3>1
  <2>4. CASE rbk[n] # 0 /\ ~mem.rlnk[n]
    <3>1. rbk' = [rbk EXCEPT ![n] = 0] /\ UNCHANGED <<files, fwd, left>> /\ TreeStep(pc)
      BY <1>2, <2>4 DEF CleanRollback
    <3> HIDE DEF n
    <3> QED BY <1>0, <2>2, <2>4, <3>1
  <2>5. CASE rbk[n] = 0
    <3>1. \/ mem.rlnk[n] /\ ~(mem.rest[n] = mem.rstg[n] /\ IsBefore(mem, n)) /\ Refuse
          \/ Writes([mem EXCEPT !.rstg[n] = 0, !.rlnk[n] = FALSE], pc)
      BY <1>2, <2>5 DEF CleanRollback, Writes
    <3> HIDE DEF n
    <3> QED BY <1>0, <2>2, <2>5, <3>1
  <2> QED BY <2>3, <2>4, <2>5
<1> QED BY <1>1, <1>2

LEMMA StageRollbackDoes ==
    ASSUME TypeInv, StageRollback
    PROVE  /\ mem \in Journal /\ pc = "stage"
           /\ \/ /\ \A m \in Destructive(mem) : mem.rlnk[m]
                 /\ WriteJournal([mem EXCEPT !.ready = TRUE], IF run = "commit" THEN "promote" ELSE "phase")
                 /\ UNCHANGED tree /\ left' = IF run = "commit" THEN Members ELSE {}
              \/ \E n \in Destructive(mem), i \in Inodes :
                    /\ ~mem.rlnk[n] /\ mem.rstg[n] = 0
                    /\ Writes([mem EXCEPT !.rstg[n] = i], pc)
              \/ \E n \in Destructive(mem) :
                    /\ Refuse /\ ~(IF run = "commit" THEN IsBefore(mem, n) ELSE IsAfter(mem, n))
              \/ \E n \in Members :
                    /\ mem.rstg[n] # 0 /\ rbk[n] = 0 /\ ~mem.rlnk[n]
                    /\ rbk' = [rbk EXCEPT ![n] = mem.rstg[n]]
                    /\ UNCHANGED <<files, fwd, left>> /\ TreeStep(pc)
              \/ \E n \in Members :
                    mem.rstg[n] # 0 /\ rbk[n] # 0 /\ Writes([mem EXCEPT !.rlnk[n] = TRUE], pc)
<1> DEFINE todo == {m \in Destructive(mem) : ~mem.rlnk[m]}
           n == First(todo)
<1>0. mem \in Journal /\ pc = "stage" BY DEF StageRollback, TypeInv, Held
<1>1. CASE todo = {} BY <1>0, <1>1 DEF StageRollback
<1>2. CASE todo # {}
  <2>1. todo \in SUBSET Members BY DEF Destructive
  <2>2. n \in todo /\ n \in Members
    <3> HIDE DEF todo
    <3> QED BY <1>2, <2>1, FirstIsMember
  <2>3. CASE mem.rstg[n] = 0
    <3>1. \/ \E i \in Inodes : Writes([mem EXCEPT !.rstg[n] = i], pc)
          \/ Refuse /\ ~(IF run = "commit" THEN IsBefore(mem, n) ELSE IsAfter(mem, n))
      BY <1>2, <2>3 DEF StageRollback, Writes
    <3> HIDE DEF n
    <3> QED BY <1>0, <2>2, <2>3, <3>1
  <2>4. CASE mem.rstg[n] # 0 /\ rbk[n] = 0
    <3>1. rbk' = [rbk EXCEPT ![n] = mem.rstg[n]] /\ UNCHANGED <<files, fwd, left>> /\ TreeStep(pc)
      BY <1>2, <2>4 DEF StageRollback
    <3> HIDE DEF n
    <3> QED BY <1>0, <2>2, <2>4, <3>1
  <2>5. CASE mem.rstg[n] # 0 /\ rbk[n] # 0
    <3>1. Writes([mem EXCEPT !.rlnk[n] = TRUE], pc) BY <1>2, <2>5 DEF StageRollback, Writes
    <3> HIDE DEF n
    <3> QED BY <1>0, <2>2, <2>5, <3>1
  <2> QED BY <2>3, <2>4, <2>5
<1> QED BY <1>1, <1>2

LEMMA PromoteDoes ==
    ASSUME TypeInv, Promote
    PROVE  /\ mem \in Journal /\ pc = "promote"
           /\ \/ Refuse
              \/ /\ left = {} /\ AfterInventory(mem)
                 /\ Writes([mem EXCEPT !.phase = "Committing", !.pers = "Committed"], "cleanup")
              \/ \E n \in left : n = First(left) /\
                   \/ /\ mem.prom[n] # 0 /\ fwd[n] = 0 /\ fwd' = [fwd EXCEPT ![n] = mem.prom[n]]
                      /\ UNCHANGED <<files, rbk, left>> /\ TreeStep(pc)
                   \/ /\ mem.prom[n] = 0 /\ IsBefore(mem, n) /\ Operation(mem, n) = "none"
                      /\ left' = left \ {n} /\ UNCHANGED tree /\ TreeStep(pc)
                   \/ /\ mem.prom[n] = 0 /\ IsBefore(mem, n) /\ Operation(mem, n) = "delete"
                      /\ files' = [files EXCEPT ![n] = [val |-> None, ino |-> 0]]
                      /\ left' = left \ {n} /\ UNCHANGED <<fwd, rbk>> /\ TreeStep(pc)
                   \/ /\ mem.prom[n] = 0 /\ IsBefore(mem, n) /\ n \in Published(mem)
                      /\ \E i \in Inodes : Writes([mem EXCEPT !.prom[n] = i, !.lstg[n] = i], pc)
                   \/ /\ mem.prom[n] # 0 /\ fwd[n] # 0 /\ IsBefore(mem, n)
                      /\ files' = [files EXCEPT ![n] = [val |-> After(mem, n), ino |-> fwd[n]]]
                      /\ fwd' = [fwd EXCEPT ![n] = 0]
                      /\ UNCHANGED <<rbk, left>> /\ TreeStep("promoted")
<1> DEFINE n == First(left)
<1>0. mem \in Journal /\ pc = "promote" BY DEF Promote, TypeInv, Held
<1>1. CASE left = {} BY <1>0, <1>1 DEF Promote, Writes
<1>2. CASE left # {}
  <2>1. n \in left /\ n \in Members BY <1>2, FirstIsMember DEF TypeInv, TypeOK
  <2>2. CASE mem.prom[n] # 0 /\ fwd[n] = 0
    <3>1. fwd' = [fwd EXCEPT ![n] = mem.prom[n]] /\ UNCHANGED <<files, rbk, left>> /\ TreeStep(pc)
      BY <1>2, <2>2 DEF Promote
    <3> QED BY <1>0, <2>1, <2>2, <3>1
  <2>3. CASE ~(mem.prom[n] # 0 /\ fwd[n] = 0) /\ ~IsBefore(mem, n)
    BY <1>0, <1>2, <2>3 DEF Promote
  <2>4. CASE mem.prom[n] = 0 /\ IsBefore(mem, n)
    <3>0. Operation(mem, n) \in {"none", "delete"} \/ n \in Published(mem)
      BY <2>1 DEF Published, Operation
    <3>1. CASE Operation(mem, n) = "none"
      <4>1. left' = left \ {n} /\ UNCHANGED tree /\ TreeStep(pc)
        BY <1>2, <2>4, <3>1 DEF Promote, Published
      <4> QED BY <1>0, <2>1, <2>4, <3>1, <4>1
    <3>2. CASE Operation(mem, n) = "delete"
      <4>1. /\ files' = [files EXCEPT ![n] = [val |-> None, ino |-> 0]]
            /\ left' = left \ {n} /\ UNCHANGED <<fwd, rbk>> /\ TreeStep(pc)
        BY <1>2, <2>4, <3>2 DEF Promote, Published
      <4> QED BY <1>0, <2>1, <2>4, <3>2, <4>1
    <3>3. CASE n \in Published(mem)
      <4>0. Operation(mem, n) \notin {"none", "delete"} BY <3>3 DEF Published
      <4>1. \E i \in Inodes : Writes([mem EXCEPT !.prom[n] = i, !.lstg[n] = i], pc)
        BY <1>2, <2>4, <3>3, <4>0 DEF Promote, Writes
      <4> QED BY <1>0, <2>1, <2>4, <3>3, <4>1
    <3> QED BY <3>0, <3>1, <3>2, <3>3
  <2>5. CASE mem.prom[n] # 0 /\ fwd[n] # 0 /\ IsBefore(mem, n)
    <3>1. /\ files' = [files EXCEPT ![n] = [val |-> After(mem, n), ino |-> fwd[n]]]
          /\ fwd' = [fwd EXCEPT ![n] = 0]
          /\ UNCHANGED <<rbk, left>> /\ TreeStep("promoted")
      BY <1>2, <2>5 DEF Promote
    <3> QED BY <1>0, <2>1, <2>5, <3>1
  <2> QED BY <2>2, <2>3, <2>4, <2>5
<1> QED BY <1>1, <1>2

LEMMA RestoreDoes ==
    ASSUME TypeInv, Restore
    PROVE  /\ mem \in Journal /\ pc = "restore"
           /\ \/ /\ left = {} /\ BeforeInventory(mem)
                 /\ Writes([mem EXCEPT
                              !.phase = IF mem.phase = "RollingBack" THEN "RollbackCleanup" ELSE "AbortCleanup",
                              !.pers = IF mem.phase = "RollingBack" THEN "Committed" ELSE "Aborted",
                              !.restored = (mem.phase = "RollingBack"),
                              !.ready = FALSE], "cleanup")
              \/ left = {} /\ ~BeforeInventory(mem) /\ Refuse
              \/ \E n \in left : n = First(left) /\
                   \/ /\ Refuse
                      /\ ~IsAfter(mem, n) \/ (mem.before[n] # None /\ (mem.rstg[n] = 0 \/ rbk[n] = 0))
                   \/ /\ IsAfter(mem, n) /\ mem.before[n] = None
                      /\ files' = [files EXCEPT ![n] = [val |-> None, ino |-> 0]]
                      /\ left' = left \ {n} /\ UNCHANGED <<fwd, rbk>> /\ TreeStep(pc)
                   \/ /\ IsAfter(mem, n) /\ mem.rstg[n] # 0 /\ rbk[n] # 0
                      /\ Writes([mem EXCEPT !.rest[n] = rbk[n]], "swap")
<1> DEFINE n == First(left)
<1>0. mem \in Journal /\ pc = "restore" BY DEF Restore, TypeInv, Held
<1>1. CASE left = {} BY <1>0, <1>1 DEF Restore, Writes
<1>2. CASE left # {}
  <2>1. n \in left BY <1>2, FirstIsMember DEF TypeInv, TypeOK
  <2>2. CASE ~IsAfter(mem, n) \/ (mem.before[n] # None /\ (mem.rstg[n] = 0 \/ rbk[n] = 0))
    <3>1. Refuse BY <1>2, <2>2 DEF Restore
    <3> QED BY <1>0, <2>1, <2>2, <3>1
  <2>3. CASE IsAfter(mem, n) /\ mem.before[n] = None
    <3>1. /\ files' = [files EXCEPT ![n] = [val |-> None, ino |-> 0]]
          /\ left' = left \ {n} /\ UNCHANGED <<fwd, rbk>> /\ TreeStep(pc)
      BY <1>2, <2>3 DEF Restore
    <3> QED BY <1>0, <2>1, <2>3, <3>1
  <2>4. CASE IsAfter(mem, n) /\ mem.before[n] # None /\ mem.rstg[n] # 0 /\ rbk[n] # 0
    <3>1. Writes([mem EXCEPT !.rest[n] = rbk[n]], "swap") BY <1>2, <2>4 DEF Restore, Writes
    <3> QED BY <1>0, <2>1, <2>4, <3>1
  <2> QED BY <2>2, <2>3, <2>4
<1> QED BY <1>1, <1>2

-----------------------------------------------------------------------------
(***************************************************************************)
(* Recovery is never locked out by a journal the program wrote             *)
(* (JournalsDecode).                                                       *)
(*                                                                         *)
(* decode asks for much that only the order of the steps establishes: no   *)
(* forward stage recorded after its member was promoted, a copy journaled  *)
(* as linked for each member once rollback is ready, no mark of readiness  *)
(* outliving the copies.  Phased and Staged say what holds at which step,  *)
(* Records what the ledger may say meanwhile, and in the error path of     *)
(* commit() the same must hold of the copy in memory, which is written     *)
(* last.                                                                   *)
(***************************************************************************)

\* decode accepts the journal, and only a recorded copy is linked.
Sound(j) == Decodes(j) /\ \A m \in Members : j.rlnk[m] => j.rstg[m] # 0

OnDisk == fence = "journal" => Sound(jr) /\ AgreesWithReceipt(jr, receipts[jr.req])

InUndo ==
    \A r \in Requests : undo[r] # NoJournal =>
        /\ undo[r].req = r /\ undo[r].phase \in TerminalPhases
        /\ Sound(undo[r]) /\ AgreesWithReceipt(undo[r], receipts[r])

SetupSteps  == {"fence", "setup", "blobs", "prepared"}
FailSteps   == {"failed", "failjournal", "failreceipt"}
RecordSteps == (SyncedSteps \ SetupSteps) \cup FailSteps

\* A record whose decision is still open.
Undecided(rec) == rec # NoReceipt /\ rec.pers \in {"Prepared", "DurabilityUncertain"} /\ ~rec.restored

Runs ==
    /\ pc \in {"unstage", "op", "admit"} \cup SetupSteps => run = "recover"
    /\ pc \in {"promote", "promoted"} \cup FailSteps => run = "commit"
    /\ pc \in {"staging", "phase", "restore", "swap", "restored"} => run # "commit"
    /\ pc = "stage" => run # "recover"

Records ==
    /\ pc = "admit" => receipts[call.req] = NoReceipt
    /\ pc \in SetupSteps => receipts[mem.req] = NoReceipt
    /\ pc \in RecordSteps => receipts[mem.req] # NoReceipt
    /\ run = "commit" /\ pc \in RecordSteps \cup {"receipt"} => Undecided(receipts[mem.req])

Phased ==
    /\ pc \in SetupSteps \ {"prepared"} => mem.phase = "Setup" /\ mem.pers = "Prepared"
    /\ pc = "prepared" => mem.phase = "Prepared" /\ mem.pers = "Prepared" /\ ~mem.ready
    /\ pc \in SetupSteps => Sound(mem) /\ Bare(mem)
    /\ pc = "rollback" => mem.phase = "Committed"
    /\ pc = "stage" => mem.phase = IF run = "commit" THEN "Prepared" ELSE "RollingBack"
    /\ pc = "stage" /\ run = "commit" => Clear(mem.prom) /\ Clear(mem.rest)
    /\ pc \in {"promote", "promoted"} => mem.phase = "Prepared" /\ Clear(mem.rest)
    /\ pc \in {"restore", "swap", "restored"} => mem.ready /\ mem.phase \in {"Prepared", "RollingBack"}
    /\ pc \in {"cleanup", "goal"} =>
          /\ mem.phase \in {"Prepared", "AbortCleanup", "Committing", "RollingBack", "RollbackCleanup"}
          /\ run = "commit" => mem.phase = "Committing"
          /\ mem.ready => mem.phase = "Committing"
    /\ pc = "goal" => ~mem.ready /\ Clear(mem.rstg)
    /\ pc \in {"terminal", "receipt"} => mem.phase \in TerminalPhases
    /\ pc \in {"terminal", "receipt"} /\ run = "commit" => mem.phase = "Committed"
    /\ pc = "receipt" => Sound(mem) /\ undo[mem.req] = mem
    /\ pc \in FailSteps => Sound(mem) /\ mem.phase \in {"Prepared", "Committing", "Committed"}
    /\ pc = "failreceipt" => mem.pers = "DurabilityUncertain"

Staged ==
    /\ pc \in {"rollback", "stage", "phase", "restore", "swap", "restored", "cleanup", "goal", "terminal"}
          => Clear(mem.lstg)
    /\ pc \in {"promote", "promoted"} => \A m \in Members \ left :
          mem.lstg[m] = 0 /\ (m \in Published(mem) => mem.prom[m] # 0)
    /\ pc = "promoted" => mem.prom[First(left)] # 0
    /\ pc \in {"swap", "restored"} => mem.rest[First(left)] # 0

InRun == Runs /\ Records /\ Phased /\ Staged

DecodeInv == OnDisk /\ InUndo /\ InRun

USE DEF SetupSteps, FailSteps, RecordSteps

-----------------------------------------------------------------------------
\* What the code reads off a plan depends on the request and the before
\* images alone.
LEMMA SamePlan ==
    ASSUME NEW j, NEW k, k.req = j.req, k.before = j.before
    PROVE  /\ Destructive(k) = Destructive(j) /\ Published(k) = Published(j)
           /\ \A m \in Members : Operation(k, m) = Operation(j, m) /\ After(k, m) = After(j, m)
BY DEF Destructive, Published, Operation, After

\* Nothing but the names of stages and copies differs.
SameDecision(j, k) ==
    /\ k \in Journal /\ k.req = j.req /\ k.before = j.before /\ k.bino = j.bino
    /\ k.phase = j.phase /\ k.pers = j.pers /\ k.restored = j.restored

\* Nothing but the phase, its persistence and its marks differs.
SameNames(j, k) ==
    /\ k \in Journal /\ k.req = j.req /\ k.before = j.before /\ k.bino = j.bino
    /\ k.prom = j.prom /\ k.rest = j.rest /\ k.lstg = j.lstg /\ k.rstg = j.rstg /\ k.rlnk = j.rlnk

\* The loops keep a journal sound.
LEMMA SoundLoops ==
    ASSUME NEW j \in Journal, Sound(j), NEW n \in Members, NEW i \in OptIno
    PROVE  /\ Sound([j EXCEPT !.lstg[n] = 0])
           /\ (j.ready => j.phase = "Committing") => Sound([j EXCEPT !.rlnk[n] = FALSE])
           /\ (j.ready => j.phase = "Committing" \/ j.rest[n] # 0)
                 => Sound([j EXCEPT !.rstg[n] = 0, !.rlnk[n] = FALSE])
           /\ j.rstg[n] # 0 => Sound([j EXCEPT !.rlnk[n] = TRUE])
           /\ i # 0 /\ n \in Destructive(j) /\ j.phase \in {"Prepared", "RollingBack"}
                 => Sound([j EXCEPT !.rstg[n] = i])
           /\ i # 0 /\ Clear(j.lstg) /\ j.phase \in {"Prepared", "RollingBack"}
                 => Sound([j EXCEPT !.rest[n] = i])
           /\ i # 0 /\ n \in Published(j) /\ j.rest[n] = 0 /\ j.phase = "Prepared"
                 => Sound([j EXCEPT !.prom[n] = i, !.lstg[n] = i])
           /\ Sound([j EXCEPT !.ready = FALSE])
           /\ j.phase \in {"Prepared", "RollingBack"} /\ (\A m \in Destructive(j) : j.rlnk[m])
                 => Sound([j EXCEPT !.ready = TRUE])
<1>0. Destructive(j) \subseteq Members /\ Published(j) \subseteq Members BY DEF Destructive, Published
<1>1. Sound([j EXCEPT !.lstg[n] = 0])
  <2> DEFINE k == [j EXCEPT !.lstg[n] = 0]
  <2>1. /\ SameDecision(j, k) /\ k.lstg = [j.lstg EXCEPT ![n] = 0] /\ k.ready = j.ready
        /\ k.prom = j.prom /\ k.rest = j.rest /\ k.rstg = j.rstg /\ k.rlnk = j.rlnk
        /\ j.lstg \in [Members -> OptIno]
    BY ZeroIno DEF Journal, SameDecision
  <2> SUFFICES Sound(k) OBVIOUS
  <2> HIDE DEF k
  <2>2. Destructive(k) = Destructive(j) /\ Published(k) = Published(j) BY <2>1, SamePlan DEF SameDecision
  <2> QED BY <1>0, <2>1, <2>2 DEF Sound, Decodes, Bare, SameDecision, TerminalPhases
<1>2. ASSUME j.ready => j.phase = "Committing" PROVE Sound([j EXCEPT !.rlnk[n] = FALSE])
  <2> DEFINE k == [j EXCEPT !.rlnk[n] = FALSE]
  <2>1. /\ SameDecision(j, k) /\ k.rlnk = [j.rlnk EXCEPT ![n] = FALSE] /\ k.ready = j.ready
        /\ k.prom = j.prom /\ k.rest = j.rest /\ k.rstg = j.rstg /\ k.lstg = j.lstg
        /\ j.rlnk \in [Members -> BOOLEAN]
    BY ZeroIno DEF Journal, SameDecision
  <2> SUFFICES Sound(k) OBVIOUS
  <2> HIDE DEF k
  <2>2. Destructive(k) = Destructive(j) /\ Published(k) = Published(j) BY <2>1, SamePlan DEF SameDecision
  <2> QED BY <1>0, <1>2, <2>1, <2>2 DEF Sound, Decodes, Bare, SameDecision, TerminalPhases
<1>3. ASSUME j.ready => j.phase = "Committing" \/ j.rest[n] # 0
      PROVE  Sound([j EXCEPT !.rstg[n] = 0, !.rlnk[n] = FALSE])
  <2> DEFINE k == [j EXCEPT !.rstg[n] = 0, !.rlnk[n] = FALSE]
  <2>1. /\ SameDecision(j, k) /\ k.rlnk = [j.rlnk EXCEPT ![n] = FALSE] /\ k.ready = j.ready
        /\ k.prom = j.prom /\ k.rest = j.rest /\ k.rstg = [j.rstg EXCEPT ![n] = 0] /\ k.lstg = j.lstg
        /\ j.rlnk \in [Members -> BOOLEAN] /\ j.rstg \in [Members -> OptIno]
    BY ZeroIno DEF Journal, SameDecision
  <2> SUFFICES Sound(k) OBVIOUS
  <2> HIDE DEF k
  <2>2. Destructive(k) = Destructive(j) /\ Published(k) = Published(j) BY <2>1, SamePlan DEF SameDecision
  <2> QED BY <1>0, <1>3, <2>1, <2>2 DEF Sound, Decodes, Bare, SameDecision, TerminalPhases
<1>4. ASSUME j.rstg[n] # 0 PROVE Sound([j EXCEPT !.rlnk[n] = TRUE])
  <2> DEFINE k == [j EXCEPT !.rlnk[n] = TRUE]
  <2>1. /\ SameDecision(j, k) /\ k.rlnk = [j.rlnk EXCEPT ![n] = TRUE] /\ k.ready = j.ready
        /\ k.prom = j.prom /\ k.rest = j.rest /\ k.rstg = j.rstg /\ k.lstg = j.lstg
        /\ j.rlnk \in [Members -> BOOLEAN]
    BY ZeroIno DEF Journal, SameDecision
  <2> SUFFICES Sound(k) OBVIOUS
  <2> HIDE DEF k
  <2>2. Destructive(k) = Destructive(j) /\ Published(k) = Published(j) BY <2>1, SamePlan DEF SameDecision
  <2> QED BY <1>0, <1>4, <2>1, <2>2 DEF Sound, Decodes, Bare, SameDecision, TerminalPhases
<1>5. ASSUME i # 0, n \in Destructive(j), j.phase \in {"Prepared", "RollingBack"}
      PROVE  Sound([j EXCEPT !.rstg[n] = i])
  <2> DEFINE k == [j EXCEPT !.rstg[n] = i]
  <2>1. /\ SameDecision(j, k) /\ k.rstg = [j.rstg EXCEPT ![n] = i] /\ k.ready = j.ready
        /\ k.prom = j.prom /\ k.rest = j.rest /\ k.rlnk = j.rlnk /\ k.lstg = j.lstg
        /\ j.rstg \in [Members -> OptIno]
    BY ZeroIno DEF Journal, SameDecision
  <2> SUFFICES Sound(k) OBVIOUS
  <2> HIDE DEF k
  <2>2. Destructive(k) = Destructive(j) /\ Published(k) = Published(j) BY <2>1, SamePlan DEF SameDecision
  <2> QED BY <1>0, <1>5, <2>1, <2>2 DEF Sound, Decodes, SameDecision, TerminalPhases
<1>6. ASSUME i # 0, Clear(j.lstg), j.phase \in {"Prepared", "RollingBack"}
      PROVE  Sound([j EXCEPT !.rest[n] = i])
  <2> DEFINE k == [j EXCEPT !.rest[n] = i]
  <2>1. /\ SameDecision(j, k) /\ k.rest = [j.rest EXCEPT ![n] = i] /\ k.ready = j.ready
        /\ k.prom = j.prom /\ k.rstg = j.rstg /\ k.rlnk = j.rlnk /\ k.lstg = j.lstg
        /\ j.rest \in [Members -> OptIno]
    BY ZeroIno DEF Journal, SameDecision
  <2> SUFFICES Sound(k) OBVIOUS
  <2> HIDE DEF k
  <2>2. Destructive(k) = Destructive(j) /\ Published(k) = Published(j) BY <2>1, SamePlan DEF SameDecision
  <2> QED BY <1>0, <1>6, <2>1, <2>2 DEF Sound, Decodes, SameDecision, TerminalPhases
<1>7. ASSUME i # 0, n \in Published(j), j.rest[n] = 0, j.phase = "Prepared"
      PROVE  Sound([j EXCEPT !.prom[n] = i, !.lstg[n] = i])
  <2> DEFINE k == [j EXCEPT !.prom[n] = i, !.lstg[n] = i]
  <2>1. /\ SameDecision(j, k) /\ k.prom = [j.prom EXCEPT ![n] = i] /\ k.ready = j.ready
        /\ k.rest = j.rest /\ k.rstg = j.rstg /\ k.rlnk = j.rlnk /\ k.lstg = [j.lstg EXCEPT ![n] = i]
        /\ j.prom \in [Members -> OptIno] /\ j.lstg \in [Members -> OptIno]
    BY ZeroIno DEF Journal, SameDecision
  <2> SUFFICES Sound(k) OBVIOUS
  <2> HIDE DEF k
  <2>2. Destructive(k) = Destructive(j) /\ Published(k) = Published(j) BY <2>1, SamePlan DEF SameDecision
  <2> QED BY <1>0, <1>7, <2>1, <2>2 DEF Sound, Decodes, SameDecision, TerminalPhases
<1>8. Sound([j EXCEPT !.ready = FALSE])
  <2> DEFINE k == [j EXCEPT !.ready = FALSE]
  <2>1. /\ SameDecision(j, k) /\ k.ready = FALSE /\ k.prom = j.prom /\ k.rest = j.rest
        /\ k.rstg = j.rstg /\ k.rlnk = j.rlnk /\ k.lstg = j.lstg
    BY ZeroIno DEF Journal, SameDecision
  <2> SUFFICES Sound(k) OBVIOUS
  <2> HIDE DEF k
  <2>2. Destructive(k) = Destructive(j) /\ Published(k) = Published(j) BY <2>1, SamePlan DEF SameDecision
  <2> QED BY <1>0, <2>1, <2>2 DEF Sound, Decodes, Bare, SameDecision, TerminalPhases
<1>9. ASSUME j.phase \in {"Prepared", "RollingBack"}, \A m \in Destructive(j) : j.rlnk[m]
      PROVE  Sound([j EXCEPT !.ready = TRUE])
  <2> DEFINE k == [j EXCEPT !.ready = TRUE]
  <2>1. /\ SameDecision(j, k) /\ k.ready = TRUE /\ k.prom = j.prom /\ k.rest = j.rest
        /\ k.rstg = j.rstg /\ k.rlnk = j.rlnk /\ k.lstg = j.lstg
    BY ZeroIno DEF Journal, SameDecision
  <2> SUFFICES Sound(k) OBVIOUS
  <2> HIDE DEF k
  <2>2. Destructive(k) = Destructive(j) /\ Published(k) = Published(j) BY <2>1, SamePlan DEF SameDecision
  <2> QED BY <1>0, <1>9, <2>1, <2>2 DEF Sound, Decodes, SameDecision, TerminalPhases
<1> QED BY <1>1, <1>2, <1>3, <1>4, <1>5, <1>6, <1>7, <1>8, <1>9

\* A change of phase keeps it sound when the new phase's demands are met.
LEMMA SoundPhases ==
    ASSUME NEW j \in Journal, NEW k \in Journal, Sound(j), SameNames(j, k), k.phase # "Setup",
           k.pers \in CASE k.phase = "Prepared"         -> {"Prepared", "DurabilityUncertain"}
                        [] k.phase \in CommittedPhases  -> {"Committed", "DurabilityUncertain"}
                        [] OTHER                        -> {"Aborted", "DurabilityUncertain"},
           k.restored = (k.phase \in {"RollbackCleanup", "RolledBack"}),
           k.phase \in CommittedPhases => \A m \in Published(j) : j.prom[m] # 0,
           k.phase \in TerminalPhases => ~k.ready /\ Clear(j.lstg) /\ Clear(j.rstg),
           k.ready => k.phase = "Committing" \/ (j.ready /\ k.phase = j.phase)
    PROVE  Sound(k)
<1>1. /\ Destructive(k) = Destructive(j) /\ Published(k) = Published(j)
      /\ k.prom = j.prom /\ k.rest = j.rest /\ k.lstg = j.lstg /\ k.rstg = j.rstg /\ k.rlnk = j.rlnk
  BY SamePlan DEF SameNames
<1>2. Destructive(j) \subseteq Members /\ Published(j) \subseteq Members BY DEF Destructive, Published
<1>3. k.phase \in Phases BY DEF Journal
<1> QED BY <1>1, <1>2, <1>3 DEF Sound, Decodes, Phases, TerminalPhases, CommittedPhases

\* A record that is there constrains the phase and the restored mark alone.
LEMMA AgreeByPhase ==
    ASSUME NEW j, NEW k, NEW rec, rec # NoReceipt, AgreesWithReceipt(j, rec)
    PROVE  /\ k.phase = j.phase /\ k.restored = j.restored => AgreesWithReceipt(k, rec)
           /\ j.phase \in CommittedPhases \ {"RolledBack"} /\ k.phase \in CommittedPhases
                 => AgreesWithReceipt(k, rec)
           /\ j.phase \in {"Prepared", "AbortCleanup"} /\ k.phase \in Phases \ {"Setup"}
                 => AgreesWithReceipt(k, rec)
BY DEF AgreesWithReceipt, Phases, CommittedPhases

\* The terminal record agrees with the journal it is made from.
LEMMA TerminalAgrees ==
    ASSUME NEW j \in Journal, NEW rec, Decodes(j), j.phase \in TerminalPhases
    PROVE  AgreesWithReceipt(j, TerminalReceipt(j, rec)) /\ TerminalReceipt(j, rec) # NoReceipt
<1>1. TerminalReceipt(j, rec).pers = IF j.phase = "Aborted" THEN "Aborted" ELSE "Committed"
  BY DEF TerminalReceipt
<1>2. TerminalReceipt(j, rec).restored = j.restored BY DEF TerminalReceipt
<1>3. TerminalReceipt(j, rec) # NoReceipt BY DEF TerminalReceipt, NoReceipt
<1> QED BY <1>1, <1>2, <1>3 DEF AgreesWithReceipt, Decodes, TerminalPhases, CommittedPhases

-----------------------------------------------------------------------------
LEMMA UndecidedAgrees ==
    ASSUME NEW j, NEW rec, Undecided(rec), j.phase # "Setup"
    PROVE  AgreesWithReceipt(j, rec)
BY DEF Undecided, AgreesWithReceipt

\* A journal written by a step that works on the one on disk.
LEMMA WriteDecodes ==
    ASSUME StagingInv, DecodeInv, NEW k \in Journal, NEW n, WriteJournal(k, n), pc \in SyncedSteps,
           k.req = mem.req, Sound(k), AgreesWithReceipt(k, receipts[k.req]),
           run = "commit" => k.phase \in {"Prepared", "Committing", "Committed"},
           pc' = n => InRun'
    PROVE  DecodeInv'
<1>1. fence = "journal" /\ jr = mem BY DEF StagingInv, Synced
<1>2. /\ mem' = k /\ UNCHANGED <<fence, undo, receipts, run>>
      /\ \/ jr' = k /\ pc' = n
         \/ run = "commit" /\ pc' = "failed" /\ jr' = jr
  BY DEF WriteJournal
<1>3. OnDisk' BY <1>1, <1>2 DEF DecodeInv, OnDisk
<1>4. InUndo' BY <1>2 DEF DecodeInv, InUndo
<1>5. InRun'
  <2>1. CASE pc' = n BY <2>1
  <2>2. CASE run = "commit" /\ pc' = "failed"
    <3>1. Undecided(receipts[mem.req]) BY <2>2 DEF DecodeInv, InRun, Runs, Records
    <3>2. Undecided(receipts[k.req]) /\ receipts[k.req] # NoReceipt BY <3>1 DEF Undecided
    <3>3. Runs' /\ Records' BY <1>2, <2>2, <3>2 DEF Runs, Records
    <3>4. Phased' /\ Staged' BY <1>2, <2>2 DEF Phased, Staged
    <3> QED BY <3>3, <3>4 DEF InRun
  <2> QED BY <1>2, <2>1, <2>2
<1> QED BY <1>3, <1>4, <1>5 DEF DecodeInv

\* What such a step knows.
LEMMA AtWork ==
    ASSUME TypeInv, StagingInv, DecodeInv, pc \in SyncedSteps
    PROVE  /\ mem \in Journal /\ fence = "journal" /\ jr = mem
           /\ Sound(mem) /\ AgreesWithReceipt(mem, receipts[mem.req])
           /\ pc \notin SetupSteps => receipts[mem.req] # NoReceipt
BY DEF TypeInv, Held, StagingInv, Synced, DecodeInv, OnDisk, InRun, Records

LEMMA RefuseDecodes ==
    ASSUME TypeInv, StagingInv, DecodeInv, Refuse, pc \in SyncedSteps \cup {"recover", "op"}
    PROVE  DecodeInv'
<1>1. UNCHANGED <<fence, jr, undo, receipts, run, mem>> /\ pc' = IF run = "commit" THEN "failed" ELSE "refused"
  BY DEF Refuse
<1>2. OnDisk' /\ InUndo' BY <1>1 DEF DecodeInv, OnDisk, InUndo
<1>3. CASE run = "commit"
  <2>1. pc \in SyncedSteps BY <1>3 DEF DecodeInv, InRun, Runs, StagingInv, Synced
  <2>2. pc \in RecordSteps BY <1>3, <2>1 DEF DecodeInv, InRun, Runs
  <2>3. Undecided(receipts[mem.req]) /\ receipts[mem.req] # NoReceipt
    BY <1>3, <2>2 DEF DecodeInv, InRun, Records, Undecided
  <2>4. mem.phase \in {"Prepared", "Committing", "Committed"}
    BY <1>3, <2>1 DEF DecodeInv, InRun, Runs, Phased, StagingInv, Progress
  <2>5. Sound(mem) BY <2>1, AtWork
  <2>6. Runs' /\ Records' BY <1>1, <1>3, <2>3 DEF Runs, Records
  <2>7. Phased' /\ Staged' BY <1>1, <1>3, <2>4, <2>5 DEF Phased, Staged
  <2> QED BY <1>2, <2>6, <2>7 DEF DecodeInv, InRun
<1>4. CASE run # "commit"
  <2>1. InRun' BY <1>1, <1>4 DEF InRun, Runs, Records, Phased, Staged
  <2> QED BY <1>2, <2>1 DEF DecodeInv
<1> QED BY <1>3, <1>4

LEMMA ReleaseDecodes ==
    ASSUME DecodeInv, Release, OnDisk', InUndo'
    PROVE  DecodeInv'
<1>1. InRun' BY DEF Release, InRun, Runs, Records, Phased, Staged
<1> QED BY <1>1 DEF DecodeInv

LEMMA ReturnDecodes == ASSUME DecodeInv, Return PROVE DecodeInv'
BY ReleaseDecodes DEF Return, DecodeInv, OnDisk, InUndo

LEMMA InitDecodes == Init => DecodeInv
BY DEF Init, DecodeInv, OnDisk, InUndo, InRun, Runs, Records, Phased, Staged

\* What a record is asked for is untouched by its settling and its age.
LEMMA SameAnswer ==
    ASSUME DecodeInv, NEW r \in Requests, NEW rec, receipts' = [receipts EXCEPT ![r] = rec],
           receipts \in [Requests -> Receipt \cup {NoReceipt}], receipts[r] # NoReceipt,
           rec # NoReceipt, rec.pers = receipts[r].pers, rec.restored = receipts[r].restored,
           UNCHANGED <<fence, jr, undo>>, TypeInv
    PROVE  OnDisk' /\ InUndo'
<1>1. ASSUME NEW s \in Requests, NEW j, AgreesWithReceipt(j, receipts[s])
      PROVE  AgreesWithReceipt(j, receipts'[s])
  <2>1. /\ (receipts'[s] = NoReceipt) = (receipts[s] = NoReceipt)
        /\ receipts[s] # NoReceipt => receipts'[s].pers = receipts[s].pers
                                        /\ receipts'[s].restored = receipts[s].restored
    OBVIOUS
  <2> QED BY <1>1, <2>1 DEF AgreesWithReceipt
<1>2. OnDisk'
  <2>1. fence = "journal" => jr.req \in Requests BY DEF TypeInv, Held, Journal
  <2> QED BY <1>1, <2>1 DEF DecodeInv, OnDisk
<1>3. InUndo' BY <1>1 DEF DecodeInv, InUndo
<1> QED BY <1>2, <1>3

LEMMA EnvironmentDecodes ==
    ASSUME TypeInv, StagingInv, DecodeInv,
           \/ \E r \in Requests : Plan(r) \/ Age(r)
           \/ \E op \in Ops, r \in Requests : Begin(op, r)
           \/ \E m \in Members : Edit(m)
           \/ Crash \/ IoError \/ FailSkipCleanup
    PROVE  DecodeInv'
<1>1. ASSUME NEW r \in Requests, Plan(r) PROVE DecodeInv'
  BY <1>1 DEF Plan, DecodeInv, OnDisk, InUndo, InRun, Runs, Records, Phased, Staged
<1>2. ASSUME NEW r \in Requests, Age(r) PROVE DecodeInv'
  <2>1. receipts[r] # NoReceipt /\ receipts[r] \in Receipt /\ receipts \in [Requests -> Receipt \cup {NoReceipt}]
    BY <1>2 DEF Age, Terminal, TypeInv, TypeOK
  <2> DEFINE rec == [receipts[r] EXCEPT !.old = TRUE]
  <2>2. rec # NoReceipt /\ rec.pers = receipts[r].pers /\ rec.restored = receipts[r].restored
    BY <2>1 DEF Receipt, NoReceipt
  <2>3. receipts' = [receipts EXCEPT ![r] = rec] /\ UNCHANGED <<fence, jr, undo, pc, mem, run, call, left>>
        /\ pc = "idle"
    BY <1>2 DEF Age
  <2> HIDE DEF rec
  <2>4. OnDisk' /\ InUndo' BY <2>1, <2>2, <2>3, SameAnswer
  <2>5. InRun' BY <2>3 DEF InRun, Runs, Records, Phased, Staged
  <2> QED BY <2>4, <2>5 DEF DecodeInv
<1>3. ASSUME NEW op \in Ops, NEW r \in Requests, Begin(op, r) PROVE DecodeInv'
  BY <1>3 DEF Begin, DecodeInv, OnDisk, InUndo, InRun, Runs, Records, Phased, Staged
<1>4. ASSUME NEW m \in Members, Edit(m) PROVE DecodeInv'
  <2>1. UNCHANGED <<fence, jr, undo, receipts, pc, call, run, mem, left>> BY <1>4 DEF Edit
  <2>2. OnDisk' /\ InUndo' BY <2>1 DEF DecodeInv, OnDisk, InUndo
  <2>3. InRun' BY <2>1 DEF DecodeInv, InRun, Runs, Records, Phased, Staged
  <2> QED BY <2>2, <2>3 DEF DecodeInv
<1>5. ASSUME Crash PROVE DecodeInv'
  BY <1>5, ReleaseDecodes DEF Crash, DecodeInv, OnDisk, InUndo
<1>6. ASSUME IoError \/ FailSkipCleanup PROVE DecodeInv'
  <2>1. /\ UNCHANGED <<fence, jr, undo, receipts, run, mem>> /\ run = "commit"
        /\ \/ pc \in {"stage", "promote", "promoted", "cleanup", "goal", "terminal", "receipt"} /\ pc' = "failed"
           \/ pc = "failed" /\ pc' = "failjournal"
    BY <1>6 DEF IoError, FailSkipCleanup, DecodeInv, InRun, Runs
  <2>2. OnDisk' /\ InUndo' BY <2>1 DEF DecodeInv, OnDisk, InUndo
  <2>3. Undecided(receipts[mem.req]) /\ receipts[mem.req] # NoReceipt
    BY <2>1 DEF DecodeInv, InRun, Records, Undecided
  <2>4. Sound(mem) /\ mem.phase \in {"Prepared", "Committing", "Committed"}
    BY <2>1, AtWork DEF DecodeInv, InRun, Runs, Phased
  <2>5. Runs' /\ Records' BY <2>1, <2>3 DEF Runs, Records
  <2>6. Phased' /\ Staged' BY <2>1, <2>4 DEF Phased, Staged
  <2> QED BY <2>2, <2>5, <2>6 DEF DecodeInv, InRun
<1> QED BY <1>1, <1>2, <1>3, <1>4, <1>5, <1>6

LEMMA SomeMember == 1 \in Members
BY DEF Members

\* A step that leaves the journals and the ledger alone.
LEMMA QuietDecodes ==
    ASSUME DecodeInv, UNCHANGED <<fence, jr, undo, receipts>>, InRun'
    PROVE  DecodeInv'
BY DEF DecodeInv, OnDisk, InUndo

LEMMA TreeDecodes == ASSUME DecodeInv, TreeStep(pc), UNCHANGED left PROVE DecodeInv'
<1>1. UNCHANGED <<fence, jr, undo, receipts, pc, call, run, mem, left>> BY DEF TreeStep
<1>2. InRun' BY <1>1 DEF DecodeInv, InRun, Runs, Records, Phased, Staged
<1> QED BY <1>1, <1>2, QuietDecodes

\* A record made from the retained undo of a request whose fence is gone.
LEMMA RecordDecodes ==
    ASSUME TypeInv, DecodeInv, NEW r \in Requests, NEW rec, undo[r] # NoJournal,
           receipts' = [receipts EXCEPT ![r] = TerminalReceipt(undo[r], rec)],
           fence # "journal", UNCHANGED <<fence, undo>>
    PROVE  OnDisk' /\ InUndo'
<1>1. undo[r] \in Journal BY DEF TypeInv, TypeOK
<1>2. AgreesWithReceipt(undo[r], TerminalReceipt(undo[r], rec))
  BY <1>1, TerminalAgrees DEF DecodeInv, InUndo, Sound
<1>3. \A s \in Requests : receipts'[s] = IF s = r THEN TerminalReceipt(undo[r], rec) ELSE receipts[s]
  BY DEF TypeInv, TypeOK
<1>4. InUndo' BY <1>2, <1>3 DEF DecodeInv, InUndo
<1> QED BY <1>4 DEF OnDisk

LEMMA RecoveryDecodes ==
    ASSUME TypeInv, StagingInv, DecodeInv,
           \/ RecoverStage \/ Reconcile \/ RecoverBare \/ RemoveSetup
           \/ RecoverJournal \/ CleanStaging
    PROVE  DecodeInv'
<1>0. pc = "recover" => run = "recover" BY DEF StagingInv, Synced
<1>1. ASSUME RecoverStage \/ RemoveSetup PROVE DecodeInv'
  <2>1. /\ fence' # "journal" /\ pc' \in {"op", "unstage"} /\ pc \in {"recover", "unstage"}
        /\ UNCHANGED <<undo, receipts, run>>
    BY <1>1 DEF RecoverStage, RemoveSetup
  <2>2. run = "recover" BY <1>0, <2>1 DEF DecodeInv, InRun, Runs
  <2>3. InRun' BY <2>1, <2>2 DEF InRun, Runs, Records, Phased, Staged
  <2> QED BY <2>1, <2>3 DEF DecodeInv, OnDisk, InUndo
<1>2. ASSUME Reconcile PROVE DecodeInv'
  <2>0. pc = "recover" /\ fence = "none" BY <1>2 DEF Reconcile
  <2>1. CASE Refuse BY <2>0, <2>1, RefuseDecodes
  <2>2. CASE Goto("op")
    <3>1. InRun' BY <1>0, <2>0, <2>2 DEF Goto, InRun, Runs, Records, Phased, Staged
    <3> QED BY <2>2, <3>1, QuietDecodes DEF Goto
  <2>3. ASSUME NEW r \in Requests, undo[r] # NoJournal,
               receipts' = [receipts EXCEPT ![r] = TerminalReceipt(undo[r], @)],
               UNCHANGED <<tree, fence, jr, undo, pc, call, run, mem, left, env, faults>>
        PROVE  DecodeInv'
    <3>1. OnDisk' /\ InUndo'
      <4>1. receipts' = [receipts EXCEPT ![r] = TerminalReceipt(undo[r], receipts[r])] BY <2>3
      <4> QED BY <2>0, <2>3, <4>1, RecordDecodes
    <3>2. InRun' BY <1>0, <2>0, <2>3 DEF InRun, Runs, Records, Phased, Staged
    <3> QED BY <3>1, <3>2 DEF DecodeInv
  <2> QED BY <1>2, <2>1, <2>2, <2>3 DEF Reconcile
<1>3. ASSUME RecoverBare PROVE DecodeInv'
  <2>1. InRun' BY <1>0, <1>3 DEF RecoverBare, Goto, InRun, Runs, Records, Phased, Staged
  <2> QED BY <1>3, <2>1, QuietDecodes DEF RecoverBare, Goto
<1>4. ASSUME RecoverJournal PROVE DecodeInv'
  <2>0. pc = "recover" /\ fence = "journal" BY <1>4 DEF RecoverJournal
  <2>1. CASE Refuse BY <2>0, <2>1, RefuseDecodes
  <2>2. CASE fence' = "bare" /\ pc' = "unstage" /\ UNCHANGED <<undo, receipts, run>>
    <3>1. InRun' BY <1>0, <2>0, <2>2 DEF InRun, Runs, Records, Phased, Staged
    <3> QED BY <2>2, <3>1 DEF DecodeInv, OnDisk, InUndo
  <2>3. CASE /\ receipts[jr.req] # NoReceipt /\ mem' = jr /\ pc' = "staging"
             /\ UNCHANGED <<fence, jr, undo, receipts, run>>
    <3>1. InRun' BY <1>0, <2>0, <2>3 DEF InRun, Runs, Records, Phased, Staged
    <3> QED BY <2>3, <3>1, QuietDecodes
  <2> QED BY <1>4, <2>1, <2>2, <2>3 DEF RecoverJournal
<1>5. ASSUME CleanStaging PROVE DecodeInv'
  <2>0. mem \in Journal /\ pc \in {"staging", "failed"} BY <1>5, CleanStagingDoes
  <2>a. /\ Sound(mem) /\ receipts[mem.req] # NoReceipt
        /\ pc = "staging" => AgreesWithReceipt(mem, receipts[mem.req])
    BY <2>0, AtWork DEF DecodeInv, InRun, Records, Phased
  <2>1. CASE Clear(mem.lstg) /\ Goto(IF pc = "staging" THEN "phase" ELSE "failjournal")
    <3>1. UNCHANGED <<fence, jr, undo, receipts, run, mem>> BY <2>1 DEF Goto
    <3>a. pc' = IF pc = "staging" THEN "phase" ELSE "failjournal" BY <2>1 DEF Goto
    <3>2. (pc = "staging" /\ pc' = "phase") \/ (pc = "failed" /\ pc' = "failjournal")
      BY <2>0, <3>a
    <3>3. Runs' /\ Records' BY <3>1, <3>2 DEF DecodeInv, InRun, Runs, Records
    <3>4. Phased' /\ Staged' BY <2>1, <3>1, <3>2 DEF DecodeInv, InRun, Phased, Staged
    <3> QED BY <3>1, <3>3, <3>4, QuietDecodes DEF InRun
  <2>2. ASSUME NEW n \in Members, fwd' = [fwd EXCEPT ![n] = 0], UNCHANGED <<files, rbk, left>>,
               TreeStep(pc)
        PROVE  DecodeInv'
    BY <2>2, TreeDecodes
  <2>3. ASSUME NEW n \in Members, Writes([mem EXCEPT !.lstg[n] = 0], pc) PROVE DecodeInv'
    <3> DEFINE k == [mem EXCEPT !.lstg[n] = 0]
    <3>1. Sound(k) BY <2>0, <2>a, ZeroIno, SoundLoops
    <3>2. SameDecision(mem, k) BY <2>0, ZeroIno DEF SameDecision, Journal
    <3>3. WriteJournal(k, pc) BY <2>3 DEF Writes
    <3> HIDE DEF k
    <3>4. k \in Journal /\ k.req = mem.req /\ k.phase = mem.phase /\ k.restored = mem.restored
      BY <3>2 DEF SameDecision
    <3>5. CASE pc = "staging"
      <4>1. AgreesWithReceipt(k, receipts[k.req]) BY <2>a, <3>4, <3>5, AgreeByPhase
      <4>2. run # "commit" BY <3>5 DEF DecodeInv, InRun, Runs
      <4>3. pc' = pc => InRun'
        BY <2>a, <3>3, <3>4, <3>5, <4>2 DEF WriteJournal, InRun, Runs, Records, Phased, Staged
      <4> QED BY <3>1, <3>3, <3>4, <3>5, <4>1, <4>2, <4>3, WriteDecodes
    <3>6. CASE pc = "failed"
      <4>1. /\ run = "commit" /\ mem.phase \in {"Prepared", "Committing", "Committed"}
            /\ Undecided(receipts[mem.req])
        BY <3>6 DEF DecodeInv, InRun, Runs, Records, Phased
      <4>2. AgreesWithReceipt(k, receipts[k.req]) BY <3>4, <4>1, UndecidedAgrees
      <4>3. /\ mem' = k /\ UNCHANGED <<fence, undo, receipts, run>> /\ pc' \in {"failed", "failjournal"}
            /\ jr' = k \/ jr' = jr
        BY <3>3, <3>6 DEF WriteJournal
      <4>4. OnDisk' BY <3>1, <4>2, <4>3 DEF DecodeInv, OnDisk
      <4>5. InUndo' BY <4>3 DEF DecodeInv, InUndo
      <4>6. Runs' /\ Records' BY <2>a, <3>4, <4>1, <4>3 DEF Runs, Records
      <4>7. Phased' /\ Staged' BY <3>1, <3>4, <4>1, <4>3 DEF Phased, Staged
      <4> QED BY <4>4, <4>5, <4>6, <4>7 DEF DecodeInv, InRun
    <3> QED BY <2>0, <3>5, <3>6
  <2> QED BY <1>5, <2>1, <2>2, <2>3, CleanStagingDoes
<1> QED BY <1>1, <1>2, <1>3, <1>4, <1>5

LEMMA CleanupDecodes ==
    ASSUME TypeInv, StagingInv, DecodeInv, ResolvePhase \/ CleanRollback \/ WriteGoal
    PROVE  DecodeInv'
<1>1. ASSUME ResolvePhase PROVE DecodeInv'
  <2>0. pc = "phase" BY <1>1 DEF ResolvePhase
  <2>1. /\ mem \in Journal /\ Sound(mem) /\ AgreesWithReceipt(mem, receipts[mem.req])
        /\ receipts[mem.req] # NoReceipt /\ mem.phase \in Phases /\ mem.ready \in BOOLEAN
    BY <2>0, AtWork DEF Journal
  <2>2. run # "commit" /\ Clear(mem.lstg) /\ mem.phase # "Setup"
    BY <2>0 DEF DecodeInv, InRun, Runs, Staged, StagingInv, Progress
  <2>3. CASE Refuse BY <2>0, <2>3, RefuseDecodes
  <2>4. ASSUME UNCHANGED <<fence, jr, undo, receipts, run, mem>>,
               \/ pc' = "restore" /\ mem.ready /\ mem.phase \in {"Prepared", "RollingBack"}
               \/ /\ pc' = "cleanup" /\ (mem.ready => mem.phase = "Committing")
                  /\ mem.phase \in {"Prepared", "AbortCleanup", "Committing", "RollingBack", "RollbackCleanup"}
               \/ pc' = "terminal" /\ mem.phase \in TerminalPhases
        PROVE  DecodeInv'
    <3>1. Runs' /\ Records' BY <2>1, <2>2, <2>4 DEF Runs, Records
    <3>2. Phased' BY <2>2, <2>4 DEF Phased
    <3>3. Staged' BY <2>2, <2>4 DEF Staged
    <3> QED BY <2>4, <3>1, <3>2, <3>3, QuietDecodes DEF InRun
  <2>5. CASE mem.phase \in {"Prepared", "RollingBack"} /\ mem.ready
    <3>1. Refuse \/ (pc' = "restore" /\ UNCHANGED <<fence, jr, undo, receipts, run, mem>>)
      BY <1>1, <2>5 DEF ResolvePhase
    <3> QED BY <2>3, <2>4, <2>5, <3>1
  <2>6. CASE (mem.phase = "Prepared" /\ ~mem.ready) \/ mem.phase \in {"AbortCleanup", "RollbackCleanup"}
    <3>1. Refuse \/ Goto("cleanup") BY <1>1, <2>6 DEF ResolvePhase
    <3>2. ~mem.ready BY <2>1, <2>6 DEF Sound, Decodes
    <3>3. Goto("cleanup") => pc' = "cleanup" /\ UNCHANGED <<fence, jr, undo, receipts, run, mem>> BY DEF Goto
    <3> QED BY <2>3, <2>4, <2>6, <3>1, <3>2, <3>3
  <2>7. CASE mem.phase = "Committing" \/ (mem.phase = "RollingBack" /\ ~mem.ready)
    <3>1. Refuse \/ Goto("cleanup") BY <1>1, <2>7 DEF ResolvePhase
    <3>3. Goto("cleanup") => pc' = "cleanup" /\ UNCHANGED <<fence, jr, undo, receipts, run, mem>> BY DEF Goto
    <3> QED BY <2>3, <2>4, <2>7, <3>1, <3>3
  <2>8. CASE mem.phase = "Committed"
    <3> DEFINE k == [mem EXCEPT !.pers = "Committed"]
    <3>1. Refuse \/ WriteJournal(k, "terminal") BY <1>1, <2>8 DEF ResolvePhase
    <3>2. /\ SameNames(mem, k) /\ k.phase = mem.phase /\ k.pers = "Committed" /\ k.ready = mem.ready
          /\ k.restored = mem.restored
      BY <2>1 DEF SameNames, Journal, Persistence
    <3> HIDE DEF k
    <3>3. Sound(k)
      <4>1. /\ mem.restored = FALSE /\ \A m \in Published(mem) : mem.prom[m] # 0
            /\ ~mem.ready /\ Clear(mem.lstg) /\ Clear(mem.rstg)
        BY <2>1, <2>8 DEF Sound, Decodes, CommittedPhases, TerminalPhases
      <4>2. k \in Journal BY <3>2 DEF SameNames
      <4>3. k.restored = (k.phase \in {"RollbackCleanup", "RolledBack"}) BY <2>1, <3>2 DEF Sound, Decodes
      <4>4. k.phase \in CommittedPhases BY <2>8, <3>2 DEF CommittedPhases
      <4> QED BY <2>1, <2>8, <3>2, <4>1, <4>2, <4>3, <4>4, SoundPhases
    <3>4. k \in Journal /\ k.req = mem.req /\ k.lstg = mem.lstg BY <3>2 DEF SameNames
    <3>5. AgreesWithReceipt(k, receipts[k.req]) BY <2>1, <3>2, <3>4, AgreeByPhase
    <3>6. ASSUME WriteJournal(k, "terminal") PROVE DecodeInv'
      <4>1. pc' = "terminal" => InRun'
        BY <2>1, <2>2, <2>8, <3>2, <3>4, <3>6
           DEF WriteJournal, InRun, Runs, Records, Phased, Staged, TerminalPhases
      <4> QED BY <2>0, <2>2, <3>3, <3>4, <3>5, <3>6, <4>1, WriteDecodes
    <3> QED BY <2>3, <3>1, <3>6
  <2>9. CASE mem.phase \in {"Aborted", "RolledBack"}
    <3>1. Refuse \/ Goto("terminal") BY <1>1, <2>9 DEF ResolvePhase
    <3>3. Goto("terminal") => pc' = "terminal" /\ UNCHANGED <<fence, jr, undo, receipts, run, mem>> BY DEF Goto
    <3> QED BY <2>3, <2>4, <2>9, <3>1, <3>3 DEF TerminalPhases
  <2> QED BY <2>1, <2>2, <2>5, <2>6, <2>7, <2>8, <2>9 DEF Phases
<1>2. ASSUME CleanRollback PROVE DecodeInv'
  <2>0. pc = "cleanup" BY <1>2 DEF CleanRollback
  <2>1. /\ mem \in Journal /\ Sound(mem) /\ AgreesWithReceipt(mem, receipts[mem.req])
        /\ receipts[mem.req] # NoReceipt /\ mem.ready \in BOOLEAN
    BY <2>0, AtWork DEF Journal
  <2>2. /\ mem.ready => mem.phase = "Committing"
        /\ mem.phase \in {"Prepared", "AbortCleanup", "Committing", "RollingBack", "RollbackCleanup"}
        /\ run = "commit" => mem.phase = "Committing" /\ Undecided(receipts[mem.req])
        /\ Clear(mem.lstg)
    BY <2>0 DEF DecodeInv, InRun, Records, Phased, Staged
  <2>3. ASSUME NEW k, NEW n, WriteJournal(k, n), SameDecision(mem, k), Sound(k), k.lstg = mem.lstg,
               \/ n = "cleanup" /\ k.ready = mem.ready
               \/ n = "goal" /\ ~k.ready /\ Clear(k.rstg)
        PROVE  DecodeInv'
    <3>1. k \in Journal /\ k.req = mem.req /\ k.phase = mem.phase /\ k.restored = mem.restored
      BY <2>3 DEF SameDecision
    <3>2. AgreesWithReceipt(k, receipts[k.req]) BY <2>1, <3>1, AgreeByPhase
    <3>3. pc' = n => InRun'
      <4>1. ASSUME pc' = n PROVE InRun'
        <5>1. mem' = k /\ UNCHANGED <<receipts, run>> BY <2>3 DEF WriteJournal
        <5>2. Runs' /\ Records' BY <2>1, <2>2, <2>3, <3>1, <4>1, <5>1 DEF Runs, Records
        <5>3. Phased' /\ Staged' BY <2>2, <2>3, <3>1, <4>1, <5>1 DEF Phased, Staged
        <5> QED BY <5>2, <5>3 DEF InRun
      <4> QED BY <4>1
    <3> QED BY <2>0, <2>2, <2>3, <3>1, <3>2, <3>3, WriteDecodes
  <2>4. CASE Clear(mem.rstg) /\ Writes([mem EXCEPT !.ready = FALSE], "goal")
    <3> DEFINE k == [mem EXCEPT !.ready = FALSE]
    <3>1. Sound(k) BY <2>1, SoundLoops, ZeroIno, SomeMember
    <3>2. /\ SameDecision(mem, k) /\ k.ready = FALSE /\ k.rstg = mem.rstg /\ k.lstg = mem.lstg
      BY <2>1 DEF SameDecision, Journal
    <3>3. WriteJournal(k, "goal") BY <2>4 DEF Writes
    <3> HIDE DEF k
    <3> QED BY <2>3, <2>4, <3>1, <3>2, <3>3
  <2>5. ASSUME NEW n \in Members, Writes([mem EXCEPT !.rlnk[n] = FALSE], pc) PROVE DecodeInv'
    <3> DEFINE k == [mem EXCEPT !.rlnk[n] = FALSE]
    <3>1. Sound(k) BY <2>1, <2>2, SoundLoops, ZeroIno
    <3>2. /\ SameDecision(mem, k) /\ k.ready = mem.ready /\ k.lstg = mem.lstg
      BY <2>1 DEF SameDecision, Journal
    <3>3. WriteJournal(k, pc) BY <2>5 DEF Writes
    <3> HIDE DEF k
    <3> QED BY <2>0, <2>3, <3>1, <3>2, <3>3
  <2>6. ASSUME NEW n \in Members, Writes([mem EXCEPT !.rstg[n] = 0, !.rlnk[n] = FALSE], pc) PROVE DecodeInv'
    <3> DEFINE k == [mem EXCEPT !.rstg[n] = 0, !.rlnk[n] = FALSE]
    <3>1. Sound(k) BY <2>1, <2>2, SoundLoops, ZeroIno
    <3>2. /\ SameDecision(mem, k) /\ k.ready = mem.ready /\ k.lstg = mem.lstg
      BY <2>1, ZeroIno DEF SameDecision, Journal
    <3>3. WriteJournal(k, pc) BY <2>6 DEF Writes
    <3> HIDE DEF k
    <3> QED BY <2>0, <2>3, <3>1, <3>2, <3>3
  <2>7. CASE Refuse BY <2>0, <2>7, RefuseDecodes
  <2>8. ASSUME NEW n \in Members, UNCHANGED left, TreeStep(pc) PROVE DecodeInv'
    BY <2>8, TreeDecodes
  <2> QED BY <1>2, <2>4, <2>5, <2>6, <2>7, <2>8, CleanRollbackDoes
<1>3. ASSUME WriteGoal PROVE DecodeInv'
  <2> DEFINE k == [mem EXCEPT !.phase = Goal(mem),
                              !.pers = IF Goal(mem) = "Aborted" THEN "Aborted" ELSE "Committed",
                              !.restored = (Goal(mem) = "RolledBack")]
  <2>0. pc = "goal" /\ WriteJournal(k, "terminal") BY <1>3 DEF WriteGoal
  <2>1. /\ mem \in Journal /\ Sound(mem) /\ AgreesWithReceipt(mem, receipts[mem.req])
        /\ receipts[mem.req] # NoReceipt
    BY <2>0, AtWork
  <2>2. /\ ~mem.ready /\ Clear(mem.rstg) /\ Clear(mem.lstg)
        /\ mem.phase \in {"Prepared", "AbortCleanup", "Committing", "RollingBack", "RollbackCleanup"}
        /\ run = "commit" => mem.phase = "Committing" /\ Undecided(receipts[mem.req])
    BY <2>0 DEF DecodeInv, InRun, Records, Phased, Staged
  <2>3. Goal(mem) \in TerminalPhases
        /\ (mem.phase \in {"Prepared", "AbortCleanup"} <=> Goal(mem) = "Aborted")
        /\ (mem.phase = "RollbackCleanup" <=> Goal(mem) = "RolledBack")
    BY <2>2 DEF Goal, TerminalPhases
  <2>4. /\ SameNames(mem, k) /\ k.phase = Goal(mem) /\ k.ready = mem.ready
        /\ k.pers = (IF Goal(mem) = "Aborted" THEN "Aborted" ELSE "Committed")
        /\ k.restored = (Goal(mem) = "RolledBack")
    BY <2>1, <2>3 DEF SameNames, Journal, Phases, Persistence, TerminalPhases
  <2> HIDE DEF k
  <2>5. k \in Journal /\ k.req = mem.req /\ k.lstg = mem.lstg BY <2>4 DEF SameNames
  <2>6. Goal(mem) # "Aborted" => mem.phase \in CommittedPhases \ {"RolledBack"} /\ Goal(mem) \in CommittedPhases
    BY <2>2, <2>3 DEF CommittedPhases, TerminalPhases
  <2>7. Sound(k)
    <3>1. Goal(mem) # "Aborted" => \A m \in Published(mem) : mem.prom[m] # 0
      BY <2>1, <2>6 DEF Sound, Decodes
    <3> QED BY <2>1, <2>2, <2>3, <2>4, <2>5, <2>6, <3>1, SoundPhases DEF TerminalPhases, CommittedPhases
  <2>8. AgreesWithReceipt(k, receipts[k.req])
    BY <2>1, <2>3, <2>4, <2>5, <2>6, AgreeByPhase DEF TerminalPhases, Phases
  <2>9. pc' = "terminal" => InRun'
    <3>1. ASSUME pc' = "terminal" PROVE InRun'
      <4>1. mem' = k /\ UNCHANGED <<receipts, run>> BY <2>0 DEF WriteJournal
      <4>2. run = "commit" => Goal(mem) = "Committed" BY <2>2 DEF Goal
      <4>3. Runs' /\ Records' BY <2>1, <2>2, <2>5, <3>1, <4>1 DEF Runs, Records
      <4>4. Phased' /\ Staged' BY <2>2, <2>3, <2>4, <2>5, <3>1, <4>1, <4>2 DEF Phased, Staged
      <4> QED BY <4>3, <4>4 DEF InRun
    <3> QED BY <3>1
  <2>a. run = "commit" => k.phase = "Committed" BY <2>2, <2>4 DEF Goal
  <2> QED BY <2>0, <2>5, <2>7, <2>8, <2>9, <2>a, WriteDecodes
<1> QED BY <1>1, <1>2, <1>3

LEMMA RestoreDecodes ==
    ASSUME TypeInv, StagingInv, DecodeInv, Restore \/ RestoreSwap \/ RestoreDone
    PROVE  DecodeInv'
<1>0. pc \in {"restore", "swap", "restored"} BY DEF Restore, RestoreSwap, RestoreDone
<1>1. /\ mem \in Journal /\ Sound(mem) /\ AgreesWithReceipt(mem, receipts[mem.req])
      /\ receipts[mem.req] # NoReceipt
  BY <1>0, AtWork
<1>2. /\ mem.ready /\ mem.phase \in {"Prepared", "RollingBack"} /\ Clear(mem.lstg)
      /\ run # "commit"
  BY <1>0 DEF DecodeInv, InRun, Runs, Phased, Staged
<1>3. ASSUME NEW k, NEW n, WriteJournal(k, n), SameDecision(mem, k), Sound(k), k.lstg = mem.lstg,
             k.ready = mem.ready, n \in {"restore", "swap"},
             n = "swap" => k.rest[First(left')] # 0
      PROVE  DecodeInv'
  <2>1. k \in Journal /\ k.req = mem.req /\ k.phase = mem.phase /\ k.restored = mem.restored
    BY <1>3 DEF SameDecision
  <2>2. AgreesWithReceipt(k, receipts[k.req]) BY <1>1, <2>1, AgreeByPhase
  <2>3. pc' = n => InRun'
    <3>1. ASSUME pc' = n PROVE InRun'
      <4>1. mem' = k /\ UNCHANGED <<receipts, run>> BY <1>3 DEF WriteJournal
      <4>2. Runs' /\ Records' BY <1>1, <1>2, <1>3, <2>1, <3>1, <4>1 DEF Runs, Records
      <4>3. Phased' /\ Staged' BY <1>2, <1>3, <2>1, <3>1, <4>1 DEF Phased, Staged
      <4> QED BY <4>2, <4>3 DEF InRun
    <3> QED BY <3>1
  <2> QED BY <1>0, <1>2, <1>3, <2>1, <2>2, <2>3, WriteDecodes
<1>4. ASSUME Restore PROVE DecodeInv'
  <2>0. pc = "restore" BY <1>4 DEF Restore
  <2>1. CASE Refuse BY <2>0, <2>1, RefuseDecodes
  <2>2. ASSUME Writes([mem EXCEPT
                         !.phase = IF mem.phase = "RollingBack" THEN "RollbackCleanup" ELSE "AbortCleanup",
                         !.pers = IF mem.phase = "RollingBack" THEN "Committed" ELSE "Aborted",
                         !.restored = (mem.phase = "RollingBack"),
                         !.ready = FALSE], "cleanup")
        PROVE  DecodeInv'
    <3> DEFINE explicit == mem.phase = "RollingBack"
               k == [mem EXCEPT !.phase = IF explicit THEN "RollbackCleanup" ELSE "AbortCleanup",
                                !.pers = IF explicit THEN "Committed" ELSE "Aborted",
                                !.restored = explicit, !.ready = FALSE]
    <3>1. WriteJournal(k, "cleanup") BY <2>2 DEF Writes
    <3>2. /\ SameNames(mem, k) /\ k.phase = (IF explicit THEN "RollbackCleanup" ELSE "AbortCleanup")
          /\ k.pers = (IF explicit THEN "Committed" ELSE "Aborted")
          /\ k.restored = explicit /\ k.ready = FALSE
      BY <1>1 DEF SameNames, Journal, Phases, Persistence
    <3> HIDE DEF k
    <3>3. k \in Journal /\ k.req = mem.req /\ k.lstg = mem.lstg BY <3>2 DEF SameNames
    <3>4. Sound(k)
      <4>1. explicit => \A m \in Published(mem) : mem.prom[m] # 0
        BY <1>1 DEF Sound, Decodes, CommittedPhases
      <4> QED BY <1>1, <3>2, <3>3, <4>1, SoundPhases DEF TerminalPhases, CommittedPhases
    <3>5. AgreesWithReceipt(k, receipts[k.req])
      BY <1>1, <1>2, <3>2, <3>3, AgreeByPhase DEF CommittedPhases, Phases
    <3>6. pc' = "cleanup" => InRun'
      <4>1. ASSUME pc' = "cleanup" PROVE InRun'
        <5>1. mem' = k /\ UNCHANGED <<receipts, run>> BY <3>1 DEF WriteJournal
        <5>2. Runs' /\ Records' BY <1>1, <1>2, <3>3, <4>1, <5>1 DEF Runs, Records
        <5>3. Phased' /\ Staged' BY <1>2, <3>2, <3>3, <4>1, <5>1 DEF Phased, Staged
        <5> QED BY <5>2, <5>3 DEF InRun
      <4> QED BY <4>1
    <3> QED BY <1>2, <2>0, <3>1, <3>3, <3>4, <3>5, <3>6, WriteDecodes
  <2>3. ASSUME files' = [files EXCEPT ![First(left)] = [val |-> None, ino |-> 0]], TreeStep(pc)
        PROVE  DecodeInv'
    <3>1. UNCHANGED <<fence, jr, undo, receipts, pc, call, run, mem>> BY <2>3 DEF TreeStep
    <3>2. InRun' BY <2>0, <3>1 DEF DecodeInv, InRun, Runs, Records, Phased, Staged
    <3> QED BY <3>1, <3>2, QuietDecodes
  <2>4. ASSUME NEW n \in left, n = First(left), rbk[n] # 0, Writes([mem EXCEPT !.rest[n] = rbk[n]], "swap")
        PROVE  DecodeInv'
    <3> DEFINE k == [mem EXCEPT !.rest[n] = rbk[n]]
    <3>0. n \in Members /\ rbk[n] \in OptIno BY DEF TypeInv, TypeOK
    <3>1. Sound(k) BY <1>1, <1>2, <2>4, <3>0, SoundLoops
    <3>2. /\ SameDecision(mem, k) /\ k.ready = mem.ready /\ k.lstg = mem.lstg /\ k.rest[n] = rbk[n]
      BY <1>1, <3>0 DEF SameDecision, Journal
    <3>3. WriteJournal(k, "swap") /\ UNCHANGED left BY <2>4 DEF Writes
    <3> HIDE DEF k
    <3> QED BY <1>3, <2>4, <3>1, <3>2, <3>3
  <2> QED BY <1>4, <2>1, <2>2, <2>3, <2>4, RestoreDoes
<1>5. ASSUME RestoreSwap PROVE DecodeInv'
  <2>1. /\ pc = "swap" /\ pc' = "restored"
        /\ UNCHANGED <<fence, jr, undo, receipts, call, run, mem, left>>
    BY <1>5 DEF RestoreSwap, TreeStep
  <2>2. InRun' BY <2>1 DEF DecodeInv, InRun, Runs, Records, Phased, Staged
  <2> QED BY <2>1, <2>2, QuietDecodes
<1>6. ASSUME RestoreDone PROVE DecodeInv'
  <2> DEFINE n == First(left)
             k == [mem EXCEPT !.rstg[n] = 0, !.rlnk[n] = FALSE]
  <2>0. pc = "restored" /\ WriteJournal(k, "restore") BY <1>6 DEF RestoreDone
  <2>1. n \in Members
    BY <2>0, FirstIsMember DEF TypeInv, TypeOK, Held
  <2>2. mem.rest[n] # 0 BY <2>0 DEF DecodeInv, InRun, Staged
  <2>3. Sound(k) /\ SameDecision(mem, k) /\ k.ready = mem.ready /\ k.lstg = mem.lstg
    <3> HIDE DEF n
    <3>1. Sound(k) BY <1>1, <2>1, <2>2, SoundLoops, ZeroIno
    <3>2. SameDecision(mem, k) /\ k.ready = mem.ready /\ k.lstg = mem.lstg
      BY <1>1, ZeroIno DEF SameDecision, Journal
    <3> QED BY <3>1, <3>2
  <2> HIDE DEF k
  <2> QED BY <1>3, <2>0, <2>3
<1> QED BY <1>4, <1>5, <1>6

LEMMA TerminalDecodes ==
    ASSUME TypeInv, StagingInv, DecodeInv, Terminalize \/ WriteReceipt \/ FailJournal \/ FailReceipt
    PROVE  DecodeInv'
<1>1. ASSUME Terminalize PROVE DecodeInv'
  <2>0. pc = "terminal" BY <1>1 DEF Terminalize
  <2>1. CASE Refuse BY <2>0, <2>1, RefuseDecodes
  <2>2. CASE ~Refuse
    <3>1. /\ undo' = [undo EXCEPT ![mem.req] = jr] /\ fence' = "none" /\ pc' = "receipt"
          /\ UNCHANGED <<receipts, run, mem>>
      BY <1>1, <2>2 DEF Terminalize
    <3>2. /\ mem \in Journal /\ jr = mem /\ Sound(mem) /\ AgreesWithReceipt(mem, receipts[mem.req])
      BY <2>0, AtWork
    <3>3. /\ mem.phase \in TerminalPhases /\ (run = "commit" => mem.phase = "Committed")
          /\ run = "commit" => Undecided(receipts[mem.req])
      BY <2>0 DEF DecodeInv, InRun, Phased, Records
    <3>4. mem.req \in Requests BY <3>2 DEF Journal
    <3>5. \A s \in Requests : undo'[s] = IF s = mem.req THEN mem ELSE undo[s]
      BY <3>1, <3>2 DEF TypeInv, TypeOK
    <3>6. OnDisk' BY <3>1 DEF OnDisk
    <3>7. InUndo' BY <3>1, <3>2, <3>3, <3>5 DEF DecodeInv, InUndo
    <3>8. Runs' /\ Records' BY <3>1, <3>3 DEF Runs, Records
    <3>9. Phased' /\ Staged' BY <3>1, <3>2, <3>3, <3>4, <3>5 DEF Phased, Staged
    <3> QED BY <3>6, <3>7, <3>8, <3>9 DEF DecodeInv, InRun
  <2> QED BY <2>1, <2>2
<1>2. ASSUME WriteReceipt PROVE DecodeInv'
  <2>0. pc = "receipt" /\ fence = "none" /\ UNCHANGED <<fence, jr, undo>>
    BY <1>2 DEF WriteReceipt, StagingInv, Synced
  <2>1. mem \in Journal /\ mem.req \in Requests /\ undo[mem.req] = mem /\ mem # NoJournal
    <3>1. mem \in Journal /\ undo[mem.req] = mem
      BY <2>0 DEF TypeInv, Held, DecodeInv, InRun, Phased
    <3>2. mem # NoJournal
      <4>1. "phase" \in DOMAIN mem BY <3>1 DEF Journal
      <4>2. "phase" \notin DOMAIN NoJournal BY DEF NoJournal
      <4> QED BY <4>1, <4>2
    <3> QED BY <3>1, <3>2 DEF Journal
  <2>2. receipts' = [receipts EXCEPT ![mem.req] = TerminalReceipt(undo[mem.req], receipts[mem.req])]
    BY <1>2, <2>1 DEF WriteReceipt
  <2>3. OnDisk' /\ InUndo' BY <2>0, <2>1, <2>2, RecordDecodes
  <2>4. (pc' = "idle" /\ run' = "recover") \/ (pc' = "op" /\ run' = "recover")
    BY <1>2 DEF WriteReceipt, Release
  <2>5. InRun' BY <2>4 DEF InRun, Runs, Records, Phased, Staged
  <2> QED BY <2>3, <2>5 DEF DecodeInv
<1>3. ASSUME FailJournal PROVE DecodeInv'
  <2> DEFINE k == Uncertain(mem)
  <2>0. /\ pc = "failjournal" /\ mem' = k /\ pc' = "failreceipt" /\ UNCHANGED <<fence, undo, receipts, run>>
        /\ jr' = jr \/ jr' = k
    BY <1>3 DEF FailJournal
  <2>1. /\ mem \in Journal /\ Sound(mem) /\ run = "commit" /\ Undecided(receipts[mem.req])
        /\ mem.phase \in {"Prepared", "Committing", "Committed"}
    BY <2>0 DEF TypeInv, Held, DecodeInv, InRun, Runs, Records, Phased
  <2>2. /\ SameNames(mem, k) /\ k.phase = mem.phase /\ k.pers = "DurabilityUncertain"
        /\ k.restored = mem.restored /\ k.ready = mem.ready
    BY <2>1 DEF Uncertain, SameNames, Journal, Persistence
  <2> HIDE DEF k
  <2>3. k \in Journal /\ k.req = mem.req BY <2>2 DEF SameNames
  <2>4. Sound(k)
    <3>1. /\ mem.phase \in CommittedPhases => \A m \in Published(mem) : mem.prom[m] # 0
          /\ mem.phase \in TerminalPhases => ~mem.ready /\ Clear(mem.lstg) /\ Clear(mem.rstg)
      BY <2>1 DEF Sound, Decodes
    <3>2. k.restored = (k.phase \in {"RollbackCleanup", "RolledBack"}) BY <2>1, <2>2 DEF Sound, Decodes
    <3>3. k.phase \in {"Prepared"} \cup CommittedPhases BY <2>1, <2>2 DEF CommittedPhases
    <3> QED BY <2>1, <2>2, <2>3, <3>1, <3>2, <3>3, SoundPhases
  <2>5. AgreesWithReceipt(k, receipts[k.req]) BY <2>1, <2>2, <2>3, UndecidedAgrees
  <2>6. OnDisk' BY <2>0, <2>4, <2>5 DEF DecodeInv, OnDisk
  <2>7. InUndo' BY <2>0 DEF DecodeInv, InUndo
  <2>8. Runs' /\ Records' BY <2>0, <2>1, <2>3 DEF Runs, Records, Undecided
  <2>9. Phased' /\ Staged' BY <2>0, <2>1, <2>2, <2>4 DEF Phased, Staged
  <2> QED BY <2>6, <2>7, <2>8, <2>9 DEF DecodeInv, InRun
<1>4. ASSUME FailReceipt PROVE DecodeInv'
  <2>0. pc = "failreceipt" /\ UNCHANGED <<fence, jr, undo>> /\ Release BY <1>4 DEF FailReceipt
  <2>1. CASE UNCHANGED receipts
    <3>1. OnDisk' /\ InUndo' BY <2>0, <2>1 DEF DecodeInv, OnDisk, InUndo
    <3> QED BY <2>0, <3>1, ReleaseDecodes
  <2> DEFINE rec == [pers |-> mem.pers, restored |-> mem.restored, settled |-> FALSE, old |-> FALSE]
  <2>2. CASE receipts' = [receipts EXCEPT ![mem.req] = rec]
    <3>1. /\ mem \in Journal /\ Sound(mem) /\ run = "commit" /\ Undecided(receipts[mem.req])
          /\ mem.phase \in {"Prepared", "Committing", "Committed"} /\ mem.pers = "DurabilityUncertain"
      BY <2>0 DEF TypeInv, Held, DecodeInv, InRun, Runs, Records, Phased
    <3>2. ~mem.restored BY <3>1 DEF Sound, Decodes
    <3>3. rec # NoReceipt /\ rec.pers = "DurabilityUncertain" /\ ~rec.restored
      BY <3>1, <3>2 DEF NoReceipt
    <3> HIDE DEF rec
    <3>4. Undecided(rec) BY <3>3 DEF Undecided
    <3>5. \A s \in Requests : receipts'[s] = IF s = mem.req THEN rec ELSE receipts[s]
      BY <2>2 DEF TypeInv, TypeOK
    <3>6. ASSUME NEW j, AgreesWithReceipt(j, receipts[mem.req]) PROVE AgreesWithReceipt(j, rec)
      BY <3>1, <3>4, <3>6 DEF Undecided, AgreesWithReceipt
    <3>7. OnDisk'
      <4>1. fence = "journal" => jr.req \in Requests BY DEF TypeInv, Held, Journal
      <4> QED BY <2>0, <3>5, <3>6, <4>1 DEF DecodeInv, OnDisk
    <3>8. InUndo' BY <2>0, <3>5, <3>6 DEF DecodeInv, InUndo
    <3> QED BY <2>0, <3>7, <3>8, ReleaseDecodes
  <2> QED BY <1>4, <2>1, <2>2 DEF FailReceipt
<1> QED BY <1>1, <1>2, <1>3, <1>4

LEMMA OperationDecodes ==
    ASSUME TypeInv, StagingInv, DecodeInv,
           \/ ReturnRefused \/ Lookup \/ Complete \/ Finalize \/ RollbackOpen \/ RollbackBegin
           \/ \E r \in Requests : ExpireReceipt(r)
    PROVE  DecodeInv'
<1>0. pc \in {"op", "admit"} => fence = "none" /\ run = "recover" /\ call.req \in Requests
  BY DEF StagingInv, Synced, DecodeInv, InRun, Runs, TypeInv, Held
<1>1. ASSUME ReturnRefused PROVE DecodeInv' BY <1>1, ReturnDecodes DEF ReturnRefused
<1>2. ASSUME Lookup PROVE DecodeInv'
  <2> DEFINE r == call.req
  <2>0. pc = "op" BY <1>2 DEF Lookup
  <2>1. CASE Return BY <2>1, ReturnDecodes
  <2>2. CASE Refuse BY <2>0, <2>2, RefuseDecodes
  <2>3. CASE receipts[r] = NoReceipt /\ Goto("admit")
    <3>1. pc' = "admit" /\ UNCHANGED <<fence, jr, undo, receipts, call, run>> BY <2>3 DEF Goto
    <3>2. InRun' BY <1>0, <2>0, <2>3, <3>1 DEF InRun, Runs, Records, Phased, Staged
    <3> QED BY <3>1, <3>2, QuietDecodes
  <2>4. CASE /\ undo[r] # NoJournal /\ Release /\ UNCHANGED <<fence, jr, undo>>
             /\ \/ receipts' = receipts
                \/ receipts' = [receipts EXCEPT ![r] = TerminalReceipt(undo[r], receipts[r])]
    <3>1. OnDisk' /\ InUndo'
      <4>1. CASE receipts' = receipts BY <2>4, <4>1 DEF DecodeInv, OnDisk, InUndo
      <4>2. CASE receipts' = [receipts EXCEPT ![r] = TerminalReceipt(undo[r], receipts[r])]
        BY <1>0, <2>0, <2>4, <4>2, RecordDecodes
      <4> QED BY <2>4, <4>1, <4>2
    <3> QED BY <2>4, <3>1, ReleaseDecodes
  <2> QED BY <1>2, <2>1, <2>2, <2>3, <2>4 DEF Lookup
<1>3. ASSUME Complete PROVE DecodeInv'
  <2> DEFINE r == call.req
             rec == [receipts[r] EXCEPT !.settled = TRUE]
  <2>0. pc = "op" /\ Release /\ UNCHANGED <<fence, jr, undo>> BY <1>3 DEF Complete
  <2>1. CASE ~Terminal(receipts[r])
    <3>1. receipts' = receipts BY <1>3, <2>1 DEF Complete
    <3>2. OnDisk' /\ InUndo' BY <2>0, <3>1 DEF DecodeInv, OnDisk, InUndo
    <3> QED BY <2>0, <3>2, ReleaseDecodes
  <2>2. CASE Terminal(receipts[r])
    <3>1. receipts' = [receipts EXCEPT ![r] = rec] BY <1>3, <2>2 DEF Complete
    <3>2. r \in Requests BY <1>0, <2>0
    <3>3. receipts[r] # NoReceipt /\ receipts[r] \in Receipt /\ receipts \in [Requests -> Receipt \cup {NoReceipt}]
      BY <2>2, <3>2 DEF Terminal, TypeInv, TypeOK
    <3>4. rec # NoReceipt /\ rec.pers = receipts[r].pers /\ rec.restored = receipts[r].restored
      <4>1. "old" \in DOMAIN rec BY <3>3 DEF Receipt
      <4>2. "old" \notin DOMAIN NoReceipt BY DEF NoReceipt
      <4> QED BY <3>3, <4>1, <4>2 DEF Receipt
    <3> HIDE DEF rec
    <3>5. OnDisk' /\ InUndo' BY <2>0, <3>1, <3>2, <3>3, <3>4, SameAnswer
    <3> QED BY <2>0, <3>5, ReleaseDecodes
  <2> QED BY <2>1, <2>2
<1>4. ASSUME Finalize PROVE DecodeInv'
  <2>0. /\ pc = "op" /\ Release /\ UNCHANGED <<fence, jr, receipts>>
        /\ undo' = undo \/ undo' = [undo EXCEPT ![call.req] = NoJournal]
    BY <1>4 DEF Finalize
  <2>1. OnDisk' BY <2>0 DEF DecodeInv, OnDisk
  <2>2. InUndo' BY <2>0 DEF DecodeInv, InUndo, TypeInv, TypeOK
  <2> QED BY <2>0, <2>1, <2>2, ReleaseDecodes
<1>5. ASSUME RollbackOpen PROVE DecodeInv'
  <2> DEFINE r == call.req
  <2>0. pc = "op" BY <1>5 DEF RollbackOpen
  <2>1. CASE Return BY <2>1, ReturnDecodes
  <2>2. CASE Refuse BY <2>0, <2>2, RefuseDecodes
  <2>3. CASE ~Return /\ ~Refuse
    <3>1. /\ undo[r] # NoJournal /\ undo[r].phase = "Committed"
          /\ undo' = [undo EXCEPT ![r] = NoJournal]
          /\ fence' = "journal" /\ jr' = undo[r] /\ mem' = undo[r]
          /\ run' = "rollback" /\ pc' = "rollback" /\ UNCHANGED receipts
      BY <1>5, <2>3 DEF RollbackOpen
    <3>2. undo[r] \in Journal /\ r \in Requests BY <1>0, <2>0, <3>1 DEF TypeInv, TypeOK
    <3>3. Sound(undo[r]) /\ AgreesWithReceipt(undo[r], receipts[r]) /\ undo[r].req = r
      BY <3>1, <3>2 DEF DecodeInv, InUndo
    <3>4. Clear(undo[r].lstg) BY <3>1, <3>3 DEF Sound, Decodes, TerminalPhases
    <3>5. receipts[r] # NoReceipt BY <3>1, <3>3 DEF AgreesWithReceipt
    <3>6. OnDisk' BY <3>1, <3>3 DEF OnDisk
    <3>7. InUndo' BY <3>1, <3>2 DEF DecodeInv, InUndo, TypeInv, TypeOK
    <3>8. Runs' /\ Records' BY <3>1, <3>3, <3>5 DEF Runs, Records
    <3>9. Phased' /\ Staged' BY <3>1, <3>4 DEF Phased, Staged
    <3> QED BY <3>6, <3>7, <3>8, <3>9 DEF DecodeInv, InRun
  <2> QED BY <2>1, <2>2, <2>3
<1>6. ASSUME RollbackBegin PROVE DecodeInv'
  <2> DEFINE k == [mem EXCEPT !.phase = "RollingBack", !.ready = FALSE]
  <2>0. pc = "rollback" /\ WriteJournal(k, "stage") BY <1>6 DEF RollbackBegin
  <2>1. /\ mem \in Journal /\ Sound(mem) /\ AgreesWithReceipt(mem, receipts[mem.req])
        /\ receipts[mem.req] # NoReceipt
    BY <2>0, AtWork
  <2>2. mem.phase = "Committed" /\ Clear(mem.lstg) /\ run = "rollback"
    BY <2>0 DEF DecodeInv, InRun, Phased, Staged, StagingInv, Progress
  <2>3. /\ SameNames(mem, k) /\ k.phase = "RollingBack" /\ k.pers = mem.pers
        /\ k.restored = mem.restored /\ k.ready = FALSE
    BY <2>1 DEF SameNames, Journal, Phases
  <2> HIDE DEF k
  <2>4. k \in Journal /\ k.req = mem.req /\ k.lstg = mem.lstg BY <2>3 DEF SameNames
  <2>5. Sound(k)
    <3>1. \A m \in Published(mem) : mem.prom[m] # 0
      BY <2>1, <2>2 DEF Sound, Decodes, CommittedPhases
    <3>2. k.restored = (k.phase \in {"RollbackCleanup", "RolledBack"})
      BY <2>1, <2>2, <2>3 DEF Sound, Decodes
    <3>3. k.phase \in CommittedPhases /\ k.phase \notin TerminalPhases
      BY <2>3 DEF CommittedPhases, TerminalPhases
    <3>4. k.pers \in {"Committed", "DurabilityUncertain"}
      BY <2>1, <2>2, <2>3 DEF Sound, Decodes, CommittedPhases
    <3> QED BY <2>1, <2>3, <2>4, <3>1, <3>2, <3>3, <3>4, SoundPhases
  <2>6. AgreesWithReceipt(k, receipts[k.req])
    BY <2>1, <2>2, <2>3, <2>4, AgreeByPhase DEF CommittedPhases
  <2>7. pc' = "stage" => InRun'
    <3>1. ASSUME pc' = "stage" PROVE InRun'
      <4>1. mem' = k /\ UNCHANGED <<receipts, run>> BY <2>0 DEF WriteJournal
      <4>2. Runs' /\ Records' BY <2>1, <2>2, <2>4, <3>1, <4>1 DEF Runs, Records
      <4>3. Phased' /\ Staged' BY <2>2, <2>3, <2>4, <3>1, <4>1 DEF Phased, Staged
      <4> QED BY <4>2, <4>3 DEF InRun
    <3> QED BY <3>1
  <2> QED BY <2>0, <2>2, <2>4, <2>5, <2>6, <2>7, WriteDecodes
<1>7. ASSUME NEW r \in Requests, ExpireReceipt(r) PROVE DecodeInv'
  <2>0. /\ pc = "admit" /\ receipts[r] # NoReceipt
        /\ UNCHANGED <<fence, jr, pc, call, run, mem, left>>
        /\ \/ undo' = [undo EXCEPT ![r] = NoJournal] /\ UNCHANGED receipts
           \/ undo[r] = NoJournal /\ receipts' = [receipts EXCEPT ![r] = NoReceipt] /\ UNCHANGED undo
    BY <1>7 DEF ExpireReceipt, Expired, Terminal
  <2>1. OnDisk' BY <1>0, <2>0 DEF OnDisk
  <2>2. InUndo' BY <2>0 DEF DecodeInv, InUndo, TypeInv, TypeOK
  <2>3. Runs' /\ Phased' /\ Staged' BY <2>0 DEF DecodeInv, InRun, Runs, Phased, Staged
  <2>4. Records' BY <1>0, <2>0 DEF DecodeInv, InRun, Records, TypeInv, TypeOK
  <2> QED BY <2>1, <2>2, <2>3, <2>4 DEF DecodeInv, InRun
<1> QED BY <1>1, <1>2, <1>3, <1>4, <1>5, <1>6, <1>7

LEMMA SetupSound ==
    ASSUME NEW r
    PROVE  LET j == SetupJournal(r)
           IN  Sound(j) /\ Bare(j) /\ j.phase = "Setup" /\ j.pers = "Prepared" /\ j.req = r
<1> DEFINE j == SetupJournal(r)
<1>1. /\ j.phase = "Setup" /\ j.pers = "Prepared" /\ j.req = r /\ j.restored = FALSE /\ j.ready = FALSE
      /\ \A m \in Members : /\ j.prom[m] = 0 /\ j.rest[m] = 0 /\ j.lstg[m] = 0 /\ j.rstg[m] = 0
                            /\ j.rlnk[m] = FALSE
  BY DEF SetupJournal
<1> HIDE DEF j
<1>2. Bare(j) BY <1>1 DEF Bare
<1>3. "Setup" \notin TerminalPhases /\ "Setup" \notin CommittedPhases BY DEF TerminalPhases, CommittedPhases
<1>4. j.restored = (j.phase \in {"RollbackCleanup", "RolledBack"})
  <2>1. (j.phase \in {"RollbackCleanup", "RolledBack"}) = FALSE BY <1>1
  <2> QED BY <1>1, <2>1, Zenon
<1>5. Decodes(j) BY <1>1, <1>2, <1>3, <1>4 DEF Decodes
<1>6. Sound(j) BY <1>1, <1>5 DEF Sound
<1> QED BY <1>1, <1>2, <1>6 DEF j

LEMMA PrepareDecodes ==
    ASSUME TypeInv, StagingInv, DecodeInv,
           Admit \/ PublishFence \/ WriteSetup \/ WritePrepared \/ PublishReceipt
    PROVE  DecodeInv'
<1>1. ASSUME Admit PROVE DecodeInv'
  <2>0. pc = "admit" BY <1>1 DEF Admit
  <2>1. CASE Return BY <2>1, ReturnDecodes
  <2>2. CASE ~Return
    <3>1. /\ mem' = SetupJournal(call.req) /\ fence' = "stage" /\ pc' = "fence"
          /\ UNCHANGED <<undo, receipts, run>>
      BY <1>1, <2>2 DEF Admit
    <3>2. run = "recover" /\ receipts[call.req] = NoReceipt
      BY <2>0 DEF DecodeInv, InRun, Runs, Records
    <3>3. /\ Sound(mem') /\ Bare(mem') /\ mem'.phase = "Setup" /\ mem'.pers = "Prepared"
          /\ mem'.req = call.req
      BY <3>1, SetupSound
    <3>4. OnDisk' /\ InUndo' BY <3>1 DEF DecodeInv, OnDisk, InUndo
    <3>5. Runs' /\ Records' BY <3>1, <3>2, <3>3 DEF Runs, Records
    <3>6. Phased' /\ Staged' BY <3>1, <3>3 DEF Phased, Staged
    <3> QED BY <3>4, <3>5, <3>6 DEF DecodeInv, InRun
  <2> QED BY <2>1, <2>2
<1>2. ASSUME PublishFence PROVE DecodeInv'
  <2>1. /\ pc = "fence" /\ pc' = "setup" /\ fence' = "bare"
        /\ UNCHANGED <<undo, receipts, run, mem>>
    BY <1>2 DEF PublishFence
  <2>2. OnDisk' /\ InUndo' BY <2>1 DEF DecodeInv, OnDisk, InUndo
  <2>3. InRun' BY <2>1 DEF DecodeInv, InRun, Runs, Records, Phased, Staged
  <2> QED BY <2>2, <2>3 DEF DecodeInv
<1>3. ASSUME WriteSetup PROVE DecodeInv'
  <2>1. /\ pc = "setup" /\ pc' = "blobs" /\ fence' = "journal" /\ jr' = mem
        /\ UNCHANGED <<undo, receipts, run, mem>>
    BY <1>3 DEF WriteSetup
  <2>2. /\ Sound(mem) /\ Bare(mem) /\ mem.phase = "Setup" /\ mem.pers = "Prepared"
        /\ receipts[mem.req] = NoReceipt
    BY <2>1 DEF DecodeInv, InRun, Phased, Records
  <2>3. ~mem.ready BY <2>2 DEF Sound, Decodes
  <2>4. OnDisk' BY <2>1, <2>2, <2>3 DEF OnDisk, AgreesWithReceipt
  <2>5. InUndo' BY <2>1 DEF DecodeInv, InUndo
  <2>6. InRun' BY <2>1 DEF DecodeInv, InRun, Runs, Records, Phased, Staged
  <2> QED BY <2>4, <2>5, <2>6 DEF DecodeInv
<1>4. ASSUME WritePrepared PROVE DecodeInv'
  <2> DEFINE k == [mem EXCEPT !.phase = "Prepared"]
  <2>0. pc = "blobs" /\ WriteJournal(k, "prepared") BY <1>4 DEF WritePrepared
  <2>1. /\ mem \in Journal /\ Sound(mem) /\ Bare(mem) /\ mem.phase = "Setup" /\ mem.pers = "Prepared"
        /\ receipts[mem.req] = NoReceipt /\ run = "recover"
    BY <2>0 DEF TypeInv, Held, DecodeInv, InRun, Runs, Phased, Records
  <2>2. /\ SameNames(mem, k) /\ k.phase = "Prepared" /\ k.pers = mem.pers
        /\ k.restored = mem.restored /\ k.ready = mem.ready
    BY <2>1 DEF SameNames, Journal, Phases
  <2> HIDE DEF k
  <2>3. k \in Journal /\ k.req = mem.req /\ Bare(k) BY <2>1, <2>2 DEF SameNames, Bare
  <2>4. ~mem.ready /\ ~mem.restored BY <2>1 DEF Sound, Decodes
  <2>5. Sound(k)
    <3>1. k.restored = (k.phase \in {"RollbackCleanup", "RolledBack"})
      BY <2>1, <2>2 DEF Sound, Decodes
    <3>2. k.phase \notin CommittedPhases /\ k.phase \notin TerminalPhases
      BY <2>2 DEF CommittedPhases, TerminalPhases
    <3> QED BY <2>1, <2>2, <2>3, <2>4, <3>1, <3>2, SoundPhases
  <2>6. AgreesWithReceipt(k, receipts[k.req]) BY <2>1, <2>2, <2>3, <2>4 DEF AgreesWithReceipt
  <2>7. pc' = "prepared" => InRun'
    <3>1. ASSUME pc' = "prepared" PROVE InRun'
      <4>1. mem' = k /\ UNCHANGED <<receipts, run>> BY <2>0 DEF WriteJournal
      <4>2. Runs' /\ Records' BY <2>1, <2>3, <3>1, <4>1 DEF Runs, Records
      <4>3. Phased' /\ Staged' BY <2>1, <2>2, <2>3, <2>4, <2>5, <3>1, <4>1 DEF Phased, Staged
      <4> QED BY <4>2, <4>3 DEF InRun
    <3> QED BY <3>1
  <2> QED BY <2>0, <2>1, <2>3, <2>5, <2>6, <2>7, WriteDecodes
<1>5. ASSUME PublishReceipt PROVE DecodeInv'
  <2> DEFINE rec == [pers |-> "Prepared", restored |-> FALSE, settled |-> FALSE, old |-> FALSE]
  <2>0. /\ pc = "prepared" /\ receipts' = [receipts EXCEPT ![mem.req] = rec] /\ run' = "commit"
        /\ pc' = "stage" /\ UNCHANGED <<fence, jr, undo, mem>>
    BY <1>5 DEF PublishReceipt
  <2>1. /\ mem \in Journal /\ jr = mem /\ fence = "journal" /\ Sound(mem) /\ Bare(mem)
        /\ mem.phase = "Prepared" /\ receipts[mem.req] = NoReceipt
    BY <2>0, AtWork DEF DecodeInv, InRun, Phased, Records
  <2>2. mem.req \in Requests BY <2>1 DEF Journal
  <2>3. rec # NoReceipt /\ rec.pers = "Prepared" /\ ~rec.restored BY DEF NoReceipt
  <2> HIDE DEF rec
  <2>4. Undecided(rec) BY <2>3 DEF Undecided
  <2>5. \A s \in Requests : receipts'[s] = IF s = mem.req THEN rec ELSE receipts[s]
    BY <2>0 DEF TypeInv, TypeOK
  <2>6. undo[mem.req] = NoJournal
    BY <2>1, <2>2 DEF DecodeInv, InUndo, AgreesWithReceipt, TerminalPhases
  <2>7. OnDisk' BY <2>0, <2>1, <2>2, <2>4, <2>5, UndecidedAgrees DEF OnDisk
  <2>8. InUndo' BY <2>0, <2>5, <2>6 DEF DecodeInv, InUndo
  <2>9. Runs' /\ Records' BY <2>0, <2>2, <2>3, <2>4, <2>5 DEF Runs, Records
  <2>a. Phased' /\ Staged' BY <2>0, <2>1 DEF Phased, Staged, Bare
  <2> QED BY <2>7, <2>8, <2>9, <2>a DEF DecodeInv, InRun
<1> QED BY <1>1, <1>2, <1>3, <1>4, <1>5

LEMMA CommitDecodes ==
    ASSUME TypeInv, StagingInv, DecodeInv, StageRollback \/ Promote \/ PromoteDone
    PROVE  DecodeInv'
<1>0. pc \in {"stage", "promote", "promoted"} BY DEF StageRollback, Promote, PromoteDone
<1>1. /\ mem \in Journal /\ Sound(mem) /\ AgreesWithReceipt(mem, receipts[mem.req])
      /\ receipts[mem.req] # NoReceipt
  BY <1>0, AtWork
<1>2. /\ run = "commit" => Undecided(receipts[mem.req]) /\ mem.phase = "Prepared" /\ Clear(mem.rest)
      /\ mem.phase \in {"Prepared", "RollingBack"} /\ mem.phase \in Phases \ {"Setup"}
      /\ pc # "stage" => run = "commit"
      /\ pc = "stage" => run # "recover" /\ Clear(mem.lstg)
    <2>1. pc # "stage" => run = "commit" BY <1>0 DEF DecodeInv, InRun, Runs
    <2>2. pc = "stage" => run # "recover" /\ Clear(mem.lstg) BY DEF DecodeInv, InRun, Runs, Staged
    <2>3. run = "commit" => Undecided(receipts[mem.req]) /\ mem.phase = "Prepared" /\ Clear(mem.rest)
      BY <1>0 DEF DecodeInv, InRun, Records, Phased
    <2>4. mem.phase \in {"Prepared", "RollingBack"}
      BY <1>0 DEF DecodeInv, InRun, Phased
    <2> QED BY <2>1, <2>2, <2>3, <2>4 DEF Phases
<1>3. Destructive(mem) \subseteq Members /\ Published(mem) \subseteq Members /\ left \subseteq Members
  BY DEF Destructive, Published, TypeInv, TypeOK
\* A write that keeps the decision open.
<1>4. ASSUME NEW k, NEW n, WriteJournal(k, n), SameDecision(mem, k), Sound(k),
             pc' = n /\ mem' = k /\ UNCHANGED run => Phased' /\ Staged',
             n \in {"stage", "promote", "phase"}, n = "phase" => run # "commit",
             n = "promote" => run = "commit", n = "stage" => run # "recover"
      PROVE  DecodeInv'
  <2>1. k \in Journal /\ k.req = mem.req /\ k.phase = mem.phase /\ k.restored = mem.restored
    BY <1>4 DEF SameDecision
  <2>2. AgreesWithReceipt(k, receipts[k.req]) BY <1>1, <2>1, AgreeByPhase
  <2>3. pc' = n => InRun'
    <3>1. ASSUME pc' = n PROVE InRun'
      <4>1. mem' = k /\ UNCHANGED <<receipts, run>> BY <1>4 DEF WriteJournal
      <4>2. Runs' /\ Records' BY <1>1, <1>2, <1>4, <2>1, <3>1, <4>1 DEF Runs, Records
      <4> QED BY <1>4, <3>1, <4>1, <4>2 DEF InRun
    <3> QED BY <3>1
  <2> QED BY <1>0, <1>2, <1>4, <2>1, <2>2, <2>3, WriteDecodes
<1>5. ASSUME StageRollback PROVE DecodeInv'
  <2>0. pc = "stage" BY <1>5 DEF StageRollback
  <2>a. run = "commit" => Clear(mem.prom) BY <2>0 DEF DecodeInv, InRun, Phased
  <2>b. mem.phase = IF run = "commit" THEN "Prepared" ELSE "RollingBack"
    BY <2>0 DEF DecodeInv, InRun, Phased
  <2>1. CASE /\ \A m \in Destructive(mem) : mem.rlnk[m]
             /\ WriteJournal([mem EXCEPT !.ready = TRUE], IF run = "commit" THEN "promote" ELSE "phase")
             /\ left' = IF run = "commit" THEN Members ELSE {}
    <3> DEFINE k == [mem EXCEPT !.ready = TRUE]
               n == IF run = "commit" THEN "promote" ELSE "phase"
    <3>1. Sound(k) BY <1>1, <1>2, <2>1, SoundLoops, ZeroIno, SomeMember
    <3>2. /\ SameDecision(mem, k) /\ k.rest = mem.rest /\ k.lstg = mem.lstg
      BY <1>1 DEF SameDecision, Journal
    <3>3. WriteJournal(k, n) BY <2>1
    <3>4. n \in {"promote", "phase"} /\ (n = "phase" => run # "commit") /\ (n = "promote" => run = "commit")
      OBVIOUS
    <3>5. left' = IF run = "commit" THEN Members ELSE {} BY <2>1
    <3> HIDE DEF k, n
    <3>6. k.phase = mem.phase BY <3>2 DEF SameDecision
    <3>7. pc' = n /\ mem' = k /\ UNCHANGED run => Phased' /\ Staged'
      BY <1>2, <2>0, <3>2, <3>4, <3>5, <3>6 DEF Phased, Staged
    <3> QED BY <1>4, <3>1, <3>2, <3>3, <3>4, <3>7
  <2>2. ASSUME NEW n \in Destructive(mem), NEW i \in Inodes, Writes([mem EXCEPT !.rstg[n] = i], pc)
        PROVE  DecodeInv'
    <3> DEFINE k == [mem EXCEPT !.rstg[n] = i]
    <3>0. n \in Members /\ i \in OptIno /\ i # 0 BY <1>3 DEF Inodes, OptIno
    <3>1. Sound(k) BY <1>1, <1>2, <3>0, SoundLoops
    <3>2. /\ SameDecision(mem, k) /\ k.rest = mem.rest /\ k.lstg = mem.lstg /\ k.prom = mem.prom
      BY <1>1, <3>0 DEF SameDecision, Journal
    <3>3. WriteJournal(k, "stage") BY <2>0, <2>2 DEF Writes
    <3> HIDE DEF k
    <3>6. k.phase = mem.phase BY <3>2 DEF SameDecision
    <3>7. pc' = "stage" /\ mem' = k /\ UNCHANGED run => Phased' /\ Staged'
      BY <1>2, <2>0, <2>a, <2>b, <3>2, <3>6 DEF Phased, Staged
    <3> QED BY <1>2, <1>4, <2>0, <3>1, <3>2, <3>3, <3>7
  <2>3. CASE Refuse BY <2>0, <2>3, RefuseDecodes
  <2>4. CASE UNCHANGED left /\ TreeStep(pc) BY <2>4, TreeDecodes
  <2>5. ASSUME NEW n \in Members, mem.rstg[n] # 0, Writes([mem EXCEPT !.rlnk[n] = TRUE], pc) PROVE DecodeInv'
    <3> DEFINE k == [mem EXCEPT !.rlnk[n] = TRUE]
    <3>1. Sound(k) BY <1>1, <2>5, ZeroIno, SoundLoops
    <3>2. /\ SameDecision(mem, k) /\ k.rest = mem.rest /\ k.lstg = mem.lstg /\ k.prom = mem.prom
      BY <1>1 DEF SameDecision, Journal
    <3>3. WriteJournal(k, "stage") BY <2>0, <2>5 DEF Writes
    <3> HIDE DEF k
    <3>6. k.phase = mem.phase BY <3>2 DEF SameDecision
    <3>7. pc' = "stage" /\ mem' = k /\ UNCHANGED run => Phased' /\ Staged'
      BY <1>2, <2>0, <2>a, <2>b, <3>2, <3>6 DEF Phased, Staged
    <3> QED BY <1>2, <1>4, <2>0, <3>1, <3>2, <3>3, <3>7
  <2> QED BY <1>5, <2>1, <2>2, <2>3, <2>4, <2>5, StageRollbackDoes
<1>6. ASSUME Promote PROVE DecodeInv'
  <2>0. pc = "promote" /\ run = "commit" BY <1>2, <1>6 DEF Promote
  <2>a. \A m \in Members \ left : mem.lstg[m] = 0 /\ (m \in Published(mem) => mem.prom[m] # 0)
    BY <2>0 DEF DecodeInv, InRun, Staged
  <2>1. CASE Refuse BY <2>0, <2>1, RefuseDecodes
  <2>2. CASE left = {} /\ Writes([mem EXCEPT !.phase = "Committing", !.pers = "Committed"], "cleanup")
    <3> DEFINE k == [mem EXCEPT !.phase = "Committing", !.pers = "Committed"]
    <3>1. WriteJournal(k, "cleanup") BY <2>2 DEF Writes
    <3>2. /\ SameNames(mem, k) /\ k.phase = "Committing" /\ k.pers = "Committed"
          /\ k.restored = mem.restored /\ k.ready = mem.ready
      BY <1>1 DEF SameNames, Journal, Phases, Persistence
    <3> HIDE DEF k
    <3>3. k \in Journal /\ k.req = mem.req /\ k.lstg = mem.lstg BY <3>2 DEF SameNames
    <3>4. Clear(mem.lstg) /\ \A m \in Published(mem) : mem.prom[m] # 0 BY <1>3, <2>2, <2>a
    <3>5. Sound(k)
      <4>1. k.restored = (k.phase \in {"RollbackCleanup", "RolledBack"})
        BY <1>1, <1>2, <2>0, <3>2 DEF Sound, Decodes
      <4>2. k.phase \in CommittedPhases /\ k.phase \notin TerminalPhases
        BY <3>2 DEF CommittedPhases, TerminalPhases
      <4> QED BY <1>1, <3>2, <3>3, <3>4, <4>1, <4>2, SoundPhases
    <3>6. AgreesWithReceipt(k, receipts[k.req]) BY <1>2, <2>0, <3>2, <3>3, UndecidedAgrees
    <3>7. pc' = "cleanup" => InRun'
      <4>1. ASSUME pc' = "cleanup" PROVE InRun'
        <5>1. mem' = k /\ UNCHANGED <<receipts, run>> BY <3>1 DEF WriteJournal
        <5>2. Runs' /\ Records' BY <1>1, <1>2, <2>0, <3>3, <4>1, <5>1 DEF Runs, Records
        <5>3. Phased' /\ Staged' BY <3>2, <3>3, <3>4, <4>1, <5>1 DEF Phased, Staged
        <5> QED BY <5>2, <5>3 DEF InRun
      <4> QED BY <4>1
    <3> QED BY <2>0, <3>1, <3>2, <3>3, <3>5, <3>6, <3>7, WriteDecodes
  <2>3. CASE UNCHANGED left /\ TreeStep(pc) BY <2>3, TreeDecodes
  <2>4. ASSUME NEW n \in left, mem.prom[n] = 0, Operation(mem, n) \in {"none", "delete"},
               left' = left \ {n}, TreeStep(pc)
        PROVE  DecodeInv'
    <3>1. UNCHANGED <<fence, jr, undo, receipts, pc, call, run, mem>> BY <2>4 DEF TreeStep
    <3>2. n \notin Published(mem) BY <2>4 DEF Published
    <3>3. mem.lstg[n] = 0 BY <1>1, <1>2, <1>3, <2>0, <3>2 DEF Sound, Decodes
    <3>4. Runs' /\ Records' /\ Phased'
      BY <2>0, <3>1 DEF DecodeInv, InRun, Runs, Records, Phased
    <3>5. Staged' BY <2>0, <2>4, <2>a, <3>1, <3>2, <3>3 DEF Staged
    <3> QED BY <3>1, <3>4, <3>5, QuietDecodes DEF InRun
  <2>5. ASSUME NEW n \in left, NEW i \in Inodes, n \in Published(mem),
               Writes([mem EXCEPT !.prom[n] = i, !.lstg[n] = i], pc)
        PROVE  DecodeInv'
    <3> DEFINE k == [mem EXCEPT !.prom[n] = i, !.lstg[n] = i]
    <3>0. n \in Members /\ i \in OptIno /\ i # 0 BY <1>3 DEF Inodes, OptIno
    <3>1. Sound(k) BY <1>1, <1>2, <2>0, <2>5, <3>0, SoundLoops
    <3>2. /\ SameDecision(mem, k) /\ k.rest = mem.rest
          /\ \A m \in Members \ {n} : k.lstg[m] = mem.lstg[m] /\ k.prom[m] = mem.prom[m]
      BY <1>1, <3>0 DEF SameDecision, Journal
    <3>3. WriteJournal(k, "promote") /\ UNCHANGED left BY <2>0, <2>5 DEF Writes
    <3> HIDE DEF k
    <3>6. k.phase = mem.phase /\ Published(k) = Published(mem) BY <3>2, SamePlan DEF SameDecision
    <3>7. pc' = "promote" /\ mem' = k /\ UNCHANGED run => Phased'
      BY <1>2, <2>0, <3>2, <3>6 DEF Phased
    <3>8. pc' = "promote" /\ mem' = k /\ UNCHANGED run => Staged'
      BY <2>a, <3>2, <3>3, <3>6 DEF Staged
    <3> QED BY <1>4, <2>0, <3>1, <3>2, <3>3, <3>7, <3>8
  <2>6. ASSUME NEW n \in left, n = First(left), mem.prom[n] # 0, UNCHANGED left, TreeStep("promoted")
        PROVE  DecodeInv'
    <3>1. UNCHANGED <<fence, jr, undo, receipts, call, run, mem>> /\ pc' = "promoted"
      BY <2>6 DEF TreeStep
    <3>2. Runs' /\ Records' BY <2>0, <3>1 DEF DecodeInv, InRun, Runs, Records
    <3>3. Phased' BY <2>0, <3>1 DEF DecodeInv, InRun, Phased
    <3>4. Staged' BY <2>a, <2>6, <3>1 DEF Staged
    <3> QED BY <3>1, <3>2, <3>3, <3>4, QuietDecodes DEF InRun
  <2>7. \/ Refuse
        \/ left = {} /\ Writes([mem EXCEPT !.phase = "Committing", !.pers = "Committed"], "cleanup")
        \/ UNCHANGED left /\ TreeStep(pc)
        \/ \E n \in left : /\ mem.prom[n] = 0 /\ Operation(mem, n) \in {"none", "delete"}
                           /\ left' = left \ {n} /\ TreeStep(pc)
        \/ \E n \in left, i \in Inodes :
              n \in Published(mem) /\ Writes([mem EXCEPT !.prom[n] = i, !.lstg[n] = i], pc)
        \/ \E n \in left : n = First(left) /\ mem.prom[n] # 0 /\ UNCHANGED left /\ TreeStep("promoted")
    BY <1>6, PromoteDoes
  <2> QED BY <2>1, <2>2, <2>3, <2>4, <2>5, <2>6, <2>7
<1>7. ASSUME PromoteDone PROVE DecodeInv'
  <2> DEFINE n == First(left)
             k == [mem EXCEPT !.lstg[n] = 0]
  <2>0. pc = "promoted" /\ WriteJournal(k, "promote") /\ left' = left \ {n} BY <1>7 DEF PromoteDone
  <2>1. n \in Members BY <2>0, FirstIsMember DEF TypeInv, TypeOK, Held
  <2>2. /\ mem.prom[n] # 0 /\ run = "commit"
        /\ \A m \in Members \ left : mem.lstg[m] = 0 /\ (m \in Published(mem) => mem.prom[m] # 0)
    BY <1>2, <2>0 DEF DecodeInv, InRun, Staged
  <2> HIDE DEF n
  <2>3. Sound(k) BY <1>1, <2>1, SoundLoops, ZeroIno
  <2>4. /\ SameDecision(mem, k) /\ k.prom = mem.prom /\ k.rest = mem.rest
        /\ \A m \in Members : k.lstg[m] = IF m = n THEN 0 ELSE mem.lstg[m]
    BY <1>1, <2>1, ZeroIno DEF SameDecision, Journal
  <2> HIDE DEF k
  <2>5. k.phase = mem.phase /\ Published(k) = Published(mem) BY <2>4, SamePlan DEF SameDecision
  <2>6. pc' = "promote" /\ mem' = k /\ UNCHANGED run => Phased'
    BY <1>2, <2>2, <2>4, <2>5 DEF Phased
  <2>7. pc' = "promote" /\ mem' = k /\ UNCHANGED run => Staged'
    BY <2>0, <2>2, <2>4, <2>5 DEF Staged
  <2> QED BY <1>4, <2>0, <2>2, <2>3, <2>4, <2>6, <2>7
<1> QED BY <1>5, <1>6, <1>7

LEMMA NextDecodes == TypeInv /\ StagingInv /\ DecodeInv /\ [Next]_vars => DecodeInv'
<1> SUFFICES ASSUME TypeInv, StagingInv, DecodeInv, [Next]_vars PROVE DecodeInv' OBVIOUS
<1>1. CASE UNCHANGED vars
  <2>1. UNCHANGED <<fence, jr, undo, receipts, pc, call, run, mem, left>> BY <1>1 DEF vars
  <2>2. InRun' BY <2>1 DEF DecodeInv, InRun, Runs, Records, Phased, Staged
  <2> QED BY <2>1, <2>2, QuietDecodes
<1>2. CASE Caller
  BY <1>2, RecoveryDecodes, CleanupDecodes, RestoreDecodes, TerminalDecodes,
     OperationDecodes, PrepareDecodes, CommitDecodes DEF Caller
<1>3. CASE Next /\ ~Caller BY <1>3, EnvironmentDecodes DEF Next
<1> QED BY <1>1, <1>2, <1>3

\* Every journal that a crash can leave in the fence or the undo store, in
\* whatever step of whatever operation, is one that decode accepts and that
\* agrees with the receipt ledger: recovery is never locked out by what the
\* program itself wrote.
THEOREM JournalsAlwaysDecode == Spec => []JournalsDecode
<1>1. DecodeInv => JournalsDecode BY DEF DecodeInv, OnDisk, InUndo, Sound, JournalsDecode
<1>2. Init => TypeInv /\ StagingInv /\ DecodeInv BY InitTypes, InitStaging, InitDecodes
<1>3. TypeInv /\ StagingInv /\ DecodeInv /\ [Next]_vars => (TypeInv /\ StagingInv /\ DecodeInv)'
  BY NextTypes, NextStaging, NextDecodes
<1> QED BY <1>1, <1>2, <1>3, PTL DEF Spec

-----------------------------------------------------------------------------
(***************************************************************************)
(* Only a foreign save makes an operation end in a RecoveryConflict        *)
(* (OnlyEditsConflict).                                                    *)
(*                                                                         *)
(* An operation refuses when a check of the tree, of a journal or of the   *)
(* ledger fails.  So the invariant says that each member nobody saved      *)
(* stands where the journal's phase expects it (MemberFits), that a copy   *)
(* journaled as linked is there until it was put back, what the loops of   *)
(* promotion and of restoring have reached (Working), and that every       *)
(* pending record is backed by a journal (Backed).  All this is true of    *)
(* the journal on disk and of the copy that an error path writes last.     *)
(***************************************************************************)

Stands(f, val, ino) == f.val = val /\ (val # None => f.ino = ino)

StandsBefore(f, j, m) ==
    Stands(f, j.before[m], IF j.rest[m] # 0 THEN j.rest[m] ELSE j.bino[m])
StandsAfter(f, j, m) ==
    Stands(f, After(j, m), IF Operation(j, m) = "none" THEN j.bino[m] ELSE j.prom[m])

\* Where the phase of a journal says the members are.
AtBefore(j) ==
    \/ j.phase \in {"Setup", "AbortCleanup", "RollbackCleanup", "Aborted", "RolledBack"}
    \/ j.phase = "Prepared" /\ ~j.ready
AtAfter(j) ==
    j.phase \in {"Committing", "Committed"} \/ (j.phase = "RollingBack" /\ ~j.ready)

\* Member m with file f and rollback copy c is as journal j has it.
MemberFits(f, c, j, m) ==
    /\ AtBefore(j) => StandsBefore(f, j, m)
    /\ AtAfter(j) => StandsAfter(f, j, m)
    /\ StandsBefore(f, j, m) \/ StandsAfter(f, j, m)
    /\ j.rlnk[m] /\ c = 0 => j.rest[m] = j.rstg[m] /\ StandsBefore(f, j, m)
    /\ j.ready /\ j.phase \in {"Prepared", "RollingBack"} /\ m \in Destructive(j)
          => StandsBefore(f, j, m) \/ c # 0

CopyFits(c, j, m) == (c # 0 => c = j.rstg[m]) /\ (j.rest[m] # 0 => m \in Destructive(j))

Fits(j) ==
    \A m \in Members :
       CopyFits(rbk[m], j, m) /\ (m \notin edited => MemberFits(files[m], rbk[m], j, m))

TreeFits ==
    /\ fence = "journal" => Fits(jr)
    /\ pc \in {"fence", "setup"} => Fits(mem)
    /\ pc \in {"failed", "failjournal"} /\ fence = "journal" => Fits(mem)

Restoring == {"restore", "swap", "restored"}

Working ==
    /\ pc = "stage" => ~mem.ready
    /\ pc \in {"promote", "promoted"} => mem.ready
    /\ pc = "promote" => \A m \in Members : fwd[m] # 0 => fwd[m] = mem.prom[m]
    /\ pc \in Restoring =>
          \A m \in Members \ (left \cup edited) : StandsBefore(files[m], mem, m)
    /\ pc \in Restoring => \A m \in left \ edited :
          ~StandsBefore(files[m], mem, m) \/ (pc # "restore" /\ m = First(left))
    /\ pc = "swap" => rbk[First(left)] # 0 /\ mem.rest[First(left)] = rbk[First(left)]
    /\ pc = "restored" /\ First(left) \notin edited
          => StandsBefore(files[First(left)], mem, First(left))

Backed ==
    /\ \A r \in Requests : Pending(receipts[r])
          => undo[r] # NoJournal \/ (fence = "journal" /\ jr.req = r)
    /\ \A r \in Requests : undo[r] # NoJournal =>
          \A m \in Members : undo[r].rest[m] # 0 => m \in Destructive(undo[r])
    /\ fence = "journal" => undo[jr.req] = NoJournal
    /\ pc = "admit" => undo[call.req] = NoJournal
    /\ pc \in {"fence", "setup"} => undo[mem.req] = NoJournal
    /\ pc \in FailSteps /\ fence = "journal" => jr.req = mem.req
    /\ pc \in FailSteps /\ fence # "journal" => undo[mem.req] # NoJournal

TreeInv == TreeFits /\ Working /\ Backed /\ OnlyEditsConflict

USE DEF Restoring

LEMMA Looks ==
    ASSUME NEW j, NEW m
    PROVE  /\ IsBefore(j, m) <=> StandsBefore(files[m], j, m)
           /\ IsAfter(j, m) <=> StandsAfter(files[m], j, m)
BY DEF IsBefore, IsAfter, Matches, StandsBefore, StandsAfter, Stands

\* Where a member stands depends on the plan and on two inodes.
LEMMA SameStand ==
    ASSUME NEW j, NEW k, NEW m \in Members, NEW f, k.req = j.req, k.before = j.before, k.bino = j.bino
    PROVE  /\ k.rest[m] = j.rest[m] => (StandsBefore(f, k, m) <=> StandsBefore(f, j, m))
           /\ k.prom[m] = j.prom[m] => (StandsAfter(f, k, m) <=> StandsAfter(f, j, m))
           /\ Destructive(k) = Destructive(j)
BY SamePlan DEF StandsBefore, StandsAfter

\* A write that touches neither inode keeps the tree fitting, when the new
\* phase asks for what is there and no copy is expected that is not.
LEMMA Refit ==
    ASSUME NEW j, NEW k, Fits(j), k.req = j.req, k.before = j.before, k.bino = j.bino,
           k.prom = j.prom, k.rest = j.rest,
           \A m \in Members \ edited : /\ AtBefore(k) => StandsBefore(files[m], j, m)
                                       /\ AtAfter(k) => StandsAfter(files[m], j, m),
           \A m \in Members : rbk[m] # 0 => k.rstg[m] = j.rstg[m],
           \A m \in Members : k.rlnk[m] /\ rbk[m] = 0 => j.rlnk[m] /\ k.rstg[m] = j.rstg[m],
           \/ ~k.ready \/ k.phase \notin {"Prepared", "RollingBack"}
           \/ j.ready /\ j.phase = k.phase
           \/ \A m \in Destructive(j) : j.rlnk[m]
    PROVE  Fits(k)
<1> SUFFICES ASSUME NEW m \in Members
             PROVE  CopyFits(rbk[m], k, m) /\ (m \notin edited => MemberFits(files[m], rbk[m], k, m))
  BY DEF Fits
<1>1. /\ StandsBefore(files[m], k, m) <=> StandsBefore(files[m], j, m)
      /\ StandsAfter(files[m], k, m) <=> StandsAfter(files[m], j, m)
      /\ Destructive(k) = Destructive(j)
  BY SameStand
<1>2. CopyFits(rbk[m], j, m) /\ (m \notin edited => MemberFits(files[m], rbk[m], j, m)) BY DEF Fits
<1>3. CopyFits(rbk[m], k, m) BY <1>1, <1>2 DEF CopyFits
<1>4. ASSUME m \notin edited PROVE MemberFits(files[m], rbk[m], k, m)
  BY <1>1, <1>2, <1>4 DEF MemberFits
<1> QED BY <1>3, <1>4

\* The same phase asks for the same.
LEMMA SamePhase ==
    ASSUME NEW j, NEW k, Fits(j), AtBefore(k) => AtBefore(j), AtAfter(k) => AtAfter(j)
    PROVE  \A m \in Members \ edited : /\ AtBefore(k) => StandsBefore(files[m], j, m)
                                       /\ AtAfter(k) => StandsAfter(files[m], j, m)
BY DEF Fits, MemberFits

\* Steps at which nothing but the fence's journal is asked to fit.
PlainSteps == Steps \ ({"fence", "setup", "admit", "refused"} \cup FailSteps)

USE DEF PlainSteps

LEMMA WriteFits ==
    ASSUME StagingInv, TreeInv, NEW k, NEW n \in PlainSteps, WriteJournal(k, n),
           pc \in SyncedSteps, UNCHANGED tree, k.req = mem.req, Fits(k), pc' = n => Working'
    PROVE  TreeInv'
<1>1. fence = "journal" /\ jr = mem BY DEF StagingInv, Synced
<1>2. /\ mem' = k /\ UNCHANGED <<files, fwd, rbk, fence, undo, receipts, call, run, edited>>
      /\ \/ jr' = k /\ pc' = n
         \/ run = "commit" /\ pc' = "failed" /\ jr' = jr
  BY DEF WriteJournal
<1>3. TreeFits' BY <1>1, <1>2 DEF TreeInv, TreeFits, Fits
<1>4. Working' BY <1>2 DEF Working
<1>5. Backed' BY <1>1, <1>2 DEF TreeInv, Backed
<1>6. OnlyEditsConflict' BY <1>2 DEF OnlyEditsConflict
<1> QED BY <1>3, <1>4, <1>5, <1>6 DEF TreeInv

LEMMA RefuseFits ==
    ASSUME StagingInv, DecodeInv, TreeInv, Refuse, pc \in SyncedSteps \cup {"recover", "op"},
           run = "commit" \/ edited # {}
    PROVE  TreeInv'
<1>1. /\ UNCHANGED <<files, fwd, rbk, fence, jr, undo, receipts, mem, edited>>
      /\ pc' = IF run = "commit" THEN "failed" ELSE "refused"
  BY DEF Refuse
<1>2. run = "commit" => fence = "journal" /\ jr = mem
  BY DEF StagingInv, Synced, DecodeInv, InRun, Runs
<1>3. TreeFits' BY <1>1, <1>2 DEF TreeInv, TreeFits, Fits
<1>4. Working' BY <1>1 DEF Working
<1>5. Backed' BY <1>1, <1>2 DEF TreeInv, Backed
<1>6. OnlyEditsConflict' BY <1>1 DEF OnlyEditsConflict
<1> QED BY <1>3, <1>4, <1>5, <1>6 DEF TreeInv

\* A step that changes names in the tree, with the journal as it is.
LEMMA TreeStepFits ==
    ASSUME StagingInv, TreeInv, NEW n \in PlainSteps, TreeStep(n), pc \in SyncedSteps, Fits(mem)', Working'
    PROVE  TreeInv'
<1>1. fence = "journal" /\ jr = mem BY DEF StagingInv, Synced
<1>2. pc' = n /\ UNCHANGED <<fence, jr, undo, receipts, call, mem, edited>> BY DEF TreeStep
<1>3. TreeFits' BY <1>1, <1>2 DEF TreeFits, Fits
<1>5. Backed' BY <1>1, <1>2 DEF TreeInv, Backed
<1>6. OnlyEditsConflict' BY <1>2 DEF OnlyEditsConflict
<1> QED BY <1>3, <1>5, <1>6 DEF TreeInv

\* A step that leaves tree, journals and ledger alone.
LEMMA QuietFits ==
    ASSUME TreeInv, UNCHANGED <<files, rbk, fence, jr, undo, receipts, edited>>, pc' \in PlainSteps, Working'
    PROVE  TreeInv'
<1>3. TreeFits' BY DEF TreeInv, TreeFits, Fits
<1>5. Backed' BY DEF TreeInv, Backed
<1>6. OnlyEditsConflict' BY DEF OnlyEditsConflict
<1> QED BY <1>3, <1>5, <1>6 DEF TreeInv

LEMMA ReleaseFits ==
    ASSUME TreeInv, Release, UNCHANGED <<files, rbk, fence, jr, edited>>, Backed'
    PROVE  TreeInv'
<1>3. TreeFits' BY DEF Release, TreeInv, TreeFits, Fits
<1>4. Working' BY DEF Release, Working
<1>6. OnlyEditsConflict' BY DEF Release, OnlyEditsConflict
<1> QED BY <1>3, <1>4, <1>6 DEF TreeInv

LEMMA ReturnFits == ASSUME TreeInv, Return PROVE TreeInv'
<1>1. /\ UNCHANGED <<files, rbk, fence, jr, undo, receipts, edited>> /\ Release
  BY DEF Return
<1>2. Backed' BY <1>1 DEF TreeInv, Backed, Release
<1> QED BY <1>1, <1>2, ReleaseFits

LEMMA InitFits == Init => TreeInv
BY DEF Init, TreeInv, TreeFits, Working, Backed, OnlyEditsConflict, Pending

LEMMA JournalIsThere == ASSUME NEW j \in Journal PROVE j # NoJournal
<1>1. "phase" \in DOMAIN j BY DEF Journal
<1>2. "phase" \notin DOMAIN NoJournal BY DEF NoJournal
<1> QED BY <1>1, <1>2

LEMMA EnvironmentFits ==
    ASSUME TypeInv, StagingInv, DecodeInv, TreeInv,
           \/ \E r \in Requests : Plan(r) \/ Age(r)
           \/ \E op \in Ops, r \in Requests : Begin(op, r)
           \/ \E m \in Members : Edit(m)
           \/ Crash \/ IoError \/ FailSkipCleanup
    PROVE  TreeInv'
<1>1. ASSUME NEW r \in Requests, Plan(r) PROVE TreeInv'
  <2>1. UNCHANGED <<files, rbk, fence, jr, undo, receipts, edited, pc>> /\ pc = "idle" BY <1>1 DEF Plan
  <2>2. Working' BY <2>1 DEF Working
  <2> QED BY <2>1, <2>2, QuietFits
<1>2. ASSUME NEW r \in Requests, Age(r) PROVE TreeInv'
  <2>1. /\ UNCHANGED <<files, rbk, fence, jr, undo, edited, pc>> /\ pc = "idle"
        /\ receipts' = [receipts EXCEPT ![r].old = TRUE] /\ Terminal(receipts[r])
    BY <1>2 DEF Age
  <2>2. receipts[r] # NoReceipt /\ receipts[r] \in Receipt /\ receipts \in [Requests -> Receipt \cup {NoReceipt}]
    BY <2>1 DEF Terminal, TypeInv, TypeOK
  <2>3. receipts'[r].pers = receipts[r].pers BY <2>1, <2>2 DEF Receipt
  <2>4. \A s \in Requests : Pending(receipts[s])' => Pending(receipts[s])
    BY <2>1, <2>2, <2>3 DEF Pending
  <2>5. TreeFits' BY <2>1 DEF TreeInv, TreeFits, Fits
  <2>6. Working' /\ OnlyEditsConflict' BY <2>1 DEF Working, OnlyEditsConflict
  <2>7. Backed' BY <2>1, <2>4 DEF TreeInv, Backed
  <2> QED BY <2>5, <2>6, <2>7 DEF TreeInv
<1>3. ASSUME NEW op \in Ops, NEW r \in Requests, Begin(op, r) PROVE TreeInv'
  <2>1. UNCHANGED <<files, rbk, fence, jr, undo, receipts, edited>> /\ pc' = "recover" BY <1>3 DEF Begin
  <2>2. Working' BY <2>1 DEF Working
  <2> QED BY <2>1, <2>2, QuietFits
<1>4. ASSUME NEW n \in Members, Edit(n) PROVE TreeInv'
  <2>1. /\ \A m \in Members \ {n} : files'[m] = files[m]
        /\ edited' = edited \cup {n}
        /\ UNCHANGED <<fwd, rbk, fence, jr, undo, receipts, pc, call, run, mem, left>>
    BY <1>4 DEF Edit, TypeInv, TypeOK
  <2>2. TreeFits' BY <2>1 DEF TreeInv, TreeFits, Fits
  <2>a. left \subseteq Members BY DEF TypeInv, TypeOK
  <2>b. pc \in {"swap", "restored"} => First(left) \in Members
    BY <2>a, FirstIsMember DEF TypeInv, Held
  <2>3. Working' BY <2>1, <2>a, <2>b DEF TreeInv, Working
  <2>4. Backed' BY <2>1 DEF TreeInv, Backed
  <2>5. OnlyEditsConflict' BY <2>1 DEF OnlyEditsConflict
  <2> QED BY <2>2, <2>3, <2>4, <2>5 DEF TreeInv
<1>5. ASSUME Crash PROVE TreeInv'
  <2>1. UNCHANGED <<files, rbk, fence, jr, undo, receipts, edited>> /\ Release BY <1>5 DEF Crash
  <2>2. Backed' BY <2>1 DEF TreeInv, Backed, Release
  <2> QED BY <2>1, <2>2, ReleaseFits
<1>6. ASSUME IoError \/ FailSkipCleanup PROVE TreeInv'
  <2>1. /\ UNCHANGED <<files, rbk, fence, jr, undo, receipts, mem, edited, call>>
        /\ \/ pc \in {"stage", "promote", "promoted", "cleanup", "goal", "terminal", "receipt"} /\ pc' = "failed"
           \/ pc = "failed" /\ pc' = "failjournal"
    BY <1>6 DEF IoError, FailSkipCleanup
  <2>2. /\ pc # "failed" /\ pc # "receipt" => fence = "journal" /\ jr = mem
        /\ pc = "receipt" => fence = "none" /\ undo[mem.req] = mem /\ mem \in Journal
    BY <2>1 DEF StagingInv, Synced, DecodeInv, InRun, Phased, TypeInv, Held
  <2>3. pc = "receipt" => undo[mem.req] # NoJournal BY <2>2, JournalIsThere
  <2>4. TreeFits' BY <2>1, <2>2 DEF TreeInv, TreeFits, Fits
  <2>5. Working' /\ OnlyEditsConflict' BY <2>1 DEF Working, OnlyEditsConflict
  <2>6. Backed' BY <2>1, <2>2, <2>3 DEF TreeInv, Backed
  <2> QED BY <2>4, <2>5, <2>6 DEF TreeInv
<1> QED BY <1>1, <1>2, <1>3, <1>4, <1>5, <1>6

\* A terminal record is not pending.
LEMMA TerminalSettles ==
    ASSUME TypeInv, TreeInv, NEW r \in Requests, NEW j, NEW rec,
           receipts' = [receipts EXCEPT ![r] = TerminalReceipt(j, rec)]
    PROVE  \A s \in Requests : Pending(receipts[s])' => Pending(receipts[s]) /\ s # r
<1>1. TerminalReceipt(j, rec).pers \in {"Aborted", "Committed"} BY DEF TerminalReceipt
<1>2. \A s \in Requests : receipts'[s] = IF s = r THEN TerminalReceipt(j, rec) ELSE receipts[s]
  BY DEF TypeInv, TypeOK
<1> QED BY <1>1, <1>2 DEF Pending

LEMMA RecoveryFits ==
    ASSUME TypeInv, StagingInv, DecodeInv, TreeInv,
           \/ RecoverStage \/ Reconcile \/ RecoverBare \/ RemoveSetup
           \/ RecoverJournal \/ CleanStaging
    PROVE  TreeInv'
<1>1. ASSUME RecoverStage \/ RemoveSetup PROVE TreeInv'
  <2>1. /\ fence # "journal" /\ fence' # "journal" /\ pc' \in {"op", "unstage"}
        /\ UNCHANGED <<undo, receipts, edited>>
    BY <1>1 DEF RecoverStage, RemoveSetup, StagingInv, Synced
  <2>2. TreeFits' /\ Working' /\ OnlyEditsConflict' BY <2>1 DEF TreeFits, Working, OnlyEditsConflict
  <2>3. Backed' BY <2>1 DEF TreeInv, Backed
  <2> QED BY <2>2, <2>3 DEF TreeInv
<1>2. ASSUME Reconcile PROVE TreeInv'
  <2>0. pc = "recover" /\ fence = "none" BY <1>2 DEF Reconcile
  <2>1. CASE Goto("op")
    <3>1. UNCHANGED <<files, rbk, fence, jr, undo, receipts, edited>> /\ pc' = "op" BY <2>1 DEF Goto
    <3>2. Working' BY <3>1 DEF Working
    <3> QED BY <3>1, <3>2, QuietFits
  <2>2. ASSUME NEW r \in Requests, Pending(receipts[r]),
               IF undo[r] = NoJournal \/ undo[r].phase \notin TerminalPhases
                    \/ ~Decodes(undo[r]) \/ ~AgreesWithReceipt(undo[r], receipts[r])
                 THEN Refuse
                 ELSE /\ receipts' = [receipts EXCEPT ![r] = TerminalReceipt(undo[r], @)]
                      /\ UNCHANGED <<tree, fence, jr, undo, pc, call, run, mem, left, env, faults>>
        PROVE  TreeInv'
    <3>1. undo[r] # NoJournal BY <2>0, <2>2 DEF TreeInv, Backed
    <3>2. /\ undo[r].phase \in TerminalPhases /\ Decodes(undo[r])
          /\ AgreesWithReceipt(undo[r], receipts[r])
      BY <3>1 DEF DecodeInv, InUndo, Sound
    <3>3. /\ receipts' = [receipts EXCEPT ![r] = TerminalReceipt(undo[r], receipts[r])]
          /\ UNCHANGED <<files, rbk, fence, jr, undo, pc, edited>>
      BY <2>2, <3>1, <3>2
    <3>4. \A s \in Requests : Pending(receipts[s])' => Pending(receipts[s])
      BY <3>3, TerminalSettles
    <3>5. TreeFits' /\ Working' /\ OnlyEditsConflict'
      BY <2>0, <3>3 DEF TreeFits, Working, OnlyEditsConflict
    <3>6. Backed' BY <2>0, <3>3, <3>4 DEF TreeInv, Backed
    <3> QED BY <3>5, <3>6 DEF TreeInv
  <2> QED BY <1>2, <2>1, <2>2 DEF Reconcile
<1>3. ASSUME RecoverBare PROVE TreeInv'
  <2>1. UNCHANGED <<files, rbk, fence, jr, undo, receipts, edited>> /\ pc' = "unstage"
    BY <1>3 DEF RecoverBare, Goto
  <2>2. Working' BY <2>1 DEF Working
  <2> QED BY <2>1, <2>2, QuietFits
<1>4. ASSUME RecoverJournal PROVE TreeInv'
  <2>0. pc = "recover" /\ fence = "journal" /\ jr \in Journal BY <1>4 DEF RecoverJournal, TypeInv, Held
  <2>1. Decodes(jr) /\ AgreesWithReceipt(jr, receipts[jr.req])
    BY <2>0 DEF DecodeInv, OnDisk, Sound
  <2>2. CASE receipts[jr.req] = NoReceipt
    <3>1. fence' = "bare" /\ pc' = "unstage" /\ UNCHANGED <<undo, receipts, edited>>
      BY <1>4, <2>1, <2>2 DEF RecoverJournal
    <3>2. TreeFits' /\ Working' /\ OnlyEditsConflict' BY <3>1 DEF TreeFits, Working, OnlyEditsConflict
    <3>3. ~Pending(receipts[jr.req]) BY <2>2 DEF Pending
    <3>4. Backed' BY <3>1, <3>3 DEF TreeInv, Backed
    <3> QED BY <3>2, <3>4 DEF TreeInv
  <2>3. CASE receipts[jr.req] # NoReceipt
    <3>1. pc' = "staging" /\ UNCHANGED <<files, rbk, fence, jr, undo, receipts, edited>>
      BY <1>4, <2>1, <2>3 DEF RecoverJournal
    <3>2. Working' BY <3>1 DEF Working
    <3> QED BY <3>1, <3>2, QuietFits
  <2> QED BY <2>2, <2>3
<1>5. ASSUME CleanStaging PROVE TreeInv'
  <2>0. mem \in Journal /\ pc \in {"staging", "failed"} BY <1>5, CleanStagingDoes
  <2>1. CASE Goto(IF pc = "staging" THEN "phase" ELSE "failjournal")
    <3>1. UNCHANGED <<files, rbk, fence, jr, undo, receipts, call, mem, edited>> BY <2>1 DEF Goto
    <3>a. pc' = IF pc = "staging" THEN "phase" ELSE "failjournal" BY <2>1 DEF Goto
    <3>2. (pc = "staging" /\ pc' = "phase") \/ (pc = "failed" /\ pc' = "failjournal") BY <2>0, <3>a
    <3>3. TreeFits' BY <3>1, <3>2 DEF TreeInv, TreeFits, Fits
    <3>4. Working' /\ OnlyEditsConflict' BY <3>2 DEF Working, OnlyEditsConflict
    <3>5. Backed' BY <3>1, <3>2 DEF TreeInv, Backed
    <3> QED BY <3>3, <3>4, <3>5 DEF TreeInv
  <2>2. ASSUME UNCHANGED <<files, rbk, left>>, TreeStep(pc) PROVE TreeInv'
    <3>1. UNCHANGED <<files, rbk, fence, jr, undo, receipts, pc, call, mem, edited>> BY <2>2 DEF TreeStep
    <3>2. TreeFits' BY <3>1 DEF TreeInv, TreeFits, Fits
    <3>3. Working' /\ OnlyEditsConflict' BY <2>0, <3>1 DEF Working, OnlyEditsConflict
    <3>4. Backed' BY <3>1 DEF TreeInv, Backed
    <3> QED BY <3>2, <3>3, <3>4 DEF TreeInv
  <2>3. ASSUME NEW n \in Members, Writes([mem EXCEPT !.lstg[n] = 0], pc) PROVE TreeInv'
    <3> DEFINE k == [mem EXCEPT !.lstg[n] = 0]
    <3>1. /\ k.req = mem.req /\ k.before = mem.before /\ k.bino = mem.bino /\ k.prom = mem.prom
          /\ k.rest = mem.rest /\ k.rstg = mem.rstg /\ k.rlnk = mem.rlnk /\ k.ready = mem.ready
          /\ k.phase = mem.phase
      BY <2>0 DEF Journal
    <3>2. WriteJournal(k, pc) /\ UNCHANGED <<files, fwd, rbk, left>> BY <2>3 DEF Writes
    <3> HIDE DEF k
    <3>3. ASSUME Fits(mem) PROVE Fits(k)
      <4>1. (AtBefore(k) => AtBefore(mem)) /\ (AtAfter(k) => AtAfter(mem)) BY <3>1 DEF AtBefore, AtAfter
      <4> QED BY <3>1, <3>3, <4>1, SamePhase, Refit
    <3>4. CASE pc = "staging"
      <4>1. Fits(mem) BY <3>4 DEF TreeInv, TreeFits, StagingInv, Synced
      <4>2. pc' = pc => Working' BY <3>4 DEF Working
      <4> QED BY <3>1, <3>2, <3>3, <3>4, <4>1, <4>2, WriteFits
    <3>5. CASE pc = "failed"
      <4>1. /\ mem' = k /\ (jr' = k \/ jr' = jr) /\ pc' \in {"failed", "failjournal"}
            /\ UNCHANGED <<files, rbk, fence, undo, receipts, edited>>
        BY <3>2, <3>5 DEF WriteJournal
      <4>2. fence = "journal" => Fits(k) /\ Fits(jr) BY <3>3, <3>5 DEF TreeInv, TreeFits
      <4>3. TreeFits' BY <4>1, <4>2 DEF TreeFits, Fits
      <4>4. Working' /\ OnlyEditsConflict' BY <4>1 DEF Working, OnlyEditsConflict
      <4>5. Backed' BY <3>1, <3>5, <4>1 DEF TreeInv, Backed
      <4> QED BY <4>3, <4>4, <4>5 DEF TreeInv
    <3> QED BY <2>0, <3>4, <3>5
  <2> QED BY <1>5, <2>1, <2>2, <2>3, CleanStagingDoes
<1> QED BY <1>1, <1>2, <1>3, <1>4, <1>5

\* What a step that works on the journal on disk knows of the tree.
LEMMA AtWorkFits ==
    ASSUME TypeInv, StagingInv, DecodeInv, TreeInv, pc \in SyncedSteps
    PROVE  /\ mem \in Journal /\ Sound(mem) /\ Fits(mem)
           /\ \A m \in Members : /\ CopyFits(rbk[m], mem, m)
                                 /\ m \notin edited => MemberFits(files[m], rbk[m], mem, m)
                                 /\ rbk[m] # 0 => mem.rstg[m] # 0
BY AtWork DEF TreeInv, TreeFits, Fits, StagingInv, Owned

LEMMA CleanupFits ==
    ASSUME TypeInv, StagingInv, DecodeInv, TreeInv, ResolvePhase \/ CleanRollback \/ WriteGoal
    PROVE  TreeInv'
<1>0. pc \in {"phase", "cleanup", "goal"} BY DEF ResolvePhase, CleanRollback, WriteGoal
<1>1. mem \in Journal /\ Sound(mem) /\ Fits(mem) BY <1>0, AtWorkFits
<1>2. \A m \in Members \ edited : MemberFits(files[m], rbk[m], mem, m) BY <1>1 DEF Fits
<1>3. ASSUME NEW k, NEW n \in {"cleanup", "goal", "terminal"}, Writes(k, n), SameDecision(mem, k) \/ SameNames(mem, k), Fits(k)
      PROVE  TreeInv'
  <2>1. k.req = mem.req BY <1>3 DEF SameDecision, SameNames
  <2>2. WriteJournal(k, n) /\ UNCHANGED tree BY <1>3 DEF Writes
  <2>3. pc' = n => Working' BY <1>3 DEF Working
  <2> QED BY <1>0, <1>3, <2>1, <2>2, <2>3, WriteFits
<1>4. ASSUME ResolvePhase PROVE TreeInv'
  <2>0. pc = "phase" BY <1>4 DEF ResolvePhase
  <2>1. mem.phase \in Phases /\ mem.ready \in BOOLEAN /\ mem.phase # "Setup"
    BY <1>1, <2>0 DEF Journal, StagingInv, Progress
  <2>2. ASSUME edited # {}, Refuse PROVE TreeInv' BY <2>0, <2>2, RefuseFits
  <2>3. ASSUME NEW n \in {"cleanup", "terminal"}, Goto(n) PROVE TreeInv'
    <3>1. UNCHANGED <<files, rbk, fence, jr, undo, receipts, edited>> /\ pc' = n BY <2>3 DEF Goto
    <3>2. Working' BY <2>3, <3>1 DEF Working
    <3> QED BY <2>3, <3>1, <3>2, QuietFits
  <2>4. edited = {} => \A m \in Members : MemberFits(files[m], rbk[m], mem, m) BY <1>2
  <2>5. CASE mem.phase \in {"Prepared", "RollingBack"} /\ mem.ready
    <3>1. CASE \A m \in Members : IsBefore(mem, m) \/ IsAfter(mem, m)
      <4>1. /\ pc' = "restore" /\ left' = {m \in Members : ~IsBefore(mem, m)}
            /\ UNCHANGED <<files, fwd, rbk, fence, jr, undo, receipts, mem, edited>>
        BY <1>4, <2>5, <3>1 DEF ResolvePhase
      <4>2. left' = {m \in Members : ~StandsBefore(files[m], mem, m)} BY <4>1, Looks
      <4>3. Working' BY <4>1, <4>2 DEF Working
      <4> QED BY <4>1, <4>3, QuietFits
    <3>2. CASE ~(\A m \in Members : IsBefore(mem, m) \/ IsAfter(mem, m))
      <4>1. Refuse BY <1>4, <2>5, <3>2 DEF ResolvePhase
      <4>2. edited # {} BY <2>4, <3>2, Looks DEF MemberFits
      <4> QED BY <2>2, <4>1, <4>2
    <3> QED BY <3>1, <3>2
  <2>6. CASE (mem.phase = "Prepared" /\ ~mem.ready) \/ mem.phase \in {"AbortCleanup", "RollbackCleanup"}
    <3>1. (BeforeInventory(mem) /\ Goto("cleanup")) \/ (~BeforeInventory(mem) /\ Refuse)
      BY <1>4, <2>6 DEF ResolvePhase
    <3>2. edited = {} => BeforeInventory(mem)
      BY <2>4, <2>6, Looks DEF BeforeInventory, MemberFits, AtBefore
    <3> QED BY <2>2, <2>3, <3>1, <3>2
  <2>7. CASE mem.phase = "Committing" \/ (mem.phase = "RollingBack" /\ ~mem.ready)
    <3>1. (AfterInventory(mem) /\ Goto("cleanup")) \/ (~AfterInventory(mem) /\ Refuse)
      BY <1>4, <2>7 DEF ResolvePhase
    <3>2. edited = {} => AfterInventory(mem)
      BY <2>4, <2>7, Looks DEF AfterInventory, MemberFits, AtAfter
    <3> QED BY <2>2, <2>3, <3>1, <3>2
  <2>8. CASE mem.phase = "Committed"
    <3> DEFINE k == [mem EXCEPT !.pers = "Committed"]
    <3>1. (AfterInventory(mem) /\ Writes(k, "terminal")) \/ (~AfterInventory(mem) /\ Refuse)
      BY <1>4, <2>8 DEF ResolvePhase, Writes
    <3>2. edited = {} => AfterInventory(mem)
      BY <2>4, <2>8, Looks DEF AfterInventory, MemberFits, AtAfter
    <3>3. SameNames(mem, k) /\ k.phase = mem.phase /\ k.ready = mem.ready
      BY <1>1 DEF SameNames, Journal, Persistence
    <3> HIDE DEF k
    <3>4. Fits(k)
      <4>1. (AtBefore(k) => AtBefore(mem)) /\ (AtAfter(k) => AtAfter(mem)) BY <3>3 DEF AtBefore, AtAfter
      <4> QED BY <1>1, <3>3, <4>1, SamePhase, Refit DEF SameNames
    <3> QED BY <1>3, <2>2, <3>1, <3>2, <3>3, <3>4
  <2>9. CASE mem.phase \in {"Aborted", "RolledBack"}
    <3>1. (BeforeInventory(mem) /\ Goto("terminal")) \/ (~BeforeInventory(mem) /\ Refuse)
      BY <1>4, <2>9 DEF ResolvePhase
    <3>2. edited = {} => BeforeInventory(mem)
      BY <2>4, <2>9, Looks DEF BeforeInventory, MemberFits, AtBefore
    <3> QED BY <2>2, <2>3, <3>1, <3>2
  <2> QED BY <2>1, <2>5, <2>6, <2>7, <2>8, <2>9 DEF Phases
<1>5. ASSUME CleanRollback PROVE TreeInv'
  <2>0. pc = "cleanup" BY <1>5 DEF CleanRollback
  <2>1. /\ mem.ready => mem.phase = "Committing"
        /\ mem.phase \in {"Prepared", "AbortCleanup", "Committing", "RollingBack", "RollbackCleanup"}
    BY <2>0 DEF DecodeInv, InRun, Phased
  <2>2. CASE Writes([mem EXCEPT !.ready = FALSE], "goal")
    <3> DEFINE k == [mem EXCEPT !.ready = FALSE]
    <3>1. /\ SameDecision(mem, k) /\ k.ready = FALSE /\ k.prom = mem.prom /\ k.rest = mem.rest
          /\ k.rstg = mem.rstg /\ k.rlnk = mem.rlnk
      BY <1>1 DEF SameDecision, Journal
    <3> HIDE DEF k
    <3>2. k.phase = mem.phase /\ (AtBefore(k) => AtBefore(mem)) /\ (AtAfter(k) => AtAfter(mem))
      BY <2>1, <3>1 DEF AtBefore, AtAfter, SameDecision
    <3>3. Fits(k) BY <1>1, <3>1, <3>2, SamePhase, Refit DEF SameDecision
    <3> QED BY <1>3, <2>2, <3>1, <3>3 DEF k
  <2>3. ASSUME NEW n \in Members, rbk[n] # 0, Writes([mem EXCEPT !.rlnk[n] = FALSE], pc) PROVE TreeInv'
    <3> DEFINE k == [mem EXCEPT !.rlnk[n] = FALSE]
    <3>1. /\ SameDecision(mem, k) /\ k.ready = mem.ready /\ k.prom = mem.prom /\ k.rest = mem.rest
          /\ k.rstg = mem.rstg /\ \A m \in Members : k.rlnk[m] => mem.rlnk[m]
      BY <1>1 DEF SameDecision, Journal
    <3>a. Writes(k, "cleanup") BY <2>0, <2>3
    <3> HIDE DEF k
    <3>2. k.phase = mem.phase /\ (AtBefore(k) => AtBefore(mem)) /\ (AtAfter(k) => AtAfter(mem))
      BY <3>1 DEF AtBefore, AtAfter, SameDecision
    <3>3. Fits(k) BY <1>1, <3>1, <3>2, SamePhase, Refit DEF SameDecision
    <3> QED BY <1>3, <3>1, <3>3, <3>a
  <2>4. ASSUME NEW n \in Members, ~mem.rlnk[n], rbk' = [rbk EXCEPT ![n] = 0],
               UNCHANGED <<files, fwd, left>>, TreeStep(pc)
        PROVE  TreeInv'
    <3>1. /\ \A m \in Members : rbk'[m] = IF m = n THEN 0 ELSE rbk[m]
          /\ UNCHANGED <<files, mem, edited, pc>>
      BY <2>4 DEF TypeInv, TypeOK, TreeStep
    <3>2. Fits(mem)'
      <4> SUFFICES ASSUME NEW m \in Members
                   PROVE  /\ CopyFits(rbk'[m], mem, m)
                          /\ m \notin edited => MemberFits(files[m], rbk'[m], mem, m)
        BY <3>1 DEF Fits
      <4>1. CopyFits(rbk[m], mem, m) /\ (m \notin edited => MemberFits(files[m], rbk[m], mem, m))
        BY <1>1 DEF Fits
      <4>2. CASE m # n BY <3>1, <4>1, <4>2
      <4>3. CASE m = n BY <2>1, <2>4, <3>1, <4>1, <4>3 DEF CopyFits, MemberFits
      <4> QED BY <4>2, <4>3
    <3>3. Working' BY <2>0, <3>1 DEF Working
    <3> QED BY <2>0, <2>4, <3>2, <3>3, TreeStepFits
  <2>5. ASSUME NEW n \in Members, mem.rlnk[n], rbk[n] = 0, Refuse,
               ~(mem.rest[n] = mem.rstg[n] /\ IsBefore(mem, n))
        PROVE  TreeInv'
    <3>1. n \in edited BY <1>2, <2>5, Looks DEF MemberFits
    <3> QED BY <2>0, <2>5, <3>1, RefuseFits
  <2>6. ASSUME NEW n \in Members, rbk[n] = 0, Writes([mem EXCEPT !.rstg[n] = 0, !.rlnk[n] = FALSE], pc)
        PROVE  TreeInv'
    <3> DEFINE k == [mem EXCEPT !.rstg[n] = 0, !.rlnk[n] = FALSE]
    <3>1. /\ SameDecision(mem, k) /\ k.ready = mem.ready /\ k.prom = mem.prom /\ k.rest = mem.rest
          /\ \A m \in Members \ {n} : k.rstg[m] = mem.rstg[m] /\ k.rlnk[m] = mem.rlnk[m]
          /\ ~k.rlnk[n]
      BY <1>1, ZeroIno DEF SameDecision, Journal
    <3>a. Writes(k, "cleanup") BY <2>0, <2>6
    <3> HIDE DEF k
    <3>2. k.phase = mem.phase /\ (AtBefore(k) => AtBefore(mem)) /\ (AtAfter(k) => AtAfter(mem))
      BY <3>1 DEF AtBefore, AtAfter, SameDecision
    <3>b. /\ \A m \in Members : rbk[m] # 0 => k.rstg[m] = mem.rstg[m]
          /\ \A m \in Members : k.rlnk[m] /\ rbk[m] = 0 => mem.rlnk[m] /\ k.rstg[m] = mem.rstg[m]
      BY <2>6, <3>1
    <3>3. Fits(k) BY <1>1, <2>1, <3>1, <3>2, <3>b, SamePhase, Refit DEF SameDecision
    <3> QED BY <1>3, <3>1, <3>3, <3>a
  <2> QED BY <1>5, <2>2, <2>3, <2>4, <2>5, <2>6, CleanRollbackDoes
<1>6. ASSUME WriteGoal PROVE TreeInv'
  <2> DEFINE k == [mem EXCEPT !.phase = Goal(mem),
                              !.pers = IF Goal(mem) = "Aborted" THEN "Aborted" ELSE "Committed",
                              !.restored = (Goal(mem) = "RolledBack")]
  <2>0. pc = "goal" /\ Writes(k, "terminal") BY <1>6 DEF WriteGoal, Writes
  <2>1. /\ ~mem.ready
        /\ mem.phase \in {"Prepared", "AbortCleanup", "Committing", "RollingBack", "RollbackCleanup"}
    BY <2>0 DEF DecodeInv, InRun, Phased
  <2>2. /\ SameNames(mem, k) /\ k.phase = Goal(mem) /\ k.ready = mem.ready
    BY <1>1 DEF SameNames, Journal, Phases, Persistence, Goal
  <2> HIDE DEF k
  <2>3. (AtBefore(k) => AtBefore(mem)) /\ (AtAfter(k) => AtAfter(mem))
    BY <2>1, <2>2 DEF AtBefore, AtAfter, Goal
  <2>4. Fits(k) BY <1>1, <2>1, <2>2, <2>3, SamePhase, Refit DEF SameNames
  <2> QED BY <1>3, <2>0, <2>2, <2>4
<1> QED BY <1>4, <1>5, <1>6

LEMMA RestoreFits ==
    ASSUME TypeInv, StagingInv, DecodeInv, TreeInv, Restore \/ RestoreSwap \/ RestoreDone
    PROVE  TreeInv'
<1>0. pc \in Restoring BY DEF Restore, RestoreSwap, RestoreDone
<1>1. /\ mem \in Journal /\ Sound(mem) /\ Fits(mem)
      /\ \A m \in Members : rbk[m] # 0 => mem.rstg[m] # 0
  BY <1>0, AtWorkFits
<1>2. \A m \in Members : /\ CopyFits(rbk[m], mem, m)
                         /\ m \notin edited => MemberFits(files[m], rbk[m], mem, m)
  BY <1>1 DEF Fits
<1>3. mem.ready /\ mem.phase \in {"Prepared", "RollingBack"} /\ Clear(mem.lstg)
  BY <1>0 DEF DecodeInv, InRun, Phased, Staged
<1>4. ~AtBefore(mem) /\ ~AtAfter(mem) BY <1>3 DEF AtBefore, AtAfter
<1>5. /\ \A m \in Members \ (left \cup edited) : StandsBefore(files[m], mem, m)
      /\ \A m \in left \ edited : ~StandsBefore(files[m], mem, m) \/ (pc # "restore" /\ m = First(left))
      /\ left \subseteq Members
  BY <1>0 DEF TreeInv, Working, TypeInv, TypeOK
<1>6. ASSUME Restore PROVE TreeInv'
  <2>0. pc = "restore" BY <1>6 DEF Restore
  <2>1. ASSUME edited # {}, Refuse PROVE TreeInv' BY <2>0, <2>1, RefuseFits
  <2>2. ASSUME BeforeInventory(mem),
               Writes([mem EXCEPT
                         !.phase = IF mem.phase = "RollingBack" THEN "RollbackCleanup" ELSE "AbortCleanup",
                         !.pers = IF mem.phase = "RollingBack" THEN "Committed" ELSE "Aborted",
                         !.restored = (mem.phase = "RollingBack"),
                         !.ready = FALSE], "cleanup")
        PROVE  TreeInv'
    <3> DEFINE explicit == mem.phase = "RollingBack"
               k == [mem EXCEPT !.phase = IF explicit THEN "RollbackCleanup" ELSE "AbortCleanup",
                                !.pers = IF explicit THEN "Committed" ELSE "Aborted",
                                !.restored = explicit, !.ready = FALSE]
    <3>1. WriteJournal(k, "cleanup") /\ UNCHANGED tree BY <2>2 DEF Writes
    <3>2. /\ SameNames(mem, k) /\ k.phase \in {"RollbackCleanup", "AbortCleanup"} /\ k.ready = FALSE
      BY <1>1 DEF SameNames, Journal, Phases, Persistence
    <3> HIDE DEF k
    <3>3. \A m \in Members \ edited : /\ AtBefore(k) => StandsBefore(files[m], mem, m)
                                      /\ AtAfter(k) => StandsAfter(files[m], mem, m)
      <4>1. ~AtAfter(k) BY <3>2 DEF AtAfter
      <4>2. \A m \in Members : StandsBefore(files[m], mem, m) BY <2>2, Looks DEF BeforeInventory
      <4> QED BY <4>1, <4>2
    <3>4. Fits(k) BY <1>1, <3>2, <3>3, Refit DEF SameNames
    <3>5. pc' = "cleanup" => Working' BY DEF Working
    <3>6. k.req = mem.req BY <3>2 DEF SameNames
    <3> QED BY <2>0, <3>1, <3>4, <3>5, <3>6, WriteFits
  <2>3. ASSUME left = {}, ~BeforeInventory(mem), Refuse PROVE TreeInv'
    <3>1. edited = {} => BeforeInventory(mem) BY <1>5, <2>3, Looks DEF BeforeInventory
    <3> QED BY <2>1, <2>3, <3>1
  <2>4. ASSUME NEW n \in left, n = First(left), Refuse,
               ~IsAfter(mem, n) \/ (mem.before[n] # None /\ (mem.rstg[n] = 0 \/ rbk[n] = 0))
        PROVE  TreeInv'
    <3> SUFFICES ASSUME n \notin edited PROVE FALSE BY <2>1, <2>4
    <3>1. n \in Members /\ ~StandsBefore(files[n], mem, n) BY <1>5, <2>0
    <3>2. MemberFits(files[n], rbk[n], mem, n) /\ CopyFits(rbk[n], mem, n) BY <1>2, <3>1
    <3>3. StandsAfter(files[n], mem, n) BY <3>1, <3>2 DEF MemberFits
    <3>4. mem.before[n] # None /\ (mem.rstg[n] = 0 \/ rbk[n] = 0) BY <2>4, <3>3, Looks
    <3>5. n \in Destructive(mem)
      <4>1. CASE Operation(mem, n) = "none"
        <5>1. mem.before[n] = After(mem, n) BY <4>1 DEF Operation
        <5>2. mem.rest[n] # 0
          BY <3>1, <3>3, <4>1, <5>1 DEF StandsBefore, StandsAfter
        <5> QED BY <3>2, <5>2 DEF CopyFits
      <4>2. CASE Operation(mem, n) # "none"
        BY <3>1, <3>4, <4>2 DEF Operation, Destructive
      <4> QED BY <4>1, <4>2
    <3>6. rbk[n] # 0 BY <1>3, <3>1, <3>2, <3>5 DEF MemberFits
    <3> QED BY <1>1, <3>1, <3>4, <3>6
  <2>5. ASSUME NEW n \in left, n = First(left), mem.before[n] = None,
               files' = [files EXCEPT ![n] = [val |-> None, ino |-> 0]],
               left' = left \ {n}, UNCHANGED <<fwd, rbk>>, TreeStep(pc)
        PROVE  TreeInv'
    <3>1. /\ \A m \in Members \ {n} : files'[m] = files[m]
          /\ n \in Members /\ files'[n].val = None /\ UNCHANGED <<rbk, mem, edited, pc>>
      BY <1>5, <2>5 DEF TypeInv, TypeOK, TreeStep
    <3>2. StandsBefore(files'[n], mem, n) BY <2>5, <3>1 DEF StandsBefore, Stands
    <3>3. Fits(mem)'
      <4> SUFFICES ASSUME NEW m \in Members
                   PROVE  CopyFits(rbk[m], mem, m) /\ (m \notin edited => MemberFits(files'[m], rbk[m], mem, m))
        BY <3>1 DEF Fits
      <4>1. CASE m # n BY <1>2, <3>1, <4>1
      <4>2. CASE m = n BY <1>2, <1>4, <3>2, <4>2 DEF MemberFits
      <4> QED BY <4>1, <4>2
    <3>4. Working'
      <4>1. \A m \in Members \ (left' \cup edited) : StandsBefore(files'[m], mem, m)
        BY <1>5, <2>5, <3>1, <3>2
      <4>2. \A m \in left' \ edited : ~StandsBefore(files'[m], mem, m)
        BY <1>5, <2>0, <2>5, <3>1
      <4> QED BY <2>0, <3>1, <4>1, <4>2 DEF Working
    <3> QED BY <2>0, <2>5, <3>3, <3>4, TreeStepFits
  <2>6. ASSUME NEW n \in left, n = First(left), IsAfter(mem, n), mem.rstg[n] # 0, rbk[n] # 0,
               Writes([mem EXCEPT !.rest[n] = rbk[n]], "swap")
        PROVE  TreeInv'
    <3> DEFINE k == [mem EXCEPT !.rest[n] = rbk[n]]
    <3>0. n \in Members /\ rbk[n] \in OptIno BY <1>5 DEF TypeInv, TypeOK
    <3>1. /\ SameDecision(mem, k) /\ k.ready = mem.ready /\ k.prom = mem.prom /\ k.rstg = mem.rstg
          /\ k.rlnk = mem.rlnk /\ k.rest[n] = rbk[n]
          /\ \A m \in Members \ {n} : k.rest[m] = mem.rest[m]
      BY <1>1, <3>0 DEF SameDecision, Journal
    <3>2. WriteJournal(k, "swap") /\ UNCHANGED <<files, fwd, rbk, left>> BY <2>6 DEF Writes
    <3> HIDE DEF k
    <3>3. /\ k.phase = mem.phase /\ k.req = mem.req /\ k.before = mem.before /\ k.bino = mem.bino
          /\ Destructive(k) = Destructive(mem)
      BY <3>1, SamePlan DEF SameDecision
    <3>4. ~AtBefore(k) /\ ~AtAfter(k) BY <1>4, <3>1, <3>3 DEF AtBefore, AtAfter
    <3>5. Fits(k)
      <4> SUFFICES ASSUME NEW m \in Members
                   PROVE  CopyFits(rbk[m], k, m) /\ (m \notin edited => MemberFits(files[m], rbk[m], k, m))
        BY DEF Fits
      <4>1. CASE m # n
        <5>1. /\ StandsBefore(files[m], k, m) <=> StandsBefore(files[m], mem, m)
              /\ StandsAfter(files[m], k, m) <=> StandsAfter(files[m], mem, m)
          BY <3>1, <3>3, <4>1, SameStand
        <5> QED BY <1>2, <3>1, <3>3, <3>4, <4>1, <5>1 DEF CopyFits, MemberFits
      <4>2. CASE m = n
        <5>1. StandsAfter(files[n], k, n) BY <2>6, <3>0, <3>1, <3>3, SameStand, Looks
        <5>2. n \in Destructive(mem) BY <1>1, <2>6, <3>0 DEF Sound, Decodes
        <5> QED BY <1>2, <2>6, <3>1, <3>3, <3>4, <4>2, <5>1, <5>2 DEF CopyFits, MemberFits
      <4> QED BY <4>1, <4>2
    <3>6. pc' = "swap" => Working'
      <4>1. \A m \in Members \ {n} : StandsBefore(files[m], k, m) <=> StandsBefore(files[m], mem, m)
        BY <3>1, <3>3, SameStand
      <4>2. \A m \in Members \ (left \cup edited) : StandsBefore(files[m], k, m) BY <1>5, <4>1
      <4>3. \A m \in left \ edited : ~StandsBefore(files[m], k, m) \/ m = n
        BY <1>5, <2>0, <4>1
      <4>4. mem' = k /\ UNCHANGED edited BY <3>2 DEF WriteJournal
      <4> QED BY <2>6, <3>1, <3>2, <4>2, <4>3, <4>4 DEF Working
    <3> QED BY <2>0, <3>2, <3>3, <3>5, <3>6, WriteFits
  <2> QED BY <1>6, <2>2, <2>3, <2>4, <2>5, <2>6, RestoreDoes
<1>a. pc # "restore" => First(left) \in left /\ First(left) \in Members
  BY <1>0, <1>5, FirstIsMember DEF TypeInv, Held
<1>7. ASSUME RestoreSwap PROVE TreeInv'
  <2> DEFINE n == First(left)
  <2>0. /\ pc = "swap" /\ TreeStep("restored") /\ UNCHANGED <<fwd, left>>
        /\ files' = [files EXCEPT ![n] = [val |-> mem.before[n], ino |-> rbk[n]]]
        /\ rbk' = [rbk EXCEPT ![n] = 0]
    BY <1>7 DEF RestoreSwap
  <2>1. n \in left /\ n \in Members /\ rbk[n] # 0 /\ mem.rest[n] = rbk[n]
    BY <1>a, <2>0 DEF TreeInv, Working
  <2>2. /\ \A m \in Members \ {n} : files'[m] = files[m] /\ rbk'[m] = rbk[m]
        /\ files'[n].val = mem.before[n] /\ files'[n].ino = rbk[n] /\ rbk'[n] = 0
        /\ UNCHANGED <<mem, edited>> /\ pc' = "restored"
    <3> HIDE DEF n
    <3> QED BY <2>0, <2>1 DEF TypeInv, TypeOK, TreeStep
  <2>a. n = First(left) /\ First(left') = n BY <2>0
  <2> HIDE DEF n
  <2>3. StandsBefore(files'[n], mem, n) BY <2>1, <2>2 DEF StandsBefore, Stands
  <2>4. mem.rest[n] = mem.rstg[n] BY <1>2, <2>1 DEF CopyFits
  <2>5. Fits(mem)'
    <3> SUFFICES ASSUME NEW m \in Members
                 PROVE  CopyFits(rbk'[m], mem, m) /\ (m \notin edited => MemberFits(files'[m], rbk'[m], mem, m))
      BY <2>2 DEF Fits
    <3>1. CASE m # n BY <1>2, <2>2, <3>1
    <3>2. CASE m = n
      <4>1. CopyFits(rbk'[n], mem, n) BY <1>2, <2>1, <2>2 DEF CopyFits
      <4>2. MemberFits(files'[n], rbk'[n], mem, n) BY <1>4, <2>3, <2>4 DEF MemberFits
      <4> QED BY <3>2, <4>1, <4>2
    <3> QED BY <3>1, <3>2
  <2>6. Working'
    <3>1. \A m \in Members \ (left \cup edited) : StandsBefore(files'[m], mem, m)
      BY <1>5, <2>1, <2>2
    <3>2. \A m \in left \ edited : ~StandsBefore(files'[m], mem, m) \/ m = n
      BY <1>5, <2>2, <2>a
    <3> QED BY <2>0, <2>2, <2>3, <2>a, <3>1, <3>2 DEF Working
  <2> QED BY <2>0, <2>5, <2>6, TreeStepFits
<1>8. ASSUME RestoreDone PROVE TreeInv'
  <2> DEFINE n == First(left)
             k == [mem EXCEPT !.rstg[n] = 0, !.rlnk[n] = FALSE]
  <2>0. pc = "restored" /\ WriteJournal(k, "restore") /\ left' = left \ {n} /\ UNCHANGED tree
    BY <1>8 DEF RestoreDone
  <2>1. n \in left /\ n \in Members /\ rbk[n] = 0 /\ (n \notin edited => StandsBefore(files[n], mem, n))
    BY <1>a, <2>0 DEF TreeInv, Working, StagingInv, Progress
  <2>2. /\ SameDecision(mem, k) /\ k.ready = mem.ready /\ k.prom = mem.prom /\ k.rest = mem.rest
        /\ \A m \in Members \ {n} : k.rstg[m] = mem.rstg[m] /\ k.rlnk[m] = mem.rlnk[m]
        /\ ~k.rlnk[n]
    <3> HIDE DEF n
    <3> QED BY <1>1, <2>1, ZeroIno DEF SameDecision, Journal
  <2>a. n = First(left) OBVIOUS
  <2> HIDE DEF k, n
  <2>3. /\ k.phase = mem.phase /\ k.req = mem.req /\ k.before = mem.before /\ k.bino = mem.bino
    BY <2>2 DEF SameDecision
  <2>4. (AtBefore(k) => AtBefore(mem)) /\ (AtAfter(k) => AtAfter(mem)) BY <2>2, <2>3 DEF AtBefore, AtAfter
  <2>5. /\ \A m \in Members : rbk[m] # 0 => k.rstg[m] = mem.rstg[m]
        /\ \A m \in Members : k.rlnk[m] /\ rbk[m] = 0 => mem.rlnk[m] /\ k.rstg[m] = mem.rstg[m]
    BY <2>1, <2>2
  <2>6. Fits(k) BY <1>1, <1>3, <2>2, <2>3, <2>4, <2>5, SamePhase, Refit
  <2>7. pc' = "restore" => Working'
    <3>1. \A m \in Members : StandsBefore(files[m], k, m) <=> StandsBefore(files[m], mem, m)
      BY <2>2, <2>3, SameStand
    <3>2. \A m \in Members \ (left' \cup edited) : StandsBefore(files[m], k, m)
      BY <1>5, <2>0, <2>1, <3>1
    <3>3. \A m \in left' \ edited : ~StandsBefore(files[m], k, m)
      BY <1>5, <2>0, <2>a, <3>1
    <3>4. mem' = k /\ UNCHANGED <<files, edited>> BY <2>0 DEF WriteJournal
    <3> QED BY <3>2, <3>3, <3>4 DEF Working
  <2> QED BY <2>0, <2>3, <2>6, <2>7, WriteFits
<1> QED BY <1>6, <1>7, <1>8

LEMMA TerminalFits ==
    ASSUME TypeInv, StagingInv, DecodeInv, TreeInv, Terminalize \/ WriteReceipt \/ FailJournal \/ FailReceipt
    PROVE  TreeInv'
<1>1. ASSUME Terminalize PROVE TreeInv'
  <2>0. pc = "terminal" BY <1>1 DEF Terminalize
  <2>1. mem \in Journal /\ fence = "journal" /\ jr = mem /\ Fits(mem) BY <2>0, AtWorkFits, AtWork
  <2>2. undo[mem.req] = NoJournal BY <2>1 DEF TreeInv, Backed
  <2>3. /\ undo' = [undo EXCEPT ![mem.req] = jr] /\ fence' = "none" /\ pc' = "receipt"
        /\ UNCHANGED <<receipts, mem, edited>>
    BY <1>1, <2>2 DEF Terminalize
  <2>4. \A s \in Requests : undo'[s] = IF s = mem.req THEN mem ELSE undo[s]
    BY <2>1, <2>3 DEF TypeInv, TypeOK
  <2>5. mem # NoJournal BY <2>1, JournalIsThere
  <2>6. \A m \in Members : mem.rest[m] # 0 => m \in Destructive(mem) BY <2>1 DEF Fits, CopyFits
  <2>7. TreeFits' /\ Working' /\ OnlyEditsConflict' BY <2>3 DEF TreeFits, Working, OnlyEditsConflict
  <2>8. Backed' BY <2>1, <2>3, <2>4, <2>5, <2>6 DEF TreeInv, Backed
  <2> QED BY <2>7, <2>8 DEF TreeInv
<1>2. ASSUME WriteReceipt PROVE TreeInv'
  <2>0. /\ pc = "receipt" /\ fence = "none" /\ UNCHANGED <<fence, jr, undo, edited>>
        /\ pc' \in {"idle", "op"}
    BY <1>2 DEF WriteReceipt, Release, StagingInv, Synced
  <2>1. mem.req \in Requests BY <2>0 DEF TypeInv, Held, Journal
  <2>2. receipts' = [receipts EXCEPT ![mem.req] = TerminalReceipt(mem, receipts[mem.req])]
    BY <1>2 DEF WriteReceipt
  <2>3. \A s \in Requests : Pending(receipts[s])' => Pending(receipts[s]) BY <2>1, <2>2, TerminalSettles
  <2>4. TreeFits' /\ Working' /\ OnlyEditsConflict' BY <2>0 DEF TreeFits, Working, OnlyEditsConflict
  <2>5. Backed' BY <2>0, <2>3 DEF TreeInv, Backed
  <2> QED BY <2>4, <2>5 DEF TreeInv
<1>3. ASSUME FailJournal PROVE TreeInv'
  <2> DEFINE k == Uncertain(mem)
  <2>0. /\ pc = "failjournal" /\ mem' = k /\ pc' = "failreceipt"
        /\ UNCHANGED <<files, rbk, fence, undo, receipts, edited>>
        /\ jr' = jr \/ (jr' = k /\ fence = "journal")
    BY <1>3 DEF FailJournal
  <2>1. mem \in Journal BY <2>0 DEF TypeInv, Held
  <2>2. SameNames(mem, k) /\ k.phase = mem.phase /\ k.ready = mem.ready
    BY <2>1 DEF Uncertain, SameNames, Journal, Persistence
  <2> HIDE DEF k
  <2>3. ASSUME fence = "journal" PROVE Fits(k)
    <3>1. Fits(mem) BY <2>0, <2>3 DEF TreeInv, TreeFits
    <3>2. (AtBefore(k) => AtBefore(mem)) /\ (AtAfter(k) => AtAfter(mem)) BY <2>2 DEF AtBefore, AtAfter
    <3> QED BY <2>2, <3>1, <3>2, SamePhase, Refit DEF SameNames
  <2>4. TreeFits' BY <2>0, <2>3 DEF TreeInv, TreeFits, Fits
  <2>5. Working' /\ OnlyEditsConflict' BY <2>0 DEF Working, OnlyEditsConflict
  <2>6. k.req = mem.req BY <2>2 DEF SameNames
  <2>7. Backed' BY <2>0, <2>6 DEF TreeInv, Backed
  <2> QED BY <2>4, <2>5, <2>7 DEF TreeInv
<1>4. ASSUME FailReceipt PROVE TreeInv'
  <2>0. pc = "failreceipt" /\ UNCHANGED <<files, rbk, fence, jr, undo, edited>> /\ Release
    BY <1>4 DEF FailReceipt
  <2>1. \A s \in Requests : Pending(receipts[s])' => Pending(receipts[s]) \/ s = mem.req
    BY <1>4 DEF FailReceipt, TypeInv, TypeOK, Pending
  <2>2. Backed' BY <2>0, <2>1 DEF TreeInv, Backed, Release
  <2> QED BY <2>0, <2>2, ReleaseFits
<1> QED BY <1>1, <1>2, <1>3, <1>4

LEMMA OperationFits ==
    ASSUME TypeInv, StagingInv, DecodeInv, TreeInv,
           \/ ReturnRefused \/ Lookup \/ Complete \/ Finalize \/ RollbackOpen \/ RollbackBegin
           \/ \E r \in Requests : ExpireReceipt(r)
    PROVE  TreeInv'
<1>0. pc \in {"op", "admit"} => fence = "none" /\ call.req \in Requests
  BY DEF StagingInv, Synced, TypeInv, Held
<1>1. ASSUME ReturnRefused PROVE TreeInv' BY <1>1, ReturnFits DEF ReturnRefused
<1>2. ASSUME Lookup PROVE TreeInv'
  <2> DEFINE r == call.req
  <2>0. pc = "op" /\ fence = "none" /\ r \in Requests BY <1>0, <1>2 DEF Lookup
  <2>1. CASE Return BY <2>1, ReturnFits
  <2>2. CASE undo[r] = NoJournal /\ ~Return
    <3>1. ~Pending(receipts[r]) BY <2>0, <2>2 DEF TreeInv, Backed
    <3>2. Goto("admit") BY <1>2, <2>2, <3>1 DEF Lookup
    <3>3. pc' = "admit" /\ UNCHANGED <<fence, jr, undo, receipts, call, edited>> BY <3>2 DEF Goto
    <3>4. TreeFits' /\ Working' /\ OnlyEditsConflict'
      BY <2>0, <3>3 DEF TreeFits, Working, OnlyEditsConflict
    <3>5. Backed' BY <2>0, <2>2, <3>3 DEF TreeInv, Backed
    <3> QED BY <3>4, <3>5 DEF TreeInv
  <2>3. CASE undo[r] # NoJournal /\ ~Return
    <3>1. /\ undo[r].phase \in TerminalPhases /\ Decodes(undo[r])
          /\ AgreesWithReceipt(undo[r], receipts[r])
      BY <2>0, <2>3 DEF DecodeInv, InUndo, Sound
    <3>2. /\ \/ receipts' = receipts
             \/ receipts' = [receipts EXCEPT ![r] = TerminalReceipt(undo[r], receipts[r])]
          /\ Release /\ UNCHANGED <<files, rbk, fence, jr, undo, edited>>
      BY <1>2, <2>3, <3>1 DEF Lookup
    <3>3. \A s \in Requests : Pending(receipts[s])' => Pending(receipts[s])
      <4>1. CASE receipts' = receipts BY <4>1 DEF Pending
      <4>2. CASE receipts' = [receipts EXCEPT ![r] = TerminalReceipt(undo[r], receipts[r])]
        BY <2>0, <4>2, TerminalSettles
      <4> QED BY <3>2, <4>1, <4>2
    <3>4. Backed' BY <3>2, <3>3 DEF TreeInv, Backed, Release
    <3> QED BY <3>2, <3>4, ReleaseFits
  <2> QED BY <2>1, <2>2, <2>3
<1>3. ASSUME Complete PROVE TreeInv'
  <2>0. Release /\ UNCHANGED <<files, rbk, fence, jr, undo, edited>> BY <1>3 DEF Complete
  <2>1. \A s \in Requests : Pending(receipts[s])' => Pending(receipts[s])
    <3>1. CASE ~Terminal(receipts[call.req]) BY <1>3, <3>1 DEF Complete, Pending
    <3>2. CASE Terminal(receipts[call.req])
      <4>1. call.req \in Requests BY <1>0, <1>3 DEF Complete
      <4>2. receipts[call.req] \in Receipt BY <3>2, <4>1 DEF Terminal, TypeInv, TypeOK
      <4>3. receipts' = [receipts EXCEPT ![call.req].settled = TRUE] BY <1>3, <3>2 DEF Complete
      <4>4. receipts'[call.req].pers = receipts[call.req].pers
        BY <4>1, <4>2, <4>3 DEF TypeInv, TypeOK, Receipt
      <4> QED BY <3>2, <4>3, <4>4 DEF Pending, Terminal, TypeInv, TypeOK
    <3> QED BY <3>1, <3>2
  <2>2. Backed' BY <2>0, <2>1 DEF TreeInv, Backed, Release
  <2> QED BY <2>0, <2>2, ReleaseFits
<1>4. ASSUME Finalize PROVE TreeInv'
  <2>0. Release /\ UNCHANGED <<files, rbk, fence, jr, receipts, edited>> /\ fence = "none"
    BY <1>0, <1>4 DEF Finalize
  <2>1. \A s \in Requests : \/ undo'[s] = undo[s]
                            \/ undo'[s] = NoJournal /\ ~Pending(receipts[s])
    BY <1>4 DEF Finalize, TypeInv, TypeOK, Terminal, Pending
  <2>2. Backed' BY <2>0, <2>1 DEF TreeInv, Backed, Release
  <2> QED BY <2>0, <2>2, ReleaseFits
<1>5. ASSUME RollbackOpen PROVE TreeInv'
  <2> DEFINE r == call.req
  <2>0. pc = "op" /\ fence = "none" /\ r \in Requests BY <1>0, <1>5 DEF RollbackOpen
  <2>1. CASE Return BY <2>1, ReturnFits
  <2>2. CASE ~Return
    <3>1. undo[r] # NoJournal BY <1>5, <2>2 DEF RollbackOpen
    <3>2. Sound(undo[r]) /\ AgreesWithReceipt(undo[r], receipts[r]) /\ undo[r].req = r
      BY <2>0, <3>1 DEF DecodeInv, InUndo
    <3>3. /\ undo[r].phase = "Committed" /\ AfterInventory(undo[r])
          /\ undo' = [undo EXCEPT ![r] = NoJournal]
          /\ fence' = "journal" /\ jr' = undo[r] /\ mem' = undo[r] /\ pc' = "rollback"
          /\ edited' = {} /\ UNCHANGED <<files, rbk, receipts>>
      BY <1>5, <2>2, <3>1, <3>2 DEF RollbackOpen, Sound
    <3>4. Clear(rbk) BY <2>0 DEF StagingInv, Owned
    <3>5. ~undo[r].ready /\ \A m \in Members : ~undo[r].rlnk[m]
      BY <3>2, <3>3 DEF Sound, Decodes, TerminalPhases
    <3>6. \A m \in Members : undo[r].rest[m] # 0 => m \in Destructive(undo[r])
      BY <2>0, <3>1 DEF TreeInv, Backed
    <3>7. ~AtBefore(undo[r]) BY <3>3 DEF AtBefore
    <3>8. \A m \in Members : StandsAfter(files[m], undo[r], m) BY <3>3, Looks DEF AfterInventory
    <3>9. \A m \in Members : CopyFits(rbk[m], undo[r], m) /\ MemberFits(files[m], rbk[m], undo[r], m)
      BY <3>4, <3>5, <3>6, <3>7, <3>8 DEF CopyFits, MemberFits
    <3>10. TreeFits' BY <3>3, <3>9 DEF TreeFits, Fits
    <3>11. Working' /\ OnlyEditsConflict' BY <3>3 DEF Working, OnlyEditsConflict
    <3>12. \A s \in Requests : undo'[s] = IF s = r THEN NoJournal ELSE undo[s]
      BY <3>3 DEF TypeInv, TypeOK
    <3>13. Backed' BY <2>0, <3>2, <3>3, <3>12 DEF TreeInv, Backed
    <3> QED BY <3>10, <3>11, <3>13 DEF TreeInv
  <2> QED BY <2>1, <2>2
<1>6. ASSUME RollbackBegin PROVE TreeInv'
  <2> DEFINE k == [mem EXCEPT !.phase = "RollingBack", !.ready = FALSE]
  <2>0. pc = "rollback" /\ WriteJournal(k, "stage") /\ UNCHANGED tree BY <1>6 DEF RollbackBegin
  <2>1. mem \in Journal /\ Fits(mem) BY <2>0, AtWorkFits
  <2>2. mem.phase = "Committed" BY <2>0 DEF DecodeInv, InRun, Phased
  <2>3. SameNames(mem, k) /\ k.phase = "RollingBack" /\ k.ready = FALSE
    BY <2>1 DEF SameNames, Journal, Phases
  <2> HIDE DEF k
  <2>4. (AtBefore(k) => AtBefore(mem)) /\ (AtAfter(k) => AtAfter(mem))
    BY <2>2, <2>3 DEF AtBefore, AtAfter
  <2>5. Fits(k) BY <2>1, <2>3, <2>4, SamePhase, Refit DEF SameNames
  <2>6. pc' = "stage" => Working' BY <2>0, <2>3 DEF Working, WriteJournal
  <2>7. k.req = mem.req BY <2>3 DEF SameNames
  <2> QED BY <2>0, <2>5, <2>6, <2>7, WriteFits
<1>7. ASSUME NEW r \in Requests, ExpireReceipt(r) PROVE TreeInv'
  <2>0. /\ pc = "admit" /\ Terminal(receipts[r]) /\ UNCHANGED <<files, rbk, fence, jr, pc, call, mem, edited>>
        /\ \/ undo' = [undo EXCEPT ![r] = NoJournal] /\ UNCHANGED receipts
           \/ receipts' = [receipts EXCEPT ![r] = NoReceipt] /\ UNCHANGED undo
    BY <1>7 DEF ExpireReceipt, Expired
  <2>1. TreeFits' /\ Working' /\ OnlyEditsConflict'
    BY <1>0, <2>0 DEF TreeFits, Working, OnlyEditsConflict
  <2>2. Backed'
    <3>1. ~Pending(receipts[r]) BY <2>0 DEF Terminal, Pending
    <3>2. \A s \in Requests : Pending(receipts[s])' => Pending(receipts[s]) /\ s # r
      BY <2>0, <3>1 DEF Pending, TypeInv, TypeOK
    <3>3. \A s \in Requests : undo'[s] = undo[s] \/ (undo'[s] = NoJournal /\ s = r)
      BY <2>0 DEF TypeInv, TypeOK
    <3> QED BY <1>0, <2>0, <3>2, <3>3 DEF TreeInv, Backed
  <2> QED BY <2>1, <2>2 DEF TreeInv
<1> QED BY <1>1, <1>2, <1>3, <1>4, <1>5, <1>6, <1>7

LEMMA PrepareFits ==
    ASSUME TypeInv, StagingInv, DecodeInv, TreeInv,
           Admit \/ PublishFence \/ WriteSetup \/ WritePrepared \/ PublishReceipt
    PROVE  TreeInv'
<1>1. ASSUME Admit PROVE TreeInv'
  <2>0. pc = "admit" /\ fence = "none" BY <1>1 DEF Admit, StagingInv, Synced
  <2>1. CASE Return BY <2>1, ReturnFits
  <2>2. CASE ~Return
    <3> DEFINE k == SetupJournal(call.req)
    <3>1. /\ mem' = k /\ fence' = "stage" /\ pc' = "fence" /\ edited' = {}
          /\ UNCHANGED <<files, rbk, undo, receipts>>
      BY <1>1, <2>2 DEF Admit
    <3>2. /\ k.req = call.req /\ k.phase = "Setup" /\ k.ready = FALSE
          /\ \A m \in Members : /\ k.rest[m] = 0 /\ k.rlnk[m] = FALSE /\ k.before[m] = files[m].val
                                /\ k.bino[m] = files[m].ino
      BY DEF SetupJournal, Vals
    <3> HIDE DEF k
    <3>3. Clear(rbk) BY <2>0 DEF StagingInv, Owned
    <3>4. \A m \in Members : StandsBefore(files[m], k, m) BY <3>2 DEF StandsBefore, Stands
    <3>5. ~AtAfter(k) BY <3>2 DEF AtAfter
    <3>6. \A m \in Members : CopyFits(rbk[m], k, m) /\ MemberFits(files[m], rbk[m], k, m)
      BY <3>2, <3>3, <3>4, <3>5 DEF CopyFits, MemberFits
    <3>7. TreeFits' BY <3>1, <3>6 DEF TreeFits, Fits
    <3>8. Working' /\ OnlyEditsConflict' BY <3>1 DEF Working, OnlyEditsConflict
    <3>9. Backed' BY <2>0, <3>1, <3>2 DEF TreeInv, Backed
    <3> QED BY <3>7, <3>8, <3>9 DEF TreeInv
  <2> QED BY <2>1, <2>2
<1>2. ASSUME PublishFence PROVE TreeInv'
  <2>1. /\ pc = "fence" /\ pc' = "setup" /\ fence' = "bare" /\ fence # "journal"
        /\ UNCHANGED <<files, rbk, undo, receipts, mem, edited>>
    BY <1>2 DEF PublishFence, StagingInv, Progress
  <2>2. TreeFits' BY <2>1 DEF TreeInv, TreeFits, Fits
  <2>3. Working' /\ OnlyEditsConflict' BY <2>1 DEF Working, OnlyEditsConflict
  <2>4. Backed' BY <2>1 DEF TreeInv, Backed
  <2> QED BY <2>2, <2>3, <2>4 DEF TreeInv
<1>3. ASSUME WriteSetup PROVE TreeInv'
  <2>1. /\ pc = "setup" /\ pc' = "blobs" /\ fence' = "journal" /\ jr' = mem /\ fence # "journal"
        /\ UNCHANGED <<files, rbk, undo, receipts, mem, edited>>
    BY <1>3 DEF WriteSetup, StagingInv, Progress
  <2>2. TreeFits' BY <2>1 DEF TreeInv, TreeFits, Fits
  <2>3. Working' /\ OnlyEditsConflict' BY <2>1 DEF Working, OnlyEditsConflict
  <2>4. Backed' BY <2>1 DEF TreeInv, Backed
  <2> QED BY <2>2, <2>3, <2>4 DEF TreeInv
<1>4. ASSUME WritePrepared PROVE TreeInv'
  <2> DEFINE k == [mem EXCEPT !.phase = "Prepared"]
  <2>0. pc = "blobs" /\ WriteJournal(k, "prepared") /\ UNCHANGED tree BY <1>4 DEF WritePrepared
  <2>1. mem \in Journal /\ Fits(mem) BY <2>0, AtWorkFits
  <2>2. mem.phase = "Setup" /\ ~mem.ready
    BY <2>0 DEF DecodeInv, InRun, Phased, Sound, Decodes
  <2>3. SameNames(mem, k) /\ k.phase = "Prepared" /\ k.ready = mem.ready
    BY <2>1 DEF SameNames, Journal, Phases
  <2> HIDE DEF k
  <2>4. (AtBefore(k) => AtBefore(mem)) /\ (AtAfter(k) => AtAfter(mem))
    BY <2>2, <2>3 DEF AtBefore, AtAfter
  <2>5. Fits(k) BY <2>1, <2>2, <2>3, <2>4, SamePhase, Refit DEF SameNames
  <2>6. pc' = "prepared" => Working' BY DEF Working
  <2>7. k.req = mem.req BY <2>3 DEF SameNames
  <2> QED BY <2>0, <2>5, <2>6, <2>7, WriteFits
<1>5. ASSUME PublishReceipt PROVE TreeInv'
  <2>0. /\ pc = "prepared" /\ pc' = "stage" /\ UNCHANGED <<files, rbk, fence, jr, undo, mem, edited>>
    BY <1>5 DEF PublishReceipt
  <2>1. fence = "journal" /\ jr = mem /\ ~mem.ready
    BY <2>0 DEF StagingInv, Synced, DecodeInv, InRun, Phased
  <2>2. \A s \in Requests : Pending(receipts[s])' => Pending(receipts[s]) \/ s = mem.req
    BY <1>5 DEF PublishReceipt, TypeInv, TypeOK, Pending
  <2>3. TreeFits' BY <2>0 DEF TreeInv, TreeFits, Fits
  <2>4. Working' /\ OnlyEditsConflict' BY <2>0, <2>1 DEF Working, OnlyEditsConflict
  <2>5. Backed' BY <2>0, <2>1, <2>2 DEF TreeInv, Backed
  <2> QED BY <2>3, <2>4, <2>5 DEF TreeInv
<1> QED BY <1>1, <1>2, <1>3, <1>4, <1>5

LEMMA StageFits ==
    ASSUME TypeInv, StagingInv, DecodeInv, TreeInv, StageRollback
    PROVE  TreeInv'
<1>0. pc = "stage" BY DEF StageRollback
<1>1. /\ mem \in Journal /\ Sound(mem) /\ Fits(mem)
      /\ \A m \in Members : /\ CopyFits(rbk[m], mem, m)
                            /\ m \notin edited => MemberFits(files[m], rbk[m], mem, m)
                            /\ rbk[m] # 0 => mem.rstg[m] # 0
  BY <1>0, AtWorkFits
<1>2. /\ mem.phase = IF run = "commit" THEN "Prepared" ELSE "RollingBack"
      /\ ~mem.ready /\ Clear(fwd)
  BY <1>0 DEF DecodeInv, InRun, Phased, TreeInv, Working, StagingInv, Progress
<1>3. Destructive(mem) \subseteq Members BY DEF Destructive
<1>4. CASE /\ \A m \in Destructive(mem) : mem.rlnk[m]
           /\ WriteJournal([mem EXCEPT !.ready = TRUE], IF run = "commit" THEN "promote" ELSE "phase")
           /\ UNCHANGED tree
  <2> DEFINE k == [mem EXCEPT !.ready = TRUE]
             n == IF run = "commit" THEN "promote" ELSE "phase"
  <2>1. WriteJournal(k, n) BY <1>4
  <2>2. n \in {"promote", "phase"} OBVIOUS
  <2>3. SameNames(mem, k) /\ k.phase = mem.phase /\ k.ready = TRUE BY <1>1 DEF SameNames, Journal
  <2> HIDE DEF k, n
  <2>4. ~AtBefore(k) /\ ~AtAfter(k) BY <1>2, <2>3 DEF AtBefore, AtAfter
  <2>5. Fits(k) BY <1>1, <1>4, <2>3, <2>4, Refit DEF SameNames
  <2>6. pc' = n => Working'
    <3>1. mem' = k BY <2>1 DEF WriteJournal
    <3> QED BY <1>2, <1>4, <2>2, <2>3, <3>1 DEF Working
  <2>7. k.req = mem.req BY <2>3 DEF SameNames
  <2> QED BY <1>0, <1>4, <2>1, <2>2, <2>5, <2>6, <2>7, WriteFits
<1>5. ASSUME NEW n \in Destructive(mem), NEW i \in Inodes, ~mem.rlnk[n], mem.rstg[n] = 0,
             Writes([mem EXCEPT !.rstg[n] = i], pc)
      PROVE  TreeInv'
  <2> DEFINE k == [mem EXCEPT !.rstg[n] = i]
  <2>0. n \in Members /\ i \in OptIno BY <1>3 DEF Inodes, OptIno
  <2>1. /\ SameDecision(mem, k) /\ k.ready = mem.ready /\ k.prom = mem.prom /\ k.rest = mem.rest
        /\ k.rlnk = mem.rlnk /\ \A m \in Members \ {n} : k.rstg[m] = mem.rstg[m]
    BY <1>1, <2>0 DEF SameDecision, Journal
  <2>2. WriteJournal(k, "stage") /\ UNCHANGED tree BY <1>0, <1>5 DEF Writes
  <2> HIDE DEF k
  <2>3. k.phase = mem.phase /\ k.req = mem.req /\ k.before = mem.before /\ k.bino = mem.bino
    BY <2>1 DEF SameDecision
  <2>4. (AtBefore(k) => AtBefore(mem)) /\ (AtAfter(k) => AtAfter(mem))
    BY <2>1, <2>3 DEF AtBefore, AtAfter
  <2>5. /\ \A m \in Members : rbk[m] # 0 => k.rstg[m] = mem.rstg[m]
        /\ \A m \in Members : k.rlnk[m] /\ rbk[m] = 0 => mem.rlnk[m] /\ k.rstg[m] = mem.rstg[m]
    BY <1>1, <1>5, <2>1
  <2>6. Fits(k) BY <1>1, <1>2, <2>1, <2>3, <2>4, <2>5, SamePhase, Refit
  <2>7. pc' = "stage" => Working' BY <1>2, <2>1, <2>2 DEF Working, WriteJournal
  <2> QED BY <1>0, <2>2, <2>3, <2>6, <2>7, WriteFits
<1>6. ASSUME NEW n \in Destructive(mem), Refuse, ~(IF run = "commit" THEN IsBefore(mem, n) ELSE IsAfter(mem, n))
      PROVE  TreeInv'
  <2>1. CASE run = "commit" BY <1>0, <1>6, <2>1, RefuseFits
  <2>2. CASE run # "commit"
    <3>1. AtAfter(mem) BY <1>2, <2>2 DEF AtAfter
    <3>2. n \notin edited => StandsAfter(files[n], mem, n) BY <1>1, <1>3, <3>1 DEF MemberFits
    <3>3. edited # {} BY <1>6, <2>2, <3>2, Looks
    <3> QED BY <1>0, <1>6, <3>3, RefuseFits
  <2> QED BY <2>1, <2>2
<1>7. ASSUME NEW n \in Members, mem.rstg[n] # 0, rbk[n] = 0, ~mem.rlnk[n],
             rbk' = [rbk EXCEPT ![n] = mem.rstg[n]], UNCHANGED <<files, fwd, left>>, TreeStep(pc)
      PROVE  TreeInv'
  <2>1. /\ \A m \in Members \ {n} : rbk'[m] = rbk[m]
        /\ rbk'[n] = mem.rstg[n] /\ UNCHANGED <<files, mem, edited, pc>>
    BY <1>7 DEF TypeInv, TypeOK, TreeStep
  <2>2. Fits(mem)'
    <3> SUFFICES ASSUME NEW m \in Members
                 PROVE  CopyFits(rbk'[m], mem, m) /\ (m \notin edited => MemberFits(files[m], rbk'[m], mem, m))
      BY <2>1 DEF Fits
    <3>1. CASE m # n BY <1>1, <2>1, <3>1
    <3>2. CASE m = n BY <1>1, <1>7, <2>1, <3>2 DEF CopyFits, MemberFits
    <3> QED BY <3>1, <3>2
  <2>3. Working' BY <1>0, <1>2, <2>1 DEF Working
  <2> QED BY <1>0, <1>7, <2>2, <2>3, TreeStepFits
<1>8. ASSUME NEW n \in Members, rbk[n] # 0, Writes([mem EXCEPT !.rlnk[n] = TRUE], pc)
      PROVE  TreeInv'
  <2> DEFINE k == [mem EXCEPT !.rlnk[n] = TRUE]
  <2>1. /\ SameDecision(mem, k) /\ k.ready = mem.ready /\ k.prom = mem.prom /\ k.rest = mem.rest
        /\ k.rstg = mem.rstg /\ \A m \in Members \ {n} : k.rlnk[m] = mem.rlnk[m]
    BY <1>1 DEF SameDecision, Journal
  <2>2. WriteJournal(k, "stage") /\ UNCHANGED tree BY <1>0, <1>8 DEF Writes
  <2> HIDE DEF k
  <2>3. k.phase = mem.phase /\ k.req = mem.req /\ k.before = mem.before /\ k.bino = mem.bino
    BY <2>1 DEF SameDecision
  <2>4. (AtBefore(k) => AtBefore(mem)) /\ (AtAfter(k) => AtAfter(mem))
    BY <2>1, <2>3 DEF AtBefore, AtAfter
  <2>5. \A m \in Members : k.rlnk[m] /\ rbk[m] = 0 => mem.rlnk[m] BY <1>8, <2>1
  <2>6. Fits(k) BY <1>1, <1>2, <2>1, <2>3, <2>4, <2>5, SamePhase, Refit
  <2>7. pc' = "stage" => Working' BY <1>2, <2>1, <2>2 DEF Working, WriteJournal
  <2> QED BY <1>0, <2>2, <2>3, <2>6, <2>7, WriteFits
<1> QED BY <1>4, <1>5, <1>6, <1>7, <1>8, StageRollbackDoes

LEMMA PromotionFits ==
    ASSUME TypeInv, StagingInv, DecodeInv, TreeInv, Promote \/ PromoteDone
    PROVE  TreeInv'
<1>0. pc \in {"promote", "promoted"} BY DEF Promote, PromoteDone
<1>1. /\ mem \in Journal /\ Sound(mem) /\ Fits(mem)
      /\ \A m \in Members : /\ CopyFits(rbk[m], mem, m)
                            /\ m \notin edited => MemberFits(files[m], rbk[m], mem, m)
                            /\ rbk[m] # 0 => mem.rstg[m] # 0
  BY <1>0, AtWorkFits
<1>2. mem.ready /\ mem.phase = "Prepared" /\ Clear(mem.rest) /\ run = "commit" /\ left \subseteq Members
  BY <1>0 DEF DecodeInv, InRun, Phased, Runs, TreeInv, Working, TypeInv, TypeOK
<1>3. ~AtBefore(mem) /\ ~AtAfter(mem) BY <1>2 DEF AtBefore, AtAfter
\* While members are promoted, every copy that a restore needs is there.
<1>4. \A m \in Members \ edited : /\ mem.rlnk[m] => rbk[m] # 0
                                  /\ m \in Destructive(mem) => rbk[m] # 0
  <2> SUFFICES ASSUME NEW m \in Members \ edited
               PROVE  (mem.rlnk[m] => rbk[m] # 0) /\ (m \in Destructive(mem) => rbk[m] # 0)
    OBVIOUS
  <2>1. mem.rlnk[m] => rbk[m] # 0 BY <1>1, <1>2 DEF MemberFits, Sound
  <2>2. m \in Destructive(mem) => mem.rlnk[m] BY <1>1, <1>2 DEF Sound, Decodes
  <2> QED BY <2>1, <2>2
\* So a member may be taken to its after image.
<1>5. ASSUME NEW n \in Members, NEW f, StandsAfter(f, mem, n), UNCHANGED <<rbk, mem, edited>>,
             files' = [files EXCEPT ![n] = f]
      PROVE  Fits(mem)'
  <2>1. files'[n] = f /\ \A m \in Members \ {n} : files'[m] = files[m] BY <1>5 DEF TypeInv, TypeOK
  <2> SUFFICES ASSUME NEW m \in Members
               PROVE  CopyFits(rbk[m], mem, m) /\ (m \notin edited => MemberFits(files'[m], rbk[m], mem, m))
    BY <1>5 DEF Fits
  <2>2. CASE m # n BY <1>1, <2>1, <2>2
  <2>3. CASE m = n BY <1>1, <1>3, <1>4, <1>5, <2>1, <2>3 DEF MemberFits
  <2> QED BY <2>2, <2>3
<1>6. ASSUME Promote PROVE TreeInv'
  <2>0. pc = "promote" BY <1>6 DEF Promote
  <2>a. \A m \in Members : fwd[m] # 0 => fwd[m] = mem.prom[m] BY <2>0 DEF TreeInv, Working
  <2>1. CASE Refuse BY <1>2, <2>0, <2>1, RefuseFits
  <2>2. CASE AfterInventory(mem) /\ Writes([mem EXCEPT !.phase = "Committing", !.pers = "Committed"], "cleanup")
    <3> DEFINE k == [mem EXCEPT !.phase = "Committing", !.pers = "Committed"]
    <3>1. WriteJournal(k, "cleanup") /\ UNCHANGED tree BY <2>2 DEF Writes
    <3>2. SameNames(mem, k) /\ k.phase = "Committing"
      BY <1>1 DEF SameNames, Journal, Phases, Persistence
    <3> HIDE DEF k
    <3>3. \A m \in Members : StandsAfter(files[m], mem, m) BY <2>2, Looks DEF AfterInventory
    <3>4. ~AtBefore(k) BY <3>2 DEF AtBefore
    <3>5. Fits(k) BY <1>1, <3>2, <3>3, <3>4, Refit DEF SameNames
    <3>6. pc' = "cleanup" => Working' BY DEF Working
    <3>7. k.req = mem.req BY <3>2 DEF SameNames
    <3> QED BY <2>0, <3>1, <3>5, <3>6, <3>7, WriteFits
  <2>3. ASSUME NEW n \in left, fwd' = [fwd EXCEPT ![n] = mem.prom[n]], UNCHANGED <<files, rbk>>, TreeStep(pc)
        PROVE  TreeInv'
    <3>1. UNCHANGED <<mem, edited, pc>> BY <2>3 DEF TreeStep
    <3>2. \A m \in Members : fwd'[m] = fwd[m] \/ fwd'[m] = mem.prom[m]
      BY <1>2, <2>3 DEF TypeInv, TypeOK
    <3>3. Fits(mem)' BY <1>1, <2>3, <3>1 DEF Fits
    <3>4. Working' BY <1>2, <2>0, <2>a, <3>1, <3>2 DEF Working
    <3> QED BY <2>0, <2>3, <3>3, <3>4, TreeStepFits
  <2>4. CASE UNCHANGED tree /\ TreeStep(pc)
    <3>1. UNCHANGED <<files, fwd, rbk, mem, edited, pc>> BY <2>4 DEF TreeStep
    <3>3. Fits(mem)' BY <1>1, <3>1 DEF Fits
    <3>4. Working' BY <1>2, <2>0, <2>a, <3>1 DEF Working
    <3> QED BY <2>0, <2>4, <3>3, <3>4, TreeStepFits
  <2>5. ASSUME NEW n \in left, Operation(mem, n) = "delete",
               files' = [files EXCEPT ![n] = [val |-> None, ino |-> 0]],
               UNCHANGED <<fwd, rbk>>, TreeStep(pc)
        PROVE  TreeInv'
    <3>1. UNCHANGED <<mem, edited, pc>> BY <2>5 DEF TreeStep
    <3>2. After(mem, n) = None BY <2>5 DEF Operation
    <3>3. StandsAfter([val |-> None, ino |-> 0], mem, n) BY <3>2 DEF StandsAfter, Stands
    <3>4. Fits(mem)' BY <1>2, <1>5, <2>5, <3>1, <3>3
    <3>5. Working' BY <1>2, <2>0, <2>5, <2>a, <3>1 DEF Working
    <3> QED BY <2>0, <2>5, <3>4, <3>5, TreeStepFits
  <2>6. ASSUME NEW n \in left, NEW i \in Inodes, mem.prom[n] = 0, IsBefore(mem, n),
               Writes([mem EXCEPT !.prom[n] = i, !.lstg[n] = i], pc)
        PROVE  TreeInv'
    <3> DEFINE k == [mem EXCEPT !.prom[n] = i, !.lstg[n] = i]
    <3>0. n \in Members /\ i \in OptIno BY <1>2 DEF Inodes, OptIno
    <3>1. /\ SameDecision(mem, k) /\ k.ready = mem.ready /\ k.rest = mem.rest
          /\ k.rstg = mem.rstg /\ k.rlnk = mem.rlnk
          /\ \A m \in Members \ {n} : k.prom[m] = mem.prom[m]
      BY <1>1, <3>0 DEF SameDecision, Journal
    <3>2. WriteJournal(k, "promote") /\ UNCHANGED tree BY <2>0, <2>6 DEF Writes
    <3> HIDE DEF k
    <3>3. /\ k.phase = mem.phase /\ k.req = mem.req /\ k.before = mem.before /\ k.bino = mem.bino
          /\ Destructive(k) = Destructive(mem)
      BY <3>1, SamePlan DEF SameDecision
    <3>4. ~AtBefore(k) /\ ~AtAfter(k) BY <1>3, <3>1, <3>3 DEF AtBefore, AtAfter
    <3>5. Fits(k)
      <4> SUFFICES ASSUME NEW m \in Members
                   PROVE  CopyFits(rbk[m], k, m) /\ (m \notin edited => MemberFits(files[m], rbk[m], k, m))
        BY DEF Fits
      <4>1. StandsBefore(files[m], k, m) <=> StandsBefore(files[m], mem, m) BY <3>1, <3>3, SameStand
      <4>2. CopyFits(rbk[m], k, m) BY <1>1, <3>1, <3>3 DEF CopyFits
      <4>3. CASE m # n
        <5>1. StandsAfter(files[m], k, m) <=> StandsAfter(files[m], mem, m)
          BY <3>1, <3>3, <4>3, SameStand
        <5> QED BY <1>1, <3>1, <3>3, <3>4, <4>1, <4>2, <5>1 DEF MemberFits
      <4>4. CASE m = n
        <5>1. StandsBefore(files[n], mem, n) BY <2>6, Looks
        <5> QED BY <1>1, <3>1, <3>3, <3>4, <4>1, <4>2, <4>4, <5>1 DEF MemberFits
      <4> QED BY <4>3, <4>4
    <3>6. pc' = "promote" => Working'
      <4>1. fwd[n] = 0 BY <2>0, <2>6, <3>0 DEF StagingInv, Progress
      <4>2. mem' = k BY <3>2 DEF WriteJournal
      <4> QED BY <1>2, <2>a, <3>1, <3>2, <4>1, <4>2 DEF Working
    <3> QED BY <2>0, <3>2, <3>3, <3>5, <3>6, WriteFits
  <2>7. ASSUME NEW n \in left, mem.prom[n] # 0, fwd[n] # 0,
               files' = [files EXCEPT ![n] = [val |-> After(mem, n), ino |-> fwd[n]]],
               fwd' = [fwd EXCEPT ![n] = 0], UNCHANGED <<rbk, left>>, TreeStep("promoted")
        PROVE  TreeInv'
    <3>1. UNCHANGED <<mem, edited>> /\ pc' = "promoted" BY <2>7 DEF TreeStep
    <3>2. fwd[n] = mem.prom[n] BY <1>2, <2>7, <2>a
    <3>3. n \in Published(mem)
      <4>1. mem.lstg[n] # 0 BY <2>0, <2>7 DEF StagingInv, Progress
      <4> QED BY <1>1, <1>2, <4>1 DEF Sound, Decodes
    <3>4. Operation(mem, n) # "none" BY <3>3 DEF Published
    <3>5. StandsAfter([val |-> After(mem, n), ino |-> fwd[n]], mem, n)
      BY <3>2, <3>4 DEF StandsAfter, Stands
    <3>6. Fits(mem)' BY <1>2, <1>5, <2>7, <3>1, <3>5
    <3>7. Working' BY <1>2, <3>1 DEF Working
    <3> QED BY <2>0, <2>7, <3>6, <3>7, TreeStepFits
  <2> QED BY <1>6, <2>1, <2>2, <2>3, <2>4, <2>5, <2>6, <2>7, PromoteDoes
<1>7. ASSUME PromoteDone PROVE TreeInv'
  <2> DEFINE n == First(left)
             k == [mem EXCEPT !.lstg[n] = 0]
  <2>0. pc = "promoted" /\ WriteJournal(k, "promote") /\ UNCHANGED tree BY <1>7 DEF PromoteDone
  <2>1. n \in Members BY <2>0, FirstIsMember DEF TypeInv, TypeOK, Held
  <2> HIDE DEF n
  <2>2. /\ SameDecision(mem, k) /\ k.ready = mem.ready /\ k.prom = mem.prom /\ k.rest = mem.rest
        /\ k.rstg = mem.rstg /\ k.rlnk = mem.rlnk
    BY <1>1, <2>1, ZeroIno DEF SameDecision, Journal
  <2> HIDE DEF k
  <2>3. k.phase = mem.phase /\ k.req = mem.req /\ k.before = mem.before /\ k.bino = mem.bino
    BY <2>2 DEF SameDecision
  <2>4. ~AtBefore(k) /\ ~AtAfter(k) BY <1>3, <2>2, <2>3 DEF AtBefore, AtAfter
  <2>5. Fits(k) BY <1>1, <1>2, <2>2, <2>3, <2>4, Refit
  <2>6. pc' = "promote" => Working'
    <3>1. Clear(fwd) BY <2>0 DEF StagingInv, Progress
    <3>2. mem' = k BY <2>0 DEF WriteJournal
    <3> QED BY <1>2, <2>0, <2>2, <3>1, <3>2 DEF Working
  <2> QED BY <2>0, <2>3, <2>5, <2>6, WriteFits
<1> QED BY <1>6, <1>7

LEMMA NextFits == TypeInv /\ StagingInv /\ DecodeInv /\ TreeInv /\ [Next]_vars => TreeInv'
<1> SUFFICES ASSUME TypeInv, StagingInv, DecodeInv, TreeInv, [Next]_vars PROVE TreeInv' OBVIOUS
<1>1. CASE UNCHANGED vars
  <2>1. UNCHANGED <<files, fwd, rbk, fence, jr, undo, receipts, pc, call, run, mem, left, edited>>
    BY <1>1 DEF vars
  <2>2. TreeFits' BY <2>1 DEF TreeInv, TreeFits, Fits
  <2>3. Working' BY <2>1 DEF TreeInv, Working
  <2>4. Backed' BY <2>1 DEF TreeInv, Backed
  <2>5. OnlyEditsConflict' BY <2>1 DEF TreeInv, OnlyEditsConflict
  <2> QED BY <2>2, <2>3, <2>4, <2>5 DEF TreeInv
<1>2. CASE Caller
  BY <1>2, RecoveryFits, CleanupFits, RestoreFits, TerminalFits,
     OperationFits, PrepareFits, StageFits, PromotionFits DEF Caller
<1>3. CASE Next /\ ~Caller BY <1>3, EnvironmentFits DEF Next
<1> QED BY <1>1, <1>2, <1>3

\* An operation ends in a RecoveryConflict only after an editor saved a
\* member of the open transaction: the checks of promotion, of recovery and
\* of rollback never refuse what the program, its crashes and its failed
\* writes left in the tree, in the journals and in the ledger.
THEOREM OnlyEditsMakeConflicts == Spec => []OnlyEditsConflict
<1>1. Init => TypeInv /\ StagingInv /\ DecodeInv /\ TreeInv
  BY InitTypes, InitStaging, InitDecodes, InitFits
<1>2. TypeInv /\ StagingInv /\ DecodeInv /\ TreeInv /\ [Next]_vars
        => (TypeInv /\ StagingInv /\ DecodeInv /\ TreeInv)'
  BY NextTypes, NextStaging, NextDecodes, NextFits
<1>3. TreeInv => OnlyEditsConflict BY DEF TreeInv
<1> QED BY <1>1, <1>2, <1>3, PTL DEF Spec

-----------------------------------------------------------------------------
(***************************************************************************)
(* The journaled transaction implements the atomic one (RefinesAtomic),    *)
(* and a foreign save survives it (EditsSurvive).                          *)
(*                                                                         *)
(* A look at a member compares its content and its inode with the          *)
(* journal's images.  So the two results are about saves that such a look  *)
(* can tell from the program's own work: a save of what the open           *)
(* transaction itself has for the member, under an inode that was freed    *)
(* and handed out again, passes for it, and so does any save between the   *)
(* last look at a member and the rename that puts it back.                 *)
(***************************************************************************)

\* Each save is of a content the open transaction has neither as before nor
\* as after image of the member, and not of the member whose restore was
\* checked last.
TellingSaves ==
    \A m \in Members : edits' # edits /\ files'[m] # files[m] =>
       /\ fence = "journal" => files'[m].val \notin {jr.before[m], After(jr, m)}
       /\ pc \in {"fence", "setup"} => files'[m].val \notin {mem.before[m], After(mem, m)}
       /\ ~(pc = "swap" /\ m = First(left))

Foreign(j) == \A m \in edited : files[m].val \notin {j.before[m], After(j, m)}

\* The decisions a journal may take in one write: none, or the abstract
\* commit, abort or rollback.
Advances(p, q) ==
    \/ (p \in AfterDecided <=> q \in AfterDecided) /\ Decided(p) = Decided(q)
    \/ Decided(p) = "open" /\ (Decided(q) = "aborted" \/ q \in AfterDecided)
    \/ p \in AfterDecided /\ q \in {"RollbackCleanup", "RolledBack"}

Decisions ==
    /\ fence = "journal" => /\ Foreign(jr) /\ jr.before # None
                            /\ Decided(jr.phase) = "open" => planned[jr.req] = jr.before
    /\ \A r \in Requests : undo[r] # NoJournal => undo[r].before # None

Deciding ==
    /\ pc # "idle" /\ call.op = "apply" => planned[call.req] # None
    /\ pc = "admit" => call.op = "apply"
    /\ pc \in {"fence", "setup"} => Foreign(mem) /\ mem.before # None /\ mem.before = planned[mem.req]
    /\ pc = "swap" => First(left) \notin edited
    /\ pc \in {"failed", "failjournal"} /\ fence = "journal" =>
          mem.before = jr.before /\ Advances(jr.phase, mem.phase)

RefInv == Decisions /\ Deciding

\* What is shown of each step.
Implements ==
    /\ RefInv'
    /\ [Atomic!ANext]_(Atomic!avars)
    /\ \A m \in edited : edits' = edits => files'[m] = files[m]

\* A step that takes no decision: tree, journals and plans stay, and the
\* ledger changes only where a journal speaks for the request.
LEMMA NoDecision ==
    ASSUME RefInv, UNCHANGED <<files, undo, edited, planned>>,
           fence = "journal" <=> fence' = "journal", fence = "journal" => UNCHANGED jr,
           \A r \in Requests : \/ receipts'[r] = receipts[r] \/ undo[r] # NoJournal
                               \/ fence = "journal" /\ jr.req = r
                               \/ /\ receipts[r] # NoReceipt /\ receipts'[r] # NoReceipt
                                  /\ receipts'[r].pers = receipts[r].pers,
           Deciding'
    PROVE  Implements
<1>1. Decisions' BY DEF RefInv, Decisions, Foreign
<1>2. PolicyView' = PolicyView BY DEF PolicyView, After
<1>3. OutcomeView' = OutcomeView
  <2> SUFFICES ASSUME NEW r \in Requests PROVE OutcomeView'[r] = OutcomeView[r] BY DEF OutcomeView
  <2> QED BY DEF OutcomeView
<1>4. SavedView' = SavedView BY DEF SavedView
<1> QED BY <1>1, <1>2, <1>3, <1>4 DEF Implements, RefInv, Atomic!avars

\* What the abstraction reads off the journal in the fence.
LEMMA ViewOfFence ==
    ASSUME fence = "journal", jr.req \in Requests
    PROVE  /\ PolicyView = [m \in Members |-> IF m \in edited THEN files[m].val
                                              ELSE IF jr.phase \in AfterDecided THEN Target[jr.req][m] ELSE jr.before[m]]
           /\ OutcomeView[jr.req] = Decided(jr.phase)
           /\ SavedView[jr.req] = IF jr.phase \in AfterDecided THEN jr.before ELSE None
BY DEF PolicyView, OutcomeView, SavedView, After

LEMMA PhaseViews ==
    ASSUME NEW p
    PROVE  /\ p \in AfterDecided => Decided(p) = "committed"
           /\ p \in {"RollbackCleanup", "RolledBack"} => Decided(p) = "committed" /\ p \notin AfterDecided
           /\ Decided(p) \in {"open", "aborted", "committed"}
           /\ Decided(p) # "committed" => p \notin AfterDecided
BY DEF AfterDecided, Decided

\* A step of the open transaction: files that nobody saved may change, the
\* journal may take a decision.
LEMMA DecisionStep ==
    ASSUME RefInv, fence = "journal", fence' = "journal", jr.req \in Requests, jr'.req = jr.req,
           jr'.before = jr.before, Advances(jr.phase, jr'.phase), UNCHANGED <<undo, receipts, edited, planned>>,
           \A m \in edited : files'[m] = files[m], Deciding'
    PROVE  Implements
<1> DEFINE r == jr.req
<1>1. Foreign(jr) /\ jr.before # None /\ (Decided(jr.phase) = "open" => planned[r] = jr.before)
  BY DEF RefInv, Decisions
<1>2. Decided(jr'.phase) = "open" => Decided(jr.phase) = "open"
  BY PhaseViews DEF Advances
<1>3. Foreign(jr)' BY <1>1 DEF Foreign, After
<1>4. Decisions' BY <1>1, <1>2, <1>3 DEF RefInv, Decisions
<1>5. /\ PolicyView = [m \in Members |-> IF m \in edited THEN files[m].val
                                         ELSE IF jr.phase \in AfterDecided THEN Target[r][m] ELSE jr.before[m]]
      /\ OutcomeView[r] = Decided(jr.phase)
      /\ SavedView[r] = IF jr.phase \in AfterDecided THEN jr.before ELSE None
  BY ViewOfFence
<1>6. /\ PolicyView' = [m \in Members |-> IF m \in edited THEN files[m].val
                          ELSE IF jr'.phase \in AfterDecided THEN Target[r][m] ELSE jr.before[m]]
      /\ OutcomeView'[r] = Decided(jr'.phase)
      /\ SavedView'[r] = IF jr'.phase \in AfterDecided THEN jr.before ELSE None
  BY DEF PolicyView, OutcomeView, SavedView, After, Decided
<1>7. \A s \in Requests \ {r} : OutcomeView'[s] = OutcomeView[s] /\ SavedView'[s] = SavedView[s]
  BY DEF OutcomeView, SavedView
<1>a. /\ OutcomeView = [s \in Requests |-> OutcomeView[s]] /\ SavedView = [s \in Requests |-> SavedView[s]]
      /\ OutcomeView' = [s \in Requests |-> OutcomeView'[s]] /\ SavedView' = [s \in Requests |-> SavedView'[s]]
  BY DEF OutcomeView, SavedView
<1>8. OutcomeView' = [OutcomeView EXCEPT ![r] = Decided(jr'.phase)]
  BY <1>6, <1>7, <1>a
<1>9. SavedView' = [SavedView EXCEPT ![r] = IF jr'.phase \in AfterDecided THEN jr.before ELSE None]
  BY <1>6, <1>7, <1>a
<1>10. [Atomic!ANext]_(Atomic!avars)
  <2>1. CASE (jr.phase \in AfterDecided <=> jr'.phase \in AfterDecided) /\ Decided(jr.phase) = Decided(jr'.phase)
    <3>1. PolicyView' = PolicyView BY <1>5, <1>6, <2>1
    <3>2. OutcomeView' = OutcomeView BY <1>5, <1>8, <2>1 DEF OutcomeView
    <3>3. SavedView' = SavedView BY <1>5, <1>9, <2>1 DEF SavedView
    <3> QED BY <3>1, <3>2, <3>3 DEF Atomic!avars
  <2>2. CASE Decided(jr.phase) = "open" /\ Decided(jr'.phase) = "aborted"
    <3>0. jr.phase \notin AfterDecided /\ jr'.phase \notin AfterDecided BY <2>2, PhaseViews
    <3>1. PolicyView' = PolicyView BY <1>5, <1>6, <3>0
    <3>2. SavedView' = SavedView BY <1>5, <1>9, <3>0 DEF SavedView
    <3>3. Atomic!Abort(r) BY <1>5, <1>8, <2>2, <3>1, <3>2 DEF Atomic!Abort
    <3> QED BY <3>3 DEF Atomic!ANext
  <2>3. CASE Decided(jr.phase) = "open" /\ jr'.phase \in AfterDecided
    <3>0. jr.phase \notin AfterDecided /\ Decided(jr'.phase) = "committed" BY <2>3, PhaseViews
    <3>1. /\ \A m \in Members \ edited : PolicyView[m] = planned[r][m]
          /\ PolicyView' = [m \in Members |-> IF m \in edited THEN PolicyView[m] ELSE Target[r][m]]
      BY <1>1, <1>5, <1>6, <2>3, <3>0
    <3>2. Atomic!Replace(planned[r], Target[r]) BY <3>1 DEF Atomic!Replace
    <3>3. OutcomeView[r] = "open" /\ OutcomeView' = [OutcomeView EXCEPT ![r] = "committed"]
      BY <1>5, <1>8, <2>3, <3>0
    <3>4. SavedView' = [SavedView EXCEPT ![r] = planned[r]] BY <1>1, <1>9, <2>3
    <3>5. Atomic!Commit(r) BY <1>1, <2>3, <3>2, <3>3, <3>4 DEF Atomic!Commit
    <3> QED BY <3>5 DEF Atomic!ANext
  <2>4. CASE jr.phase \in AfterDecided /\ jr'.phase \in {"RollbackCleanup", "RolledBack"}
    <3>0. /\ jr'.phase \notin AfterDecided /\ Decided(jr.phase) = "committed"
          /\ Decided(jr'.phase) = "committed"
      BY <2>4, PhaseViews
    <3>1. SavedView[r] = jr.before BY <1>5, <2>4
    <3>2. /\ \A m \in Members \ edited : PolicyView[m] = Target[r][m]
          /\ PolicyView' = [m \in Members |-> IF m \in edited THEN PolicyView[m] ELSE SavedView[r][m]]
      BY <1>5, <1>6, <2>4, <3>0, <3>1
    <3>3. Atomic!Replace(Target[r], SavedView[r]) BY <3>2 DEF Atomic!Replace
    <3>4. OutcomeView[r] = "committed" /\ OutcomeView' = OutcomeView BY <1>5, <1>8, <3>0 DEF OutcomeView
    <3>5. SavedView' = [SavedView EXCEPT ![r] = None] BY <1>9, <3>0
    <3>6. Atomic!Rollback(r) BY <1>1, <3>1, <3>3, <3>4, <3>5 DEF Atomic!Rollback
    <3> QED BY <3>6 DEF Atomic!ANext
  <2> QED BY <2>1, <2>2, <2>3, <2>4 DEF Advances
<1> QED BY <1>4, <1>10 DEF Implements, RefInv

LEMMA PlainlyDeciding ==
    ASSUME Deciding, UNCHANGED planned, call' \in {call, NoCall}, pc = "idle" => pc' = "idle",
           pc' \notin {"fence", "setup", "swap", "failed", "failjournal"},
           pc' = "admit" => call' = call /\ call.op = "apply"
    PROVE  Deciding'
BY DEF Deciding, NoCall

LEMMA StayAdvances == \A p : Advances(p, p)
BY DEF Advances

\* The three building blocks of the caller's steps, at a step that works on
\* the journal on disk.
LEMMA WriteImplements ==
    ASSUME TypeInv, StagingInv, RefInv, NEW k, NEW n \in PlainSteps, WriteJournal(k, n), pc \in SyncedSteps,
           UNCHANGED files, k.req = mem.req, k.before = mem.before, Advances(mem.phase, k.phase),
           n = "swap" => First(left') \notin edited
    PROVE  Implements
<1>1. fence = "journal" /\ jr = mem /\ mem \in Journal BY DEF StagingInv, Synced, TypeInv, Held
<1>2. /\ mem' = k /\ UNCHANGED <<fence, undo, receipts, call, planned, edited>>
      /\ \/ jr' = k /\ pc' = n
         \/ jr' = jr /\ pc' = "failed"
  BY DEF WriteJournal
<1>3. CASE jr' = k /\ pc' = n
  <2>1. Deciding' BY <1>2, <1>3 DEF RefInv, Deciding
  <2>2. jr.req \in Requests BY <1>1 DEF Journal
  <2> QED BY <1>1, <1>2, <1>3, <2>1, <2>2, DecisionStep
<1>4. CASE jr' = jr /\ pc' = "failed"
  <2>1. Deciding' BY <1>1, <1>2, <1>4 DEF RefInv, Deciding
  <2> QED BY <1>1, <1>2, <1>4, <2>1, NoDecision
<1> QED BY <1>2, <1>3, <1>4

LEMMA TreeImplements ==
    ASSUME TypeInv, StagingInv, RefInv, NEW n \in PlainSteps \ {"swap"}, TreeStep(n), pc \in SyncedSteps,
           \A m \in edited : files'[m] = files[m]
    PROVE  Implements
<1>1. fence = "journal" /\ jr.req \in Requests BY DEF StagingInv, Synced, TypeInv, Held, Journal
<1>2. pc' = n /\ UNCHANGED <<fence, jr, undo, receipts, call, planned, edited>> BY DEF TreeStep
<1>3. Deciding' BY <1>2, PlainlyDeciding DEF RefInv
<1> QED BY <1>1, <1>2, <1>3, StayAdvances, DecisionStep

LEMMA RefuseImplements ==
    ASSUME StagingInv, DecodeInv, RefInv, Refuse, pc \in SyncedSteps \cup {"recover", "op"}
    PROVE  Implements
<1>1. /\ UNCHANGED <<files, fence, jr, undo, receipts, call, mem, planned, edited>>
      /\ pc' = IF run = "commit" THEN "failed" ELSE "refused"
  BY DEF Refuse
<1>2. run = "commit" => fence = "journal" /\ jr = mem
  BY DEF StagingInv, Synced, DecodeInv, InRun, Runs
<1>3. Deciding' BY <1>1, <1>2, StayAdvances DEF RefInv, Deciding
<1> QED BY <1>1, <1>3, NoDecision

\* A step that changes the caller alone, and possibly the ledger.
LEMMA QuietImplements ==
    ASSUME RefInv, UNCHANGED <<files, fence, jr, undo, edited, planned>>,
           \A r \in Requests : \/ receipts'[r] = receipts[r] \/ undo[r] # NoJournal
                               \/ fence = "journal" /\ jr.req = r
                               \/ /\ receipts[r] # NoReceipt /\ receipts'[r] # NoReceipt
                                  /\ receipts'[r].pers = receipts[r].pers,
           call' \in {call, NoCall}, pc = "idle" => pc' = "idle",
           pc' \notin {"fence", "setup", "swap", "failed", "failjournal"},
           pc' = "admit" => call' = call /\ call.op = "apply"
    PROVE  Implements
BY PlainlyDeciding, NoDecision DEF RefInv

LEMMA ReturnImplements == ASSUME RefInv, Return PROVE Implements
BY QuietImplements DEF Return, Release

LEMMA GotoImplements ==
    ASSUME RefInv, NEW n \in Steps \ {"fence", "setup", "swap", "failed", "failjournal"}, Goto(n), pc # "idle",
           n = "admit" => call.op = "apply"
    PROVE  Implements
BY QuietImplements DEF Goto

LEMMA EnvironmentImplements ==
    ASSUME TypeInv, StagingInv, DecodeInv, TreeInv, RefInv, TellingSaves,
           \/ \E r \in Requests : Plan(r) \/ Age(r)
           \/ \E op \in Ops, r \in Requests : Begin(op, r)
           \/ \E m \in Members : Edit(m)
           \/ Crash \/ IoError \/ FailSkipCleanup
    PROVE  Implements
<1>1. ASSUME NEW r \in Requests, Plan(r) PROVE Implements
  <2>1. /\ UNCHANGED <<files, fence, jr, undo, receipts, pc, call, edited>> /\ pc = "idle" /\ fence = "none"
        /\ planned' = [planned EXCEPT ![r] = Vals]
    BY <1>1 DEF Plan
  <2>2. RefInv' BY <2>1 DEF RefInv, Decisions, Deciding
  <2>3. PolicyView = Vals BY <2>1 DEF PolicyView, Vals
  <2>4. PolicyView' = PolicyView /\ OutcomeView' = OutcomeView /\ SavedView' = SavedView
    BY <2>1 DEF PolicyView, OutcomeView, SavedView
  <2>5. Atomic!APlan(r) BY <2>1, <2>3, <2>4 DEF Atomic!APlan
  <2> QED BY <2>1, <2>2, <2>5 DEF Implements, Atomic!ANext
<1>2. ASSUME NEW r \in Requests, Age(r) PROVE Implements
  <2>1. /\ UNCHANGED <<files, fence, jr, undo, pc, call, edited, planned>> /\ pc = "idle"
        /\ receipts' = [receipts EXCEPT ![r].old = TRUE] /\ Terminal(receipts[r])
    BY <1>2 DEF Age
  <2>2. receipts[r] # NoReceipt /\ receipts[r] \in Receipt /\ receipts \in [Requests -> Receipt \cup {NoReceipt}]
    BY <2>1 DEF Terminal, TypeInv, TypeOK
  <2>3. receipts'[r].pers = receipts[r].pers /\ receipts'[r].pers \in Persistence BY <2>1, <2>2 DEF Receipt
  <2>4. receipts'[r] # NoReceipt BY <2>1, <2>2 DEF Receipt, NoReceipt
  <2>5. \A s \in Requests \ {r} : receipts'[s] = receipts[s] BY <2>1, <2>2
  <2> QED BY <2>1, <2>2, <2>3, <2>4, <2>5, QuietImplements
<1>3. ASSUME NEW op \in Ops, NEW r \in Requests, Begin(op, r) PROVE Implements
  <2>1. /\ UNCHANGED <<files, fence, jr, undo, receipts, edited, planned>> /\ pc' = "recover"
        /\ call'.op = op /\ call'.req = r /\ (op = "apply" => planned[r] # None)
    BY <1>3 DEF Begin
  <2>2. Deciding' BY <2>1 DEF Deciding
  <2> QED BY <2>1, <2>2, NoDecision
<1>4. ASSUME NEW n \in Members, Edit(n) PROVE Implements
  <2>1. /\ UNCHANGED <<fwd, rbk, fence, jr, undo, receipts, pc, call, run, mem, left, planned>>
        /\ edited' = edited \cup {n} /\ edits' # edits
    BY <1>4 DEF Edit, TypeInv, TypeOK
  <2>2. PICK i \in Inodes : Allocates(i) /\ files' = [files EXCEPT ![n] = [val |-> EditValue, ino |-> i]]
    BY <1>4 DEF Edit
  <2>3. files'[n].val = EditValue /\ \A m \in Members \ {n} : files'[m] = files[m]
    BY <2>2 DEF TypeInv, TypeOK
  <2>4. files'[n] # files[n]
    <3>1. files'[n].ino = i BY <2>2 DEF TypeInv, TypeOK
    <3>2. i # files[n].ino BY <2>2 DEF Allocates, Linked
    <3> QED BY <3>1, <3>2
  <2>5. /\ fence = "journal" => files'[n].val \notin {jr.before[n], After(jr, n)}
        /\ pc \in {"fence", "setup"} => files'[n].val \notin {mem.before[n], After(mem, n)}
        /\ ~(pc = "swap" /\ n = First(left))
    BY <2>1, <2>4 DEF TellingSaves
  <2>6. edited \subseteq Members BY DEF TypeInv, TypeOK
  <2>7. fence = "journal" => Foreign(jr)'
    BY <2>1, <2>3, <2>5, <2>6 DEF RefInv, Decisions, Foreign, After
  <2>8. pc \in {"fence", "setup"} => Foreign(mem)'
    BY <2>1, <2>3, <2>5, <2>6 DEF RefInv, Deciding, Foreign, After
  <2>9. RefInv' BY <2>1, <2>5, <2>7, <2>8 DEF RefInv, Decisions, Deciding
  <2>10. PolicyView' = [PolicyView EXCEPT ![n] = EditValue]
    <3>1. \A m \in Members : PolicyView'[m] = IF m = n THEN EditValue ELSE PolicyView[m]
      BY <2>1, <2>3 DEF PolicyView, After
    <3>2. PolicyView = [m \in Members |-> PolicyView[m]] /\ PolicyView' = [m \in Members |-> PolicyView'[m]]
      BY DEF PolicyView
    <3> QED BY <3>1, <3>2
  <2>11. OutcomeView' = OutcomeView /\ SavedView' = SavedView BY <2>1 DEF OutcomeView, SavedView
  <2>12. Atomic!Save(n) BY <2>1, <2>10, <2>11 DEF Atomic!Save
  <2> QED BY <2>1, <2>9, <2>12 DEF Implements, Atomic!ANext
<1>5. ASSUME Crash PROVE Implements
  <2>1. UNCHANGED <<files, fence, jr, undo, receipts, edited, planned>> /\ Release BY <1>5 DEF Crash
  <2> QED BY <2>1, QuietImplements DEF Release
<1>6. ASSUME IoError \/ FailSkipCleanup PROVE Implements
  <2>1. /\ UNCHANGED <<files, fence, jr, undo, receipts, mem, edited, planned, call>>
        /\ \/ pc \in {"stage", "promote", "promoted", "cleanup", "goal", "terminal", "receipt"} /\ pc' = "failed"
           \/ pc = "failed" /\ pc' = "failjournal"
    BY <1>6 DEF IoError, FailSkipCleanup
  <2>2. /\ pc # "failed" /\ pc # "receipt" => fence = "journal" /\ jr = mem
        /\ pc = "receipt" => fence = "none"
    BY <2>1 DEF StagingInv, Synced
  <2>3. Deciding' BY <2>1, <2>2, StayAdvances DEF RefInv, Deciding
  <2> QED BY <2>1, <2>3, NoDecision
<1> QED BY <1>1, <1>2, <1>3, <1>4, <1>5, <1>6

\* Before the first promotion and after the decision was carried out, the
\* tree is what the journal stands for.
LEMMA PolicyIsTree ==
    ASSUME NEW j, Fits(j),
           (AtBefore(j) /\ j.phase \notin AfterDecided) \/ (AtAfter(j) /\ j.phase \in AfterDecided)
    PROVE  \A m \in Members \ edited :
              files[m].val = IF j.phase \in AfterDecided THEN After(j, m) ELSE j.before[m]
BY DEF Fits, MemberFits, StandsBefore, StandsAfter, Stands

LEMMA RecoveryImplements ==
    ASSUME TypeInv, StagingInv, DecodeInv, TreeInv, RefInv,
           \/ RecoverStage \/ Reconcile \/ RecoverBare \/ RemoveSetup
           \/ RecoverJournal \/ CleanStaging
    PROVE  Implements
<1>1. ASSUME RecoverStage \/ RemoveSetup PROVE Implements
  <2>1. /\ fence # "journal" /\ fence' # "journal" /\ pc \in {"recover", "unstage"} /\ pc' \in {"op", "unstage"}
        /\ UNCHANGED <<files, undo, receipts, call, edited, planned>>
    BY <1>1 DEF RecoverStage, RemoveSetup, StagingInv, Synced
  <2>2. Deciding' BY <2>1, PlainlyDeciding DEF RefInv
  <2> QED BY <2>1, <2>2, NoDecision
<1>2. ASSUME Reconcile PROVE Implements
  <2>0. pc = "recover" BY <1>2 DEF Reconcile
  <2>1. CASE Goto("op") BY <2>0, <2>1, GotoImplements
  <2>2. CASE Refuse BY <2>0, <2>2, RefuseImplements
  <2>3. ASSUME NEW r \in Requests, undo[r] # NoJournal,
               receipts' = [receipts EXCEPT ![r] = TerminalReceipt(undo[r], @)],
               UNCHANGED <<tree, fence, jr, undo, pc, call, run, mem, left, env, faults>>
        PROVE  Implements
    <3>1. \A s \in Requests \ {r} : receipts'[s] = receipts[s] BY <2>3 DEF TypeInv, TypeOK
    <3> QED BY <2>0, <2>3, <3>1, QuietImplements
  <2>4. \/ Goto("op") \/ Refuse
        \/ \E r \in Requests :
             /\ undo[r] # NoJournal /\ receipts' = [receipts EXCEPT ![r] = TerminalReceipt(undo[r], @)]
             /\ UNCHANGED <<tree, fence, jr, undo, pc, call, run, mem, left, env, faults>>
    BY <1>2 DEF Reconcile
  <2> QED BY <2>1, <2>2, <2>3, <2>4
<1>3. ASSUME RecoverBare PROVE Implements BY <1>3, GotoImplements DEF RecoverBare
<1>4. ASSUME RecoverJournal PROVE Implements
  <2> DEFINE r == jr.req
  <2>0. pc = "recover" /\ fence = "journal" /\ r \in Requests BY <1>4 DEF RecoverJournal, TypeInv, Held, Journal
  <2>1. CASE Refuse BY <2>0, <2>1, RefuseImplements
  <2>2. CASE pc' = "staging" /\ UNCHANGED <<tree, fence, jr, undo, receipts, call, env>>
    BY <2>0, <2>2, QuietImplements
  <2>3. CASE /\ AgreesWithReceipt(jr, receipts[r]) /\ receipts[r] = NoReceipt
             /\ fence' = "bare" /\ jr' = NoJournal /\ pc' = "unstage"
             /\ UNCHANGED <<tree, undo, receipts, call, env>>
    <3>1. jr.phase \in {"Setup", "Prepared"} /\ ~jr.ready BY <2>3 DEF AgreesWithReceipt
    <3>2. AtBefore(jr) /\ jr.phase \notin AfterDecided /\ Decided(jr.phase) = "open"
      BY <3>1 DEF AtBefore, AfterDecided, Decided
    <3>3. undo[r] = NoJournal /\ Fits(jr) BY <2>0 DEF TreeInv, TreeFits, Backed
    <3>4. \A m \in Members \ edited : files[m].val = jr.before[m] BY <3>2, <3>3, PolicyIsTree
    <3>5. PolicyView' = PolicyView BY <2>0, <2>3, <3>2, <3>4 DEF PolicyView
    <3>6. OutcomeView' = OutcomeView
      <4>1. \A s \in Requests : OutcomeView'[s] = OutcomeView[s]
        BY <2>0, <2>3, <3>2, <3>3 DEF OutcomeView
      <4> QED BY <4>1 DEF OutcomeView
    <3>7. SavedView' = SavedView
      <4>1. \A s \in Requests : SavedView'[s] = SavedView[s]
        BY <2>0, <2>3, <3>2, <3>3 DEF SavedView
      <4> QED BY <4>1 DEF SavedView
    <3>8. Decisions' BY <2>3 DEF RefInv, Decisions
    <3>9. Deciding' BY <2>0, <2>3, PlainlyDeciding DEF RefInv
    <3> QED BY <2>3, <3>5, <3>6, <3>7, <3>8, <3>9 DEF Implements, RefInv, Atomic!avars
  <2> QED BY <1>4, <2>1, <2>2, <2>3 DEF RecoverJournal
<1>5. ASSUME CleanStaging PROVE Implements
  <2>0. mem \in Journal /\ pc \in {"staging", "failed"} BY <1>5, CleanStagingDoes
  <2>1. CASE Goto(IF pc = "staging" THEN "phase" ELSE "failjournal")
    <3>1. UNCHANGED <<files, fence, jr, undo, receipts, call, mem, edited, planned>> BY <2>1 DEF Goto
    <3>2. pc' = IF pc = "staging" THEN "phase" ELSE "failjournal" BY <2>1 DEF Goto
    <3>3. Deciding' BY <2>0, <3>1, <3>2 DEF RefInv, Deciding
    <3> QED BY <3>1, <3>3, NoDecision
  <2>2. ASSUME UNCHANGED <<files, rbk, left>>, TreeStep(pc) PROVE Implements
    <3>1. UNCHANGED <<files, fence, jr, undo, receipts, pc, call, mem, edited, planned>> BY <2>2 DEF TreeStep
    <3>2. Deciding' BY <2>0, <3>1 DEF RefInv, Deciding
    <3> QED BY <3>1, <3>2, NoDecision
  <2>3. ASSUME NEW n \in Members, Writes([mem EXCEPT !.lstg[n] = 0], pc) PROVE Implements
    <3> DEFINE k == [mem EXCEPT !.lstg[n] = 0]
    <3>1. k.req = mem.req /\ k.before = mem.before /\ k.phase = mem.phase BY <2>0 DEF Journal
    <3>2. WriteJournal(k, pc) /\ UNCHANGED <<files, left>> BY <2>3 DEF Writes
    <3> HIDE DEF k
    <3>3. CASE pc = "staging" BY <3>1, <3>2, <3>3, StayAdvances, WriteImplements
    <3>4. CASE pc = "failed"
      <4>1. /\ mem' = k /\ UNCHANGED <<fence, undo, receipts, call, edited, planned>>
            /\ \/ jr' = k /\ pc' = "failed"
               \/ jr' = jr /\ pc' = "failjournal"
        BY <3>2, <3>4 DEF WriteJournal
      <4>2. Deciding'
        BY <3>1, <3>4, <4>1, StayAdvances DEF RefInv, Deciding
      <4>3. CASE fence # "journal" \/ jr' = jr BY <3>2, <4>1, <4>2, <4>3, NoDecision
      <4>4. CASE fence = "journal" /\ jr' = k
        <5>1. /\ jr.req = mem.req /\ jr.before = mem.before /\ Advances(jr.phase, mem.phase)
              /\ jr.req \in Requests
          BY <2>0, <3>4, <4>4 DEF TreeInv, Backed, RefInv, Deciding, Journal
        <5> QED BY <3>1, <3>2, <4>1, <4>2, <4>4, <5>1, DecisionStep
      <4> QED BY <4>1, <4>3, <4>4
    <3> QED BY <2>0, <3>3, <3>4
  <2> QED BY <1>5, <2>1, <2>2, <2>3, CleanStagingDoes
<1> QED BY <1>1, <1>2, <1>3, <1>4, <1>5

\* Where the steps on a synced journal write, they keep the plan.
LEMMA CleanupImplements ==
    ASSUME TypeInv, StagingInv, DecodeInv, TreeInv, RefInv, ResolvePhase \/ CleanRollback \/ WriteGoal
    PROVE  Implements
<1>0. pc \in {"phase", "cleanup", "goal"} BY DEF ResolvePhase, CleanRollback, WriteGoal
<1>1. mem \in Journal BY <1>0, AtWork
<1>2. ASSUME NEW k, NEW n \in {"cleanup", "goal", "terminal"}, Writes(k, n), k.req = mem.req, k.before = mem.before,
             Advances(mem.phase, k.phase)
      PROVE  Implements
  BY <1>0, <1>2, WriteImplements DEF Writes
<1>3. CASE Refuse BY <1>0, <1>3, RefuseImplements
<1>4. ASSUME ResolvePhase PROVE Implements
  <2>1. ASSUME NEW n \in {"cleanup", "terminal"}, Goto(n) PROVE Implements BY <1>0, <2>1, GotoImplements
  <2>2. CASE pc' = "restore" /\ UNCHANGED <<tree, fence, jr, undo, receipts, call, env>>
    BY <1>0, <2>2, QuietImplements
  <2>3. CASE Writes([mem EXCEPT !.pers = "Committed"], "terminal")
    <3> DEFINE k == [mem EXCEPT !.pers = "Committed"]
    <3>1. k.req = mem.req /\ k.before = mem.before /\ k.phase = mem.phase BY <1>1 DEF Journal
    <3>2. Writes(k, "terminal") BY <2>3
    <3> HIDE DEF k
    <3> QED BY <1>2, <3>1, <3>2, StayAdvances
  <2> QED BY <1>3, <1>4, <2>1, <2>2, <2>3 DEF ResolvePhase, Writes
<1>5. ASSUME CleanRollback PROVE Implements
  <2>0. pc = "cleanup" BY <1>5 DEF CleanRollback
  <2>1. CASE Writes([mem EXCEPT !.ready = FALSE], "goal")
    <3> DEFINE k == [mem EXCEPT !.ready = FALSE]
    <3>1. k.req = mem.req /\ k.before = mem.before /\ k.phase = mem.phase BY <1>1 DEF Journal
    <3>2. Writes(k, "goal") BY <2>1
    <3> HIDE DEF k
    <3> QED BY <1>2, <3>1, <3>2, StayAdvances
  <2>2. ASSUME NEW n \in Members, Writes([mem EXCEPT !.rlnk[n] = FALSE], pc) PROVE Implements
    <3> DEFINE k == [mem EXCEPT !.rlnk[n] = FALSE]
    <3>1. k.req = mem.req /\ k.before = mem.before /\ k.phase = mem.phase BY <1>1 DEF Journal
    <3>2. Writes(k, "cleanup") BY <2>0, <2>2
    <3> HIDE DEF k
    <3> QED BY <1>2, <3>1, <3>2, StayAdvances
  <2>3. CASE UNCHANGED <<files, left>> /\ TreeStep(pc) BY <2>0, <2>3, TreeImplements
  <2>4. ASSUME NEW n \in Members, Writes([mem EXCEPT !.rstg[n] = 0, !.rlnk[n] = FALSE], pc) PROVE Implements
    <3> DEFINE k == [mem EXCEPT !.rstg[n] = 0, !.rlnk[n] = FALSE]
    <3>1. k.req = mem.req /\ k.before = mem.before /\ k.phase = mem.phase BY <1>1 DEF Journal
    <3>2. Writes(k, "cleanup") BY <2>0, <2>4
    <3> HIDE DEF k
    <3> QED BY <1>2, <3>1, <3>2, StayAdvances
  <2> QED BY <1>3, <1>5, <2>1, <2>2, <2>3, <2>4, CleanRollbackDoes
<1>6. ASSUME WriteGoal PROVE Implements
  <2> DEFINE k == [mem EXCEPT !.phase = Goal(mem),
                              !.pers = IF Goal(mem) = "Aborted" THEN "Aborted" ELSE "Committed",
                              !.restored = (Goal(mem) = "RolledBack")]
  <2>1. k.req = mem.req /\ k.before = mem.before /\ k.phase = Goal(mem) BY <1>1 DEF Journal
  <2>2. Writes(k, "terminal") /\ pc = "goal" BY <1>6 DEF WriteGoal, Writes
  <2> HIDE DEF k
  <2>3. mem.phase \in {"Prepared", "AbortCleanup", "Committing", "RollingBack", "RollbackCleanup"}
    BY <2>2 DEF DecodeInv, InRun, Phased
  <2>4. Advances(mem.phase, k.phase) BY <2>1, <2>3 DEF Advances, Goal, Decided, AfterDecided
  <2> QED BY <1>2, <2>1, <2>2, <2>4
<1> QED BY <1>4, <1>5, <1>6

\* A member that stands at an image of the journal was not saved.
LEMMA LookTells ==
    ASSUME StagingInv, RefInv, pc \in SyncedSteps, NEW n, IsBefore(mem, n) \/ IsAfter(mem, n)
    PROVE  n \notin edited
BY DEF StagingInv, Synced, RefInv, Decisions, Foreign, IsBefore, IsAfter, Matches

LEMMA RestoreImplements ==
    ASSUME TypeInv, StagingInv, DecodeInv, TreeInv, RefInv, Restore \/ RestoreSwap \/ RestoreDone
    PROVE  Implements
<1>0. pc \in Restoring BY DEF Restore, RestoreSwap, RestoreDone
<1>1. mem \in Journal /\ mem.phase \in {"Prepared", "RollingBack"} /\ left \subseteq Members
  BY <1>0, AtWork DEF DecodeInv, InRun, Phased, TypeInv, TypeOK
<1>2. edited \subseteq Members BY DEF TypeInv, TypeOK
<1>3. ASSUME NEW n \in Members \ edited, NEW f, files' = [files EXCEPT ![n] = f]
      PROVE  \A m \in edited : files'[m] = files[m]
  BY <1>2, <1>3 DEF TypeInv, TypeOK
<1>4. ASSUME Restore PROVE Implements
  <2>0. pc = "restore" BY <1>4 DEF Restore
  <2>1. CASE Refuse BY <2>0, <2>1, RefuseImplements
  <2>2. CASE Writes([mem EXCEPT
                       !.phase = IF mem.phase = "RollingBack" THEN "RollbackCleanup" ELSE "AbortCleanup",
                       !.pers = IF mem.phase = "RollingBack" THEN "Committed" ELSE "Aborted",
                       !.restored = (mem.phase = "RollingBack"),
                       !.ready = FALSE], "cleanup")
    <3> DEFINE explicit == mem.phase = "RollingBack"
               k == [mem EXCEPT !.phase = IF explicit THEN "RollbackCleanup" ELSE "AbortCleanup",
                                !.pers = IF explicit THEN "Committed" ELSE "Aborted",
                                !.restored = explicit, !.ready = FALSE]
    <3>1. WriteJournal(k, "cleanup") /\ UNCHANGED files BY <2>2 DEF Writes
    <3>2. /\ k.req = mem.req /\ k.before = mem.before
          /\ k.phase = IF explicit THEN "RollbackCleanup" ELSE "AbortCleanup"
      BY <1>1 DEF Journal
    <3> HIDE DEF k
    <3>3. Advances(mem.phase, k.phase) BY <1>1, <3>2 DEF Advances, Decided, AfterDecided
    <3> QED BY <2>0, <3>1, <3>2, <3>3, WriteImplements
  <2>3. ASSUME NEW n \in left, IsAfter(mem, n), files' = [files EXCEPT ![n] = [val |-> None, ino |-> 0]],
               TreeStep(pc)
        PROVE  Implements
    <3>1. n \notin edited BY <2>0, <2>3, LookTells
    <3>2. \A m \in edited : files'[m] = files[m] BY <1>1, <1>3, <2>3, <3>1
    <3> QED BY <2>0, <2>3, <3>2, TreeImplements
  <2>4. ASSUME NEW n \in left, n = First(left), IsAfter(mem, n), Writes([mem EXCEPT !.rest[n] = rbk[n]], "swap")
        PROVE  Implements
    <3> DEFINE k == [mem EXCEPT !.rest[n] = rbk[n]]
    <3>1. k.req = mem.req /\ k.before = mem.before /\ k.phase = mem.phase BY <1>1 DEF Journal
    <3>2. WriteJournal(k, "swap") /\ UNCHANGED <<files, left>> BY <2>4 DEF Writes
    <3> HIDE DEF k
    <3>3. n \notin edited BY <2>0, <2>4, LookTells
    <3>4. First(left') = n BY <2>4, <3>2
    <3> QED BY <2>0, <3>1, <3>2, <3>3, <3>4, StayAdvances, WriteImplements
  <2> QED BY <1>4, <2>1, <2>2, <2>3, <2>4, RestoreDoes
<1>5. ASSUME RestoreSwap PROVE Implements
  <2> DEFINE n == First(left)
  <2>1. /\ pc = "swap" /\ TreeStep("restored")
        /\ files' = [files EXCEPT ![n] = [val |-> mem.before[n], ino |-> rbk[n]]]
    BY <1>5 DEF RestoreSwap
  <2>2. n \in Members /\ n \notin edited
    BY <1>1, <2>1, FirstIsMember DEF TypeInv, Held, RefInv, Deciding
  <2> HIDE DEF n
  <2>3. \A m \in edited : files'[m] = files[m] BY <1>3, <2>1, <2>2
  <2> QED BY <2>1, <2>3, TreeImplements
<1>6. ASSUME RestoreDone PROVE Implements
  <2> DEFINE n == First(left)
             k == [mem EXCEPT !.rstg[n] = 0, !.rlnk[n] = FALSE]
  <2>1. pc = "restored" /\ WriteJournal(k, "restore") /\ UNCHANGED files BY <1>6 DEF RestoreDone
  <2>2. k.req = mem.req /\ k.before = mem.before /\ k.phase = mem.phase BY <1>1 DEF Journal
  <2> HIDE DEF k
  <2> QED BY <2>1, <2>2, StayAdvances, WriteImplements
<1> QED BY <1>4, <1>5, <1>6

\* A ledger write for a request that a journal speaks for.
LEMMA TerminalImplements ==
    ASSUME TypeInv, StagingInv, DecodeInv, TreeInv, RefInv,
           Terminalize \/ WriteReceipt \/ FailJournal \/ FailReceipt
    PROVE  Implements
<1>1. ASSUME Terminalize PROVE Implements
  <2> DEFINE r == mem.req
  <2>0. pc = "terminal" BY <1>1 DEF Terminalize
  <2>1. mem \in Journal /\ fence = "journal" /\ jr = mem /\ Fits(mem) /\ r \in Requests
    BY <2>0, AtWorkFits, AtWork DEF Journal
  <2>2. undo[r] = NoJournal BY <2>1 DEF TreeInv, Backed
  <2>3. /\ undo' = [undo EXCEPT ![r] = mem] /\ fence' = "none" /\ pc' = "receipt"
        /\ UNCHANGED <<files, receipts, call, mem, edited, planned>>
    BY <1>1, <2>1, <2>2 DEF Terminalize
  <2>4. \A s \in Requests : undo'[s] = IF s = r THEN mem ELSE undo[s]
    BY <2>1, <2>3 DEF TypeInv, TypeOK
  <2>5. mem # NoJournal BY <2>1, JournalIsThere
  <2>6. mem.phase \in TerminalPhases BY <2>0 DEF DecodeInv, InRun, Phased
  <2>7. (AtBefore(mem) /\ mem.phase \notin AfterDecided) \/ (AtAfter(mem) /\ mem.phase = "Committed")
    BY <2>6 DEF TerminalPhases, AtBefore, AtAfter, AfterDecided
  <2>a. mem.phase \in AfterDecided <=> mem.phase = "Committed"
    BY <2>6 DEF TerminalPhases, AfterDecided
  <2>8. PolicyView' = PolicyView
    <3>1. \A m \in Members \ edited :
              files[m].val = IF mem.phase \in AfterDecided THEN After(mem, m) ELSE mem.before[m]
      BY <2>1, <2>7, <2>a, PolicyIsTree
    <3> QED BY <2>1, <2>3, <3>1 DEF PolicyView
  <2>9. OutcomeView' = OutcomeView
    <3>1. \A s \in Requests : OutcomeView'[s] = OutcomeView[s]
      BY <2>1, <2>3, <2>4, <2>5 DEF OutcomeView
    <3> QED BY <3>1 DEF OutcomeView
  <2>10. SavedView' = SavedView
    <3>1. \A s \in Requests : SavedView'[s] = SavedView[s]
      BY <2>1, <2>3, <2>4, <2>5, <2>a DEF SavedView
    <3> QED BY <3>1 DEF SavedView
  <2>11. Decisions' BY <2>1, <2>3, <2>4 DEF RefInv, Decisions
  <2>12. Deciding' BY <2>0, <2>3, PlainlyDeciding DEF RefInv
  <2> QED BY <2>3, <2>8, <2>9, <2>10, <2>11, <2>12 DEF Implements, RefInv, Atomic!avars
<1>2. ASSUME WriteReceipt PROVE Implements
  <2>0. pc = "receipt" BY <1>2 DEF WriteReceipt
  <2>1. mem \in Journal /\ undo[mem.req] = mem BY <2>0 DEF TypeInv, Held, DecodeInv, InRun, Phased
  <2>2. undo[mem.req] # NoJournal BY <2>1, JournalIsThere
  <2>3. /\ receipts' = [receipts EXCEPT ![mem.req] = TerminalReceipt(mem, receipts[mem.req])]
        /\ UNCHANGED <<files, fence, jr, undo, edited, planned>>
        /\ pc' \in {"idle", "op"} /\ call' \in {call, NoCall}
    BY <1>2 DEF WriteReceipt, Release
  <2>4. \A s \in Requests \ {mem.req} : receipts'[s] = receipts[s] BY <2>3 DEF TypeInv, TypeOK
  <2> QED BY <2>0, <2>2, <2>3, <2>4, QuietImplements
<1>3. ASSUME FailJournal PROVE Implements
  <2>0. /\ pc = "failjournal" /\ mem' = Uncertain(mem) /\ pc' = "failreceipt"
        /\ UNCHANGED <<files, fence, undo, receipts, call, edited, planned>>
        /\ jr' = jr \/ (jr' = Uncertain(mem) /\ fence = "journal")
    BY <1>3 DEF FailJournal
  <2>1. mem \in Journal BY <2>0 DEF TypeInv, Held
  <2>2. Deciding' BY <2>0, PlainlyDeciding DEF RefInv
  <2>3. CASE jr' = jr BY <2>0, <2>2, <2>3, NoDecision
  <2>4. CASE jr' = Uncertain(mem) /\ fence = "journal"
    <3>1. jr'.req = mem.req /\ jr'.before = mem.before /\ jr'.phase = mem.phase
      BY <2>1, <2>4 DEF Uncertain, Journal
    <3>2. /\ jr.req = mem.req /\ jr.before = mem.before /\ Advances(jr.phase, mem.phase)
          /\ jr.req \in Requests
      BY <2>0, <2>1, <2>4 DEF TreeInv, Backed, RefInv, Deciding, Journal
    <3> QED BY <2>0, <2>2, <2>4, <3>1, <3>2, DecisionStep
  <2> QED BY <2>0, <2>3, <2>4
<1>4. ASSUME FailReceipt PROVE Implements
  <2>0. pc = "failreceipt" /\ UNCHANGED <<files, fence, jr, undo, edited, planned>> /\ Release
    BY <1>4 DEF FailReceipt
  <2>1. \A s \in Requests \ {mem.req} : receipts'[s] = receipts[s]
    BY <1>4 DEF FailReceipt, TypeInv, TypeOK
  <2>2. undo[mem.req] # NoJournal \/ (fence = "journal" /\ jr.req = mem.req)
    BY <2>0 DEF TreeInv, Backed
  <2> QED BY <2>0, <2>1, <2>2, QuietImplements DEF Release
<1> QED BY <1>1, <1>2, <1>3, <1>4

\* Dropping the undo of a decided request leaves its answer in the ledger.
LEMMA UndoDropped ==
    ASSUME TypeInv, DecodeInv, RefInv, NEW r \in Requests, Terminal(receipts[r]), fence # "journal", fence' # "journal",
           undo' = [undo EXCEPT ![r] = NoJournal], UNCHANGED <<files, receipts, edited, planned>>, Deciding'
    PROVE  Implements
<1>1. \A s \in Requests : undo'[s] = IF s = r THEN NoJournal ELSE undo[s] BY DEF TypeInv, TypeOK
<1>2. Decisions' BY <1>1 DEF RefInv, Decisions
<1>3. PolicyView' = PolicyView BY DEF PolicyView
<1>4. undo[r] # NoJournal =>
         Decided(undo[r].phase) = IF receipts[r].pers = "Aborted" THEN "aborted" ELSE "committed"
  <2> SUFFICES ASSUME undo[r] # NoJournal
               PROVE  Decided(undo[r].phase) = IF receipts[r].pers = "Aborted" THEN "aborted" ELSE "committed"
    OBVIOUS
  <2>1. AgreesWithReceipt(undo[r], receipts[r]) BY DEF DecodeInv, InUndo
  <2>2. receipts[r] # NoReceipt /\ receipts[r].pers \in {"Committed", "Aborted"} BY DEF Terminal
  <2>3. CASE receipts[r].pers = "Committed"
    <3>1. undo[r].phase \in CommittedPhases BY <2>1, <2>2, <2>3 DEF AgreesWithReceipt
    <3> QED BY <2>3, <3>1 DEF CommittedPhases, Decided
  <2>4. CASE receipts[r].pers = "Aborted"
    <3>1. undo[r].phase = "Aborted" BY <2>1, <2>2, <2>4 DEF AgreesWithReceipt
    <3> QED BY <2>4, <3>1 DEF Decided
  <2> QED BY <2>2, <2>3, <2>4
<1>5. OutcomeView' = OutcomeView
  <2>1. receipts[r] # NoReceipt BY DEF Terminal
  <2>2. \A s \in Requests : OutcomeView'[s] = OutcomeView[s] BY <1>1, <1>4, <2>1 DEF OutcomeView
  <2> QED BY <2>2 DEF OutcomeView
<1>6. SavedView' = [SavedView EXCEPT ![r] = None]
  <2>1. \A s \in Requests : SavedView'[s] = IF s = r THEN None ELSE SavedView[s]
    BY <1>1 DEF SavedView
  <2>2. SavedView = [s \in Requests |-> SavedView[s]] /\ SavedView' = [s \in Requests |-> SavedView'[s]]
    BY DEF SavedView
  <2> QED BY <2>1, <2>2
<1>7. Atomic!DropUndo(r) BY <1>3, <1>5, <1>6 DEF Atomic!DropUndo
<1> QED BY <1>2, <1>7 DEF Implements, RefInv, Atomic!ANext

LEMMA OperationImplements ==
    ASSUME TypeInv, StagingInv, DecodeInv, TreeInv, RefInv,
           \/ ReturnRefused \/ Lookup \/ Complete \/ Finalize \/ RollbackOpen \/ RollbackBegin
           \/ \E r \in Requests : ExpireReceipt(r)
    PROVE  Implements
<1>0. pc \in {"op", "admit"} => fence = "none" /\ call.req \in Requests
  BY DEF StagingInv, Synced, TypeInv, Held
<1>1. ASSUME ReturnRefused PROVE Implements BY <1>1, ReturnImplements DEF ReturnRefused
<1>2. ASSUME Lookup PROVE Implements
  <2> DEFINE r == call.req
  <2>0. pc = "op" BY <1>2 DEF Lookup
  <2>1. CASE Return BY <2>1, ReturnImplements
  <2>2. CASE Refuse BY <2>0, <2>2, RefuseImplements
  <2>3. CASE call.op = "apply" /\ Goto("admit") BY <2>0, <2>3, GotoImplements DEF Steps
  <2>4. CASE /\ undo[r] # NoJournal
             /\ \/ receipts' = receipts
                \/ receipts' = [receipts EXCEPT ![r] = TerminalReceipt(undo[r], receipts[r])]
             /\ Release /\ UNCHANGED <<tree, fence, jr, undo, env, faults>>
    <3>1. \A s \in Requests \ {r} : receipts'[s] = receipts[s] BY <2>4 DEF TypeInv, TypeOK
    <3> QED BY <2>4, <3>1, QuietImplements DEF Release
  <2> QED BY <1>2, <2>1, <2>2, <2>3, <2>4 DEF Lookup
<1>3. ASSUME Complete PROVE Implements
  <2>0. /\ pc = "op" /\ Release /\ UNCHANGED <<files, fence, jr, undo, edited, planned>>
        /\ \/ receipts' = receipts
           \/ /\ Terminal(receipts[call.req])
              /\ receipts' = [receipts EXCEPT ![call.req].settled = TRUE]
    BY <1>3 DEF Complete
  <2>1. CASE receipts' = receipts BY <2>0, <2>1, QuietImplements DEF Release
  <2>2. CASE /\ Terminal(receipts[call.req])
             /\ receipts' = [receipts EXCEPT ![call.req].settled = TRUE]
    <3>1. call.req \in Requests BY <1>0, <2>0
    <3>2. /\ receipts[call.req] \in Receipt /\ receipts \in [Requests -> Receipt \cup {NoReceipt}]
          /\ receipts[call.req] # NoReceipt
      BY <2>2, <3>1 DEF Terminal, TypeInv, TypeOK
    <3>3. receipts'[call.req].pers = receipts[call.req].pers /\ receipts'[call.req] \in Receipt
      BY <2>2, <3>1, <3>2 DEF Receipt
    <3>4. receipts'[call.req] # NoReceipt
      <4>1. "old" \in DOMAIN receipts'[call.req] BY <3>3 DEF Receipt
      <4>2. "old" \notin DOMAIN NoReceipt BY DEF NoReceipt
      <4> QED BY <4>1, <4>2
    <3>5. \A s \in Requests \ {call.req} : receipts'[s] = receipts[s] BY <2>2, <3>2
    <3> QED BY <2>0, <3>2, <3>3, <3>4, <3>5, QuietImplements DEF Release
  <2> QED BY <2>0, <2>1, <2>2
<1>4. ASSUME Finalize PROVE Implements
  <2>0. pc = "op" /\ Release /\ UNCHANGED <<files, fence, jr, receipts, edited, planned>>
    BY <1>4 DEF Finalize
  <2>1. CASE undo' = undo BY <2>0, <2>1, QuietImplements DEF Release
  <2>2. CASE Terminal(receipts[call.req]) /\ undo' = [undo EXCEPT ![call.req] = NoJournal]
    <3>1. Deciding' BY <2>0, PlainlyDeciding DEF Release, RefInv
    <3> QED BY <1>0, <2>0, <2>2, <3>1, UndoDropped
  <2> QED BY <1>4, <2>1, <2>2 DEF Finalize
<1>5. ASSUME RollbackOpen PROVE Implements
  <2> DEFINE r == call.req
             j == undo[r]
  <2>0. pc = "op" /\ fence = "none" /\ r \in Requests BY <1>0, <1>5 DEF RollbackOpen
  <2>1. CASE Return BY <2>1, ReturnImplements
  <2>2. CASE Refuse BY <2>0, <2>2, RefuseImplements
  <2>3. CASE /\ j # NoJournal /\ j.phase = "Committed" /\ AfterInventory(j)
             /\ undo' = [undo EXCEPT ![r] = NoJournal]
             /\ fence' = "journal" /\ jr' = j /\ pc' = "rollback" /\ edited' = {}
             /\ UNCHANGED <<tree, receipts, call, planned>>
    <3>1. j.req = r BY <2>0, <2>3 DEF DecodeInv, InUndo
    <3>2. \A s \in Requests : undo'[s] = IF s = r THEN NoJournal ELSE undo[s]
      BY <2>3 DEF TypeInv, TypeOK
    <3>3. j.phase \in AfterDecided /\ Decided(j.phase) = "committed" BY <2>3 DEF AfterDecided, Decided
    <3>4. \A m \in Members : files[m].val = After(j, m) BY <2>3 DEF AfterInventory, IsAfter, Matches
    <3>a. j # NoJournal /\ j.phase = "Committed" /\ fence' = "journal" /\ jr' = j
      BY <2>3
    <3>b. j = undo[r] OBVIOUS
    <3> HIDE DEF j
    <3>5. PolicyView' = PolicyView
      <4>1. \A m \in Members : PolicyView'[m] = files[m].val
        BY <2>3, <3>3, <3>4, <3>a DEF PolicyView, After
      <4>2. \A m \in Members : PolicyView[m] = files[m].val BY <2>0 DEF PolicyView
      <4> QED BY <4>1, <4>2 DEF PolicyView
    <3>6. OutcomeView' = OutcomeView
      <4>1. \A s \in Requests : OutcomeView'[s] = OutcomeView[s]
        BY <2>0, <2>3, <3>1, <3>2, <3>a, <3>b DEF OutcomeView
      <4> QED BY <4>1 DEF OutcomeView
    <3>7. SavedView' = SavedView
      <4>1. \A s \in Requests : SavedView'[s] = SavedView[s]
        BY <2>0, <2>3, <3>1, <3>2, <3>3, <3>a, <3>b DEF SavedView
      <4> QED BY <4>1 DEF SavedView
    <3>8. Atomic!Capture BY <2>3, <3>5, <3>6, <3>7 DEF Atomic!Capture
    <3>9. Decisions'
      <4>1. j.before # None BY <2>0, <3>a, <3>b DEF RefInv, Decisions
      <4> QED BY <2>3, <3>2, <3>3, <3>a, <4>1 DEF RefInv, Decisions, Foreign
    <3>10. Deciding' BY <2>0, <2>3, PlainlyDeciding DEF RefInv
    <3> QED BY <2>3, <3>8, <3>9, <3>10 DEF Implements, RefInv, Atomic!ANext
  <2> QED BY <1>5, <2>1, <2>2, <2>3 DEF RollbackOpen
<1>6. ASSUME RollbackBegin PROVE Implements
  <2> DEFINE k == [mem EXCEPT !.phase = "RollingBack", !.ready = FALSE]
  <2>0. pc = "rollback" /\ WriteJournal(k, "stage") /\ UNCHANGED files BY <1>6 DEF RollbackBegin
  <2>1. mem \in Journal BY <2>0, AtWork
  <2>2. mem.phase = "Committed" BY <2>0 DEF DecodeInv, InRun, Phased
  <2>3. k.req = mem.req /\ k.before = mem.before /\ k.phase = "RollingBack" BY <2>1 DEF Journal
  <2> HIDE DEF k
  <2>4. Advances(mem.phase, k.phase) BY <2>2, <2>3 DEF Advances, AfterDecided, Decided
  <2> QED BY <2>0, <2>3, <2>4, WriteImplements
<1>7. ASSUME NEW r \in Requests, ExpireReceipt(r) PROVE Implements
  <2>0. /\ pc = "admit" /\ Terminal(receipts[r]) /\ UNCHANGED <<files, fence, jr, pc, call, mem, edited, planned>>
        /\ \/ undo' = [undo EXCEPT ![r] = NoJournal] /\ UNCHANGED receipts
           \/ undo[r] = NoJournal /\ receipts' = [receipts EXCEPT ![r] = NoReceipt] /\ UNCHANGED undo
    BY <1>7 DEF ExpireReceipt, Expired
  <2>1. Deciding' BY <2>0, PlainlyDeciding DEF RefInv, Deciding
  <2>2. CASE undo' = [undo EXCEPT ![r] = NoJournal] /\ UNCHANGED receipts
    BY <1>0, <2>0, <2>1, <2>2, UndoDropped
  <2>3. CASE undo[r] = NoJournal /\ receipts' = [receipts EXCEPT ![r] = NoReceipt] /\ UNCHANGED undo
    <3>0. fence = "none" BY <1>0, <2>0
    <3>1. \A s \in Requests : receipts'[s] = IF s = r THEN NoReceipt ELSE receipts[s]
      BY <2>3 DEF TypeInv, TypeOK
    <3>2. PolicyView' = PolicyView /\ SavedView' = SavedView BY <2>0, <2>3 DEF PolicyView, SavedView, After
    <3>3. SavedView[r] = None BY <2>3, <3>0 DEF SavedView
    <3>4. OutcomeView' = [OutcomeView EXCEPT ![r] = "open"]
      <4>1. \A s \in Requests : OutcomeView'[s] = IF s = r THEN "open" ELSE OutcomeView[s]
        BY <2>0, <2>3, <3>0, <3>1 DEF OutcomeView
      <4>2. OutcomeView = [s \in Requests |-> OutcomeView[s]] /\ OutcomeView' = [s \in Requests |-> OutcomeView'[s]]
        BY DEF OutcomeView
      <4> QED BY <4>1, <4>2
    <3>5. Atomic!Forget(r) BY <2>0, <3>2, <3>3, <3>4 DEF Atomic!Forget
    <3>6. Decisions' BY <2>0, <2>3, <3>0 DEF RefInv, Decisions
    <3> QED BY <2>0, <2>1, <3>5, <3>6 DEF Implements, RefInv, Atomic!ANext
  <2> QED BY <2>0, <2>2, <2>3
<1> QED BY <1>1, <1>2, <1>3, <1>4, <1>5, <1>6, <1>7

LEMMA PrepareImplements ==
    ASSUME TypeInv, StagingInv, DecodeInv, TreeInv, RefInv,
           Admit \/ PublishFence \/ WriteSetup \/ WritePrepared \/ PublishReceipt
    PROVE  Implements
<1>1. ASSUME Admit PROVE Implements
  <2>0. pc = "admit" /\ fence = "none" BY <1>1 DEF Admit, StagingInv, Synced
  <2>1. CASE Return BY <2>1, ReturnImplements
  <2>2. CASE ~Return
    <3> DEFINE k == SetupJournal(call.req)
    <3>1. /\ mem' = k /\ fence' = "stage" /\ pc' = "fence" /\ edited' = {} /\ planned[call.req] = Vals
          /\ UNCHANGED <<files, undo, receipts, call, planned>>
      BY <1>1, <2>2 DEF Admit
    <3>2. k.req = call.req /\ k.before = Vals BY DEF SetupJournal
    <3> HIDE DEF k
    <3>3. call.op = "apply" BY <2>0 DEF RefInv, Deciding
    <3>4. Vals # None BY <2>0, <3>1, <3>3 DEF RefInv, Deciding
    <3>5. RefInv' BY <2>0, <3>1, <3>2, <3>3, <3>4 DEF RefInv, Decisions, Deciding, Foreign
    <3>6. PolicyView' = PolicyView /\ OutcomeView' = OutcomeView /\ SavedView' = SavedView
      BY <2>0, <3>1 DEF PolicyView, OutcomeView, SavedView
    <3>7. Atomic!Capture BY <3>1, <3>6 DEF Atomic!Capture
    <3> QED BY <3>1, <3>5, <3>7 DEF Implements, Atomic!ANext
  <2> QED BY <2>1, <2>2
<1>2. ASSUME PublishFence PROVE Implements
  <2>1. /\ pc = "fence" /\ pc' = "setup" /\ fence' = "bare" /\ fence # "journal"
        /\ UNCHANGED <<files, undo, receipts, call, mem, edited, planned>>
    BY <1>2 DEF PublishFence, StagingInv, Progress
  <2>2. Deciding' BY <2>1 DEF RefInv, Deciding, Foreign
  <2> QED BY <2>1, <2>2, NoDecision
<1>3. ASSUME WriteSetup PROVE Implements
  <2> DEFINE r == mem.req
  <2>1. /\ pc = "setup" /\ pc' = "blobs" /\ fence' = "journal" /\ jr' = mem /\ fence # "journal"
        /\ UNCHANGED <<files, undo, receipts, call, mem, edited, planned>>
    BY <1>3 DEF WriteSetup, StagingInv, Progress
  <2>2. mem.phase = "Setup" /\ receipts[r] = NoReceipt /\ undo[r] = NoJournal /\ Fits(mem)
    BY <2>1 DEF DecodeInv, InRun, Phased, Records, TreeInv, TreeFits, Backed
  <2>3. Foreign(mem) /\ mem.before # None /\ mem.before = planned[r] BY <2>1 DEF RefInv, Deciding
  <2>4. AtBefore(mem) /\ mem.phase \notin AfterDecided /\ Decided(mem.phase) = "open"
    BY <2>2 DEF AtBefore, AfterDecided, Decided
  <2>5. \A m \in Members \ edited : files[m].val = mem.before[m] BY <2>2, <2>4, PolicyIsTree
  <2>6. PolicyView' = PolicyView BY <2>1, <2>4, <2>5 DEF PolicyView
  <2>7. OutcomeView' = OutcomeView
    <3>1. \A s \in Requests : OutcomeView'[s] = OutcomeView[s]
      BY <2>1, <2>2, <2>4 DEF OutcomeView
    <3> QED BY <3>1 DEF OutcomeView
  <2>8. SavedView' = SavedView
    <3>1. \A s \in Requests : SavedView'[s] = SavedView[s] BY <2>1, <2>2, <2>4 DEF SavedView
    <3> QED BY <3>1 DEF SavedView
  <2>9. RefInv' BY <2>1, <2>3 DEF RefInv, Decisions, Deciding, Foreign, After
  <2> QED BY <2>1, <2>6, <2>7, <2>8, <2>9 DEF Implements, Atomic!avars
<1>4. ASSUME WritePrepared PROVE Implements
  <2> DEFINE k == [mem EXCEPT !.phase = "Prepared"]
  <2>0. pc = "blobs" /\ WriteJournal(k, "prepared") /\ UNCHANGED files BY <1>4 DEF WritePrepared
  <2>1. mem \in Journal /\ mem.phase = "Setup" BY <2>0, AtWork DEF DecodeInv, InRun, Phased
  <2>2. k.req = mem.req /\ k.before = mem.before /\ k.phase = "Prepared" BY <2>1 DEF Journal
  <2> HIDE DEF k
  <2>3. Advances(mem.phase, k.phase) BY <2>1, <2>2 DEF Advances, AfterDecided, Decided
  <2> QED BY <2>0, <2>2, <2>3, WriteImplements
<1>5. ASSUME PublishReceipt PROVE Implements
  <2>0. /\ pc = "prepared" /\ pc' = "stage" /\ UNCHANGED <<files, fence, jr, undo, call, edited, planned>>
    BY <1>5 DEF PublishReceipt
  <2>1. fence = "journal" /\ jr = mem BY <2>0 DEF StagingInv, Synced
  <2>2. \A s \in Requests \ {mem.req} : receipts'[s] = receipts[s]
    BY <1>5 DEF PublishReceipt, TypeInv, TypeOK
  <2> QED BY <2>0, <2>1, <2>2, QuietImplements
<1> QED BY <1>1, <1>2, <1>3, <1>4, <1>5

LEMMA CommitImplements ==
    ASSUME TypeInv, StagingInv, DecodeInv, TreeInv, RefInv, StageRollback \/ Promote \/ PromoteDone
    PROVE  Implements
<1>0. pc \in {"stage", "promote", "promoted"} BY DEF StageRollback, Promote, PromoteDone
<1>1. mem \in Journal /\ left \subseteq Members /\ edited \subseteq Members
  BY <1>0, AtWork DEF TypeInv, TypeOK
<1>2. CASE Refuse BY <1>0, <1>2, RefuseImplements
\* A write that takes no decision.
<1>3. ASSUME NEW k, NEW n \in {"stage", "promote", "phase"}, WriteJournal(k, n), UNCHANGED files,
             k.req = mem.req, k.before = mem.before, k.phase = mem.phase
      PROVE  Implements
  BY <1>0, <1>3, StayAdvances, WriteImplements
<1>4. ASSUME NEW n \in Members \ edited, NEW f, files' = [files EXCEPT ![n] = f]
      PROVE  \A m \in edited : files'[m] = files[m]
  BY <1>1, <1>4 DEF TypeInv, TypeOK
<1>5. ASSUME StageRollback PROVE Implements
  <2>0. pc = "stage" BY <1>5 DEF StageRollback
  <2>1. CASE /\ WriteJournal([mem EXCEPT !.ready = TRUE], IF run = "commit" THEN "promote" ELSE "phase")
             /\ UNCHANGED tree
    <3> DEFINE k == [mem EXCEPT !.ready = TRUE]
               n == IF run = "commit" THEN "promote" ELSE "phase"
    <3>1. k.req = mem.req /\ k.before = mem.before /\ k.phase = mem.phase BY <1>1 DEF Journal
    <3>2. WriteJournal(k, n) /\ UNCHANGED files BY <2>1
    <3>3. n \in {"promote", "phase"} OBVIOUS
    <3> HIDE DEF k, n
    <3> QED BY <1>3, <3>1, <3>2, <3>3
  <2>2. ASSUME NEW n, NEW i, Writes([mem EXCEPT !.rstg[n] = i], pc) PROVE Implements
    <3> DEFINE k == [mem EXCEPT !.rstg[n] = i]
    <3>1. k.req = mem.req /\ k.before = mem.before /\ k.phase = mem.phase BY <1>1 DEF Journal
    <3>2. WriteJournal(k, "stage") /\ UNCHANGED files BY <2>0, <2>2 DEF Writes
    <3> HIDE DEF k
    <3> QED BY <1>3, <3>1, <3>2
  <2>3. CASE UNCHANGED files /\ TreeStep(pc) BY <2>0, <2>3, TreeImplements
  <2>4. ASSUME NEW n, Writes([mem EXCEPT !.rlnk[n] = TRUE], pc) PROVE Implements
    <3> DEFINE k == [mem EXCEPT !.rlnk[n] = TRUE]
    <3>1. k.req = mem.req /\ k.before = mem.before /\ k.phase = mem.phase BY <1>1 DEF Journal
    <3>2. WriteJournal(k, "stage") /\ UNCHANGED files BY <2>0, <2>4 DEF Writes
    <3> HIDE DEF k
    <3> QED BY <1>3, <3>1, <3>2
  <2> QED BY <1>2, <1>5, <2>1, <2>2, <2>3, <2>4, StageRollbackDoes
<1>6. ASSUME Promote PROVE Implements
  <2>0. pc = "promote" BY <1>6 DEF Promote
  <2>1. CASE Writes([mem EXCEPT !.phase = "Committing", !.pers = "Committed"], "cleanup")
    <3> DEFINE k == [mem EXCEPT !.phase = "Committing", !.pers = "Committed"]
    <3>1. k.req = mem.req /\ k.before = mem.before /\ k.phase = "Committing" BY <1>1 DEF Journal
    <3>2. WriteJournal(k, "cleanup") /\ UNCHANGED files BY <2>1 DEF Writes
    <3> HIDE DEF k
    <3>3. mem.phase = "Prepared" BY <2>0 DEF DecodeInv, InRun, Phased
    <3>4. Advances(mem.phase, k.phase) BY <3>1, <3>3 DEF Advances, AfterDecided, Decided
    <3> QED BY <2>0, <3>1, <3>2, <3>4, WriteImplements
  <2>2. CASE UNCHANGED files /\ TreeStep(pc) BY <2>0, <2>2, TreeImplements
  <2>3. ASSUME NEW n \in left, NEW f, NEW next \in {"promote", "promoted"}, IsBefore(mem, n),
               files' = [files EXCEPT ![n] = f], TreeStep(next)
        PROVE  Implements
    <3>1. n \notin edited BY <2>0, <2>3, LookTells
    <3>2. \A m \in edited : files'[m] = files[m] BY <1>1, <1>4, <2>3, <3>1
    <3> QED BY <2>0, <2>3, <3>2, TreeImplements
  <2>4. ASSUME NEW n, NEW i, Writes([mem EXCEPT !.prom[n] = i, !.lstg[n] = i], pc) PROVE Implements
    <3> DEFINE k == [mem EXCEPT !.prom[n] = i, !.lstg[n] = i]
    <3>1. k.req = mem.req /\ k.before = mem.before /\ k.phase = mem.phase BY <1>1 DEF Journal
    <3>2. WriteJournal(k, "promote") /\ UNCHANGED files BY <2>0, <2>4 DEF Writes
    <3> HIDE DEF k
    <3> QED BY <1>3, <3>1, <3>2
  <2>5. \/ Refuse
        \/ Writes([mem EXCEPT !.phase = "Committing", !.pers = "Committed"], "cleanup")
        \/ UNCHANGED files /\ TreeStep(pc)
        \/ \E n \in left : /\ IsBefore(mem, n) /\ TreeStep(pc)
                           /\ files' = [files EXCEPT ![n] = [val |-> None, ino |-> 0]]
        \/ \E n, i : Writes([mem EXCEPT !.prom[n] = i, !.lstg[n] = i], pc)
        \/ \E n \in left : /\ IsBefore(mem, n) /\ TreeStep("promoted")
                           /\ files' = [files EXCEPT ![n] = [val |-> After(mem, n), ino |-> fwd[n]]]
    BY <1>6, PromoteDoes
  <2> QED BY <1>2, <2>0, <2>1, <2>2, <2>3, <2>4, <2>5
<1>7. ASSUME PromoteDone PROVE Implements
  <2> DEFINE n == First(left)
             k == [mem EXCEPT !.lstg[n] = 0]
  <2>1. WriteJournal(k, "promote") /\ UNCHANGED files BY <1>7 DEF PromoteDone
  <2>2. k.req = mem.req /\ k.before = mem.before /\ k.phase = mem.phase BY <1>1 DEF Journal
  <2> HIDE DEF k
  <2> QED BY <1>3, <2>1, <2>2
<1> QED BY <1>5, <1>6, <1>7

LEMMA NextImplements ==
    TypeInv /\ StagingInv /\ DecodeInv /\ TreeInv /\ RefInv /\ [Next]_vars /\ [TellingSaves]_vars => Implements
<1> SUFFICES ASSUME TypeInv, StagingInv, DecodeInv, TreeInv, RefInv, [Next]_vars, [TellingSaves]_vars
             PROVE  Implements
  OBVIOUS
<1>1. CASE UNCHANGED vars
  <2>1. UNCHANGED <<files, fence, jr, undo, receipts, pc, call, mem, left, edited, planned>> BY <1>1 DEF vars
  <2>2. Deciding' BY <2>1 DEF RefInv, Deciding, Foreign
  <2> QED BY <2>1, <2>2, NoDecision
<1>2. CASE Caller
  BY <1>2, RecoveryImplements, CleanupImplements, RestoreImplements, TerminalImplements,
     OperationImplements, PrepareImplements, CommitImplements DEF Caller
<1>3. CASE Next /\ ~Caller /\ TellingSaves BY <1>3, EnvironmentImplements DEF Next
<1> QED BY <1>1, <1>2, <1>3

LEMMA InitImplements == Init => RefInv /\ Atomic!AInit
<1> SUFFICES ASSUME Init PROVE RefInv /\ Atomic!AInit OBVIOUS
<1>1. RefInv BY DEF Init, RefInv, Decisions, Deciding
<1>2. PolicyView = Genesis BY DEF Init, PolicyView
<1>3. OutcomeView = [r \in Requests |-> "open"] BY DEF Init, OutcomeView
<1>4. SavedView = [r \in Requests |-> None] BY DEF Init, SavedView
<1> QED BY <1>1, <1>2, <1>3, <1>4 DEF Init, Atomic!AInit

\* Every behaviour of the journaled transaction, through crashes, I/O errors
\* and saves a look can tell, is one of atomic commits, aborts and
\* rollbacks, each decided once, of whole trees, around the saved members.
THEOREM TransactionIsAtomic == Spec /\ [][TellingSaves]_vars => RefinesAtomic
<1> DEFINE I == TypeInv /\ StagingInv /\ DecodeInv /\ TreeInv /\ RefInv
<1>1. Init => I /\ Atomic!AInit
  BY InitTypes, InitStaging, InitDecodes, InitFits, InitImplements
<1>2. I /\ [Next]_vars /\ [TellingSaves]_vars => I' /\ [Atomic!ANext]_(Atomic!avars)
  BY NextTypes, NextStaging, NextDecodes, NextFits, NextImplements DEF Implements
<1> HIDE DEF I
<1> QED BY <1>1, <1>2, PTL DEF Spec, RefinesAtomic, Atomic!ASpec

\* What an editor saved after a transaction captured the tree is not touched
\* by its promotion, its recovery or its rollback, when a look can tell it.
THEOREM SavesSurvive == Spec /\ [][TellingSaves]_vars => EditsSurvive
<1> DEFINE I == TypeInv /\ StagingInv /\ DecodeInv /\ TreeInv /\ RefInv
           E == \A m \in edited : edits' = edits => files'[m] = files[m]
<1>1. Init => I BY InitTypes, InitStaging, InitDecodes, InitFits, InitImplements
<1>2. I /\ [Next]_vars /\ [TellingSaves]_vars => I' /\ [E]_vars
  BY NextTypes, NextStaging, NextDecodes, NextFits, NextImplements DEF Implements
<1>3. EditsSurvive <=> [][E]_vars BY DEF EditsSurvive
<1> HIDE DEF I, E
<1> QED BY <1>1, <1>2, <1>3, PTL DEF Spec

-----------------------------------------------------------------------------
(***************************************************************************)
(* The hypothesis is met, in particular, by every behaviour with a single  *)
(* save of a content that no plan and no tree has, at any step but the     *)
(* restore of a member.                                                    *)
(***************************************************************************)

FreshSave ==
    /\ MaxEdits <= 1 /\ "swap" \notin EditPoints
    /\ \A m \in Members : Genesis[m] # EditValue /\ \A r \in Requests : Target[r][m] # EditValue

\* Until the save happens, nothing on disk, planned or kept has its content.
Unsaved ==
    edits = 0 => /\ edited = {}
                 /\ \A m \in Members : PolicyView[m] # EditValue
                 /\ \A r \in Requests, m \in Members :
                       /\ planned[r] # None => planned[r][m] # EditValue
                       /\ SavedView[r] # None => SavedView[r][m] # EditValue

\* Only an editor marks a member as saved.
LEMMA OnlyEditsMark ==
    ASSUME TypeInv, [Next]_vars, ~\E m \in Members : Edit(m)
    PROVE  edits' = edits /\ edited' \in {edited, {}}
<1> USE DEF Goto, Release, Return, Refuse, TreeStep, WriteJournal
<1>1. CASE UNCHANGED vars BY <1>1 DEF vars
<1>2. ASSUME RecoverStage \/ Reconcile \/ RecoverBare \/ RemoveSetup \/ RecoverJournal \/ CleanStaging
      PROVE  edits' = edits /\ edited' \in {edited, {}}
  BY <1>2 DEF RecoverStage, Reconcile, RecoverBare, RemoveSetup, RecoverJournal, CleanStaging
<1>3. ASSUME ResolvePhase \/ CleanRollback \/ WriteGoal
      PROVE  edits' = edits /\ edited' \in {edited, {}}
  BY <1>3 DEF ResolvePhase, CleanRollback, WriteGoal
<1>4. ASSUME Restore \/ RestoreSwap \/ RestoreDone \/ Terminalize \/ WriteReceipt
      PROVE  edits' = edits /\ edited' \in {edited, {}}
  BY <1>4 DEF Restore, RestoreSwap, RestoreDone, Terminalize, WriteReceipt
<1>5. ASSUME FailJournal \/ FailReceipt \/ ReturnRefused \/ Lookup \/ Complete \/ Finalize
      PROVE  edits' = edits /\ edited' \in {edited, {}}
  BY <1>5 DEF FailJournal, FailReceipt, ReturnRefused, Lookup, Complete, Finalize
<1>6. ASSUME RollbackOpen \/ RollbackBegin \/ (\E r \in Requests : ExpireReceipt(r)) \/ Admit
      PROVE  edits' = edits /\ edited' \in {edited, {}}
  BY <1>6 DEF RollbackOpen, RollbackBegin, ExpireReceipt, Admit
<1>7. ASSUME PublishFence \/ WriteSetup \/ WritePrepared \/ PublishReceipt \/ StageRollback \/ Promote \/ PromoteDone
      PROVE  edits' = edits /\ edited' \in {edited, {}}
  <2>1. CASE PublishFence \/ WriteSetup \/ WritePrepared \/ PublishReceipt
    BY <2>1 DEF PublishFence, WriteSetup, WritePrepared, PublishReceipt
  <2>2. CASE StageRollback BY <2>2 DEF StageRollback
  <2>3. CASE Promote
    <3>1. left = {} \/ First(left) \in Members BY FirstIsMember DEF TypeInv, TypeOK
    <3>2. left = {} \/ Operation(mem, First(left)) \in {"none", "delete"} \/ First(left) \in Published(mem)
      BY <3>1 DEF Published, Operation
    <3> HIDE DEF Goto, Release, Return
    <3> QED BY <2>3, <3>2 DEF Promote
  <2>4. CASE PromoteDone BY <2>4 DEF PromoteDone
  <2> QED BY <1>7, <2>1, <2>2, <2>3, <2>4
<1>8. ASSUME \/ \E r \in Requests : Plan(r) \/ Age(r)
             \/ \E op \in Ops, r \in Requests : Begin(op, r)
             \/ Crash \/ IoError \/ FailSkipCleanup
      PROVE  edits' = edits /\ edited' \in {edited, {}}
  BY <1>8 DEF Plan, Age, Begin, Crash, IoError, FailSkipCleanup
<1> QED BY <1>1, <1>2, <1>3, <1>4, <1>5, <1>6, <1>7, <1>8 DEF Next, Caller

\* The save is one a look can tell.
LEMMA FreshTells ==
    ASSUME FreshSave, TypeInv, StagingInv, RefInv, Unsaved, Next
    PROVE  TellingSaves
<1> SUFFICES ASSUME NEW m \in Members, edits' # edits, files'[m] # files[m]
             PROVE  /\ fence = "journal" => files'[m].val \notin {jr.before[m], After(jr, m)}
                    /\ pc \in {"fence", "setup"} => files'[m].val \notin {mem.before[m], After(mem, m)}
                    /\ ~(pc = "swap" /\ m = First(left))
  BY DEF TellingSaves
<1>1. PICK n \in Members : Edit(n) BY OnlyEditsMark
<1>2. pc \in EditPoints /\ edits < MaxEdits BY <1>1 DEF Edit
<1>3. edits = 0 /\ pc # "swap"
  <2>1. edits \in Nat /\ MaxEdits \in Nat /\ MaxEdits <= 1 BY DEF FreshSave, TypeInv, TypeOK
  <2>2. edits = 0 BY <1>2, <2>1
  <2> QED BY <1>2, <2>2 DEF FreshSave
<1>4. files'[m].val = EditValue BY <1>1 DEF Edit, TypeInv, TypeOK
<1>5. edited = {} BY <1>3 DEF Unsaved
<1>6. ASSUME fence = "journal" PROVE EditValue \notin {jr.before[m], After(jr, m)}
  <2>1. jr \in Journal /\ jr.req \in Requests BY <1>6 DEF TypeInv, Held, Journal
  <2>2. jr.before # None BY <1>6 DEF RefInv, Decisions
  <2>3. After(jr, m) # EditValue BY <2>1 DEF FreshSave, After
  <2>4. CASE jr.phase \in AfterDecided
    <3>1. SavedView[jr.req] = jr.before BY <1>6, <2>1, <2>4 DEF SavedView
    <3> QED BY <1>3, <2>1, <2>2, <2>3, <3>1 DEF Unsaved
  <2>5. CASE jr.phase \notin AfterDecided
    <3>1. PolicyView[m] = jr.before[m] BY <1>5, <1>6, <2>5 DEF PolicyView
    <3> QED BY <1>3, <2>3, <3>1 DEF Unsaved
  <2> QED BY <2>4, <2>5
<1>7. ASSUME pc \in {"fence", "setup"} PROVE EditValue \notin {mem.before[m], After(mem, m)}
  <2>1. mem \in Journal /\ mem.req \in Requests BY <1>7 DEF TypeInv, Held, Journal
  <2>2. mem.before # None /\ mem.before = planned[mem.req] BY <1>7 DEF RefInv, Deciding
  <2>3. After(mem, m) # EditValue BY <2>1 DEF FreshSave, After
  <2> QED BY <1>3, <2>1, <2>2, <2>3 DEF Unsaved
<1> QED BY <1>3, <1>4, <1>6, <1>7

LEMMA NextUnsaved ==
    ASSUME FreshSave, TypeInv, Unsaved, [Next]_vars, [Atomic!ANext]_(Atomic!avars)
    PROVE  Unsaved'
<1> SUFFICES ASSUME edits' = 0 PROVE Unsaved' BY DEF Unsaved
<1>1. ~\E m \in Members : Edit(m) BY DEF Edit, TypeInv, TypeOK
<1>2. edits = 0 /\ edited = {} /\ edited' = {} BY <1>1, OnlyEditsMark DEF Unsaved
<1>3. /\ \A m \in Members : PolicyView[m] # EditValue
      /\ \A r \in Requests, m \in Members :
            /\ planned[r] # None => planned[r][m] # EditValue
            /\ SavedView[r] # None => SavedView[r][m] # EditValue
  BY <1>2 DEF Unsaved
<1>4. planned \in [Requests -> [Members -> OptVal] \cup {None}] BY DEF TypeInv, TypeOK
<1>5. SavedView = [r \in Requests |-> SavedView[r]] /\ PolicyView = [m \in Members |-> PolicyView[m]]
  BY DEF SavedView, PolicyView
<1>6. CASE UNCHANGED Atomic!avars BY <1>2, <1>3, <1>6 DEF Unsaved, Atomic!avars
<1>7. CASE Atomic!Capture BY <1>2, <1>3, <1>7 DEF Unsaved, Atomic!Capture
<1>8. ASSUME NEW m \in Members, Atomic!Save(m) PROVE FALSE BY <1>2, <1>8 DEF Atomic!Save
<1>9. ASSUME NEW r \in Requests, Atomic!APlan(r) PROVE Unsaved'
  BY <1>2, <1>3, <1>4, <1>9 DEF Unsaved, Atomic!APlan
<1>10. ASSUME NEW r \in Requests, Atomic!Commit(r) PROVE Unsaved'
  <2>1. /\ PolicyView' = [m \in Members |-> Target[r][m]] /\ UNCHANGED planned
        /\ SavedView' = [SavedView EXCEPT ![r] = planned[r]] /\ planned[r] # None
    BY <1>2, <1>10 DEF Atomic!Commit, Atomic!Replace
  <2> QED BY <1>2, <1>3, <1>5, <2>1 DEF Unsaved, FreshSave
<1>11. ASSUME NEW r \in Requests, Atomic!Rollback(r) PROVE Unsaved'
  <2>1. /\ PolicyView' = [m \in Members |-> SavedView[r][m]] /\ UNCHANGED planned
        /\ SavedView' = [SavedView EXCEPT ![r] = None] /\ SavedView[r] # None
    BY <1>2, <1>11 DEF Atomic!Rollback, Atomic!Replace
  <2> QED BY <1>2, <1>3, <1>5, <2>1 DEF Unsaved
<1>12. ASSUME NEW r \in Requests, Atomic!DropUndo(r) PROVE Unsaved'
  BY <1>2, <1>3, <1>5, <1>12 DEF Unsaved, Atomic!DropUndo
<1>13. ASSUME NEW r \in Requests, Atomic!Abort(r) \/ Atomic!Forget(r) PROVE Unsaved'
  BY <1>2, <1>3, <1>13 DEF Unsaved, Atomic!Abort, Atomic!Forget
<1> QED BY <1>6, <1>7, <1>8, <1>9, <1>10, <1>11, <1>12, <1>13 DEF Atomic!ANext

\* A single fresh save, at any step but a restore, needs no other hypothesis:
\* the transaction is atomic and the save survives.
THEOREM FreshSaveIsAtomic ==
    ASSUME FreshSave
    PROVE  Spec => RefinesAtomic /\ EditsSurvive
<1> DEFINE I == TypeInv /\ StagingInv /\ DecodeInv /\ TreeInv /\ RefInv
<1>1. Init => I /\ Unsaved
  <2>1. Init => I BY InitTypes, InitStaging, InitDecodes, InitFits, InitImplements
  <2>2. ASSUME Init PROVE Unsaved
    <3>1. PolicyView = Genesis /\ SavedView = [r \in Requests |-> None] BY <2>2 DEF Init, PolicyView, SavedView
    <3> QED BY <2>2, <3>1 DEF Init, Unsaved, FreshSave
  <2> QED BY <2>1, <2>2
<1>2. I /\ Unsaved /\ [Next]_vars => [TellingSaves]_vars /\ (I /\ Unsaved)'
  <2> SUFFICES ASSUME I, Unsaved, [Next]_vars PROVE [TellingSaves]_vars /\ (I /\ Unsaved)' OBVIOUS
  <2>1. [TellingSaves]_vars BY FreshTells
  <2>2. Implements BY <2>1, NextImplements
  <2>3. Unsaved' BY <2>2, NextUnsaved DEF Implements
  <2> QED BY <2>1, <2>2, <2>3, NextTypes, NextStaging, NextDecodes, NextFits DEF Implements
<1> HIDE DEF I
<1> QED BY <1>1, <1>2, TransactionIsAtomic, SavesSurvive, PTL DEF Spec
=============================================================================
