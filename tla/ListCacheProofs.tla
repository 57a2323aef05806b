--------------------------- MODULE ListCacheProofs ---------------------------
(***************************************************************************)
(* For any sources, any contents and any number of cycles, failed          *)
(* operations, stops and forgotten sources: the manifests select one       *)
(* admitted corpus, and a cycle reclaims only bodies that no crash brings  *)
(* back.                                                                   *)
(*                                                                         *)
(* Neither is inductive.  The strengthening speaks of every journal that a *)
(* crash may leave at once: whichever it is, its recovery must end in one  *)
(* of the corpora a reader may find (Whole), and a recovery that is under  *)
(* way by the journal that is there must not disturb what a crash would    *)
(* recover by another (Undoable).                                          *)
(***************************************************************************)
EXTENDS ListCache, TLAPS

USE CacheAssumption

Choices  == Gens \cup {NoBody}
Journals == UNION {[S -> Choices] : S \in SUBSET Sources}
Disks    == [meta : Manifests, bodies : SUBSET Bodies, journal : Journals]
Maybes   == [meta : [Sources -> SUBSET Choices], bodies : [Bodies -> SUBSET BOOLEAN],
             journal : SUBSET Journals]

Recovering == {"boot", "restore", "sync", "unlink", "unlinked"}
Places     == Recovering \cup {"cleanup", "idle", "stage", "journal", "write", "remove",
                               "confirm", "discard", "collect"}

RunTypes ==
    /\ pc \in Places /\ cont \in {"boot", "txn", "undo", "durable"}
    /\ todo \in SUBSET Sources /\ staged \in Journals /\ owned \in SUBSET Bodies
    /\ wholes \in SUBSET Manifests /\ loose \in SUBSET Sources

Types == disk \in Disks /\ maybe \in Maybes /\ RunTypes

(* What the process sees is among what a crash may leave. *)
Visible == disk.journal \in maybe.journal /\ \A s \in Sources : disk.meta[s] \in maybe.meta[s]

(* Whatever a crash leaves, its recovery restores a whole corpus. *)
Whole ==
    \A j \in maybe.journal : \E w \in wholes : \A s \in Sources \ loose :
        IF s \in DOMAIN j THEN w[s] = j[s] ELSE maybe.meta[s] = {w[s]}

(* Undoing by the journal that is there changes nothing for a crash that   *)
(* finds another one.                                                      *)
Undoable ==
    \A s \in DOMAIN disk.journal \ loose :
        (\E j \in maybe.journal : s \notin DOMAIN j) => maybe.meta[s] = {disk.journal[s]}

Fixed     == \A s \in Sources : maybe.meta[s] = {disk.meta[s]}
Settled   == maybe.journal = {disk.journal} /\ Fixed
Undone(S) == \A s \in S : disk.meta[s] = disk.journal[s]
Done(S)   == \A s \in S : disk.meta[s] = staged[s]

(* What each step relies on. *)
Progress ==
    /\ pc \in Recovering => cont \in {"boot", "txn", "undo"}
    /\ pc = "restore" => todo \subseteq DOMAIN disk.journal /\ Undone(DOMAIN disk.journal \ todo)
    /\ pc \in {"sync", "unlink"} => Undone(DOMAIN disk.journal)
    /\ pc = "unlink" => Settled
    /\ pc = "unlinked" => disk.journal = NoJournal
    /\ pc = "journal" => disk.journal = NoJournal /\ todo = DOMAIN staged
    /\ pc \in {"write", "remove"} =>
          /\ Settled /\ DOMAIN disk.journal = DOMAIN staged
          /\ todo \subseteq DOMAIN staged /\ Done(DOMAIN staged \ todo)
    /\ pc = "remove" => todo = {}
    /\ pc = "confirm" => disk.journal = NoJournal /\ Done(DOMAIN staged) /\ Fixed
    /\ pc \in {"write", "remove", "confirm"} => Proposed \in wholes
    /\ pc = "collect" => cont = "durable"
    /\ pc \in {"discard", "collect"} /\ cont = "durable" =>
          maybe.journal = {NoJournal} /\ \A s \in DOMAIN staged : maybe.meta[s] = {staged[s]}
    /\ pc \in {"idle", "cleanup", "collect"} \/ (pc \in Recovering /\ cont = "boot") => owned = {}

(* A body of this cycle that a recovery may select was needed and gone     *)
(* before it was staged, or is selected now.                               *)
Kept ==
    \A b \in owned \cap Needed :
        b \in lost \/ (pc \in {"confirm", "discard"} /\ b[2] = disk.meta[b[1]])

CacheInv == Types /\ Visible /\ Whole /\ Undoable /\ Progress /\ Kept

-----------------------------------------------------------------------------
(* The directory.                                                          *)

LEMMA JournalShape ==
    ASSUME NEW j
    PROVE  j \in Journals <=> \E S \in SUBSET Sources : j \in [S -> Choices]
  BY DEF Journals

LEMMA NoJournalType == NoJournal \in Journals /\ DOMAIN NoJournal = {}
  <1>1. NoJournal \in [{} -> Choices] BY DEF NoJournal
  <1> QED BY <1>1, JournalShape DEF NoJournal

LEMMA JournalFacts ==
    ASSUME NEW j \in Journals
    PROVE  DOMAIN j \in SUBSET Sources /\ \A s \in DOMAIN j : j[s] \in Choices
  BY JournalShape

(* What an operation of the directory other than a crash may do. *)
Moves ==
    /\ disk' \in Disks /\ maybe' \in Maybes /\ Visible'
    /\ maybe'.journal \subseteq maybe.journal \cup {disk'.journal}
    /\ \A s \in Sources : maybe'.meta[s] \subseteq maybe.meta[s] \cup {disk'.meta[s]}

LEMMA UnsyncedMoves ==
    ASSUME Types, Visible, NEW d \in Disks, Unsynced(d)
    PROVE  Moves /\ disk' = d
  <1>1. /\ d.meta \in Manifests /\ d.bodies \in SUBSET Bodies /\ d.journal \in Journals
        /\ maybe.meta \in [Sources -> SUBSET Choices] /\ maybe.bodies \in [Bodies -> SUBSET BOOLEAN]
        /\ maybe.journal \in SUBSET Journals
    BY DEF Types, Disks, Maybes
  <1>2. /\ disk' = d
        /\ maybe'.meta = [s \in Sources |-> maybe.meta[s] \cup {d.meta[s]}]
        /\ maybe'.journal = maybe.journal \cup {d.journal}
    BY DEF Unsynced
  <1>3. maybe' \in Maybes
    <2>1. [s \in Sources |-> maybe.meta[s] \cup {d.meta[s]}] \in [Sources -> SUBSET Choices]
      BY <1>1 DEF Manifests, Choices
    <2>2. [b \in Bodies |-> maybe.bodies[b] \cup {b \in d.bodies}] \in [Bodies -> SUBSET BOOLEAN]
      BY <1>1
    <2>3. maybe.journal \cup {d.journal} \in SUBSET Journals BY <1>1
    <2> QED BY <2>1, <2>2, <2>3 DEF Unsynced, Maybes
  <1> QED BY <1>2, <1>3 DEF Moves, Visible

LEMMA SyncedMoves ==
    ASSUME Types, Visible, NEW d \in Disks, Synced(d)
    PROVE  Moves /\ disk' = d /\ Settled'
  <1>1. d.meta \in Manifests /\ d.bodies \in SUBSET Bodies /\ d.journal \in Journals
    BY DEF Disks
  <1>2. /\ disk' = d
        /\ maybe'.meta = [s \in Sources |-> {d.meta[s]}]
        /\ maybe'.journal = {d.journal}
    BY DEF Synced, Certain
  <1>3. maybe' \in Maybes
    <2>1. [s \in Sources |-> {d.meta[s]}] \in [Sources -> SUBSET Choices]
      BY <1>1 DEF Manifests, Choices
    <2>2. [b \in Bodies |-> {b \in d.bodies}] \in [Bodies -> SUBSET BOOLEAN] OBVIOUS
    <2>3. {d.journal} \in SUBSET Journals BY <1>1
    <2> QED BY <2>1, <2>2, <2>3 DEF Synced, Certain, Maybes
  <1> QED BY <1>2, <1>3 DEF Moves, Visible, Settled, Fixed

LEMMA SameMoves ==
    ASSUME Types, Visible, UNCHANGED diskVars
    PROVE  Moves /\ disk' = disk /\ maybe' = maybe
  BY DEF diskVars, Moves, Visible, Types

LEMMA EditTypes ==
    ASSUME Types
    PROVE  /\ \A s \in Sources, g \in Choices :
                 /\ WithMeta(s, g) \in Disks
                 /\ WithMeta(s, g).meta = [disk.meta EXCEPT ![s] = g]
                 /\ WithMeta(s, g).journal = disk.journal
           /\ \A j \in Journals : /\ WithJournal(j) \in Disks
                                  /\ WithJournal(j).meta = disk.meta
                                  /\ WithJournal(j).journal = j
           /\ \A bs \in SUBSET Bodies :
                 LET d == [disk EXCEPT !.bodies = bs]
                 IN  d \in Disks /\ d.meta = disk.meta /\ d.journal = disk.journal
  <1>1. disk \in Disks BY DEF Types
  <1>2. ASSUME NEW s \in Sources, NEW g \in Choices
        PROVE  /\ WithMeta(s, g) \in Disks
               /\ WithMeta(s, g).meta = [disk.meta EXCEPT ![s] = g]
               /\ WithMeta(s, g).journal = disk.journal
    BY <1>1 DEF WithMeta, Disks, Manifests, Choices
  <1>3. ASSUME NEW j \in Journals
        PROVE  WithJournal(j) \in Disks /\ WithJournal(j).meta = disk.meta /\ WithJournal(j).journal = j
    BY <1>1 DEF WithJournal, Disks
  <1>4. ASSUME NEW bs \in SUBSET Bodies
        PROVE  LET d == [disk EXCEPT !.bodies = bs]
               IN  d \in Disks /\ d.meta = disk.meta /\ d.journal = disk.journal
    BY <1>1 DEF Disks
  <1> QED BY <1>2, <1>3, <1>4

(* Only bodies change, or nothing does. *)
Calm == Moves /\ disk'.meta = disk.meta /\ disk'.journal = disk.journal

LEMMA CalmShrinks ==
    ASSUME Visible, Calm
    PROVE  /\ maybe'.journal \subseteq maybe.journal /\ disk.journal \in maybe'.journal
           /\ \A s \in Sources : maybe'.meta[s] \subseteq maybe.meta[s] /\ disk.meta[s] \in maybe'.meta[s]
  BY DEF Calm, Moves, Visible

LEMMA CalmKeeps ==
    ASSUME Visible, Whole, Undoable, Calm, UNCHANGED <<wholes, loose>>, Types
    PROVE  Whole' /\ Undoable' /\ Needed' \subseteq Needed
  <1>1. Whole'
    <2> SUFFICES ASSUME NEW j \in maybe'.journal
                 PROVE  \E w \in wholes : \A s \in Sources \ loose :
                            IF s \in DOMAIN j THEN w[s] = j[s] ELSE maybe'.meta[s] = {w[s]}
      BY DEF Whole
    <2>1. PICK w \in wholes : \A s \in Sources \ loose :
                 IF s \in DOMAIN j THEN w[s] = j[s] ELSE maybe.meta[s] = {w[s]}
      BY CalmShrinks DEF Whole
    <2>2. \A s \in Sources \ loose :
              IF s \in DOMAIN j THEN w[s] = j[s] ELSE maybe'.meta[s] = {w[s]}
      BY <2>1, CalmShrinks
    <2> QED BY <2>2
  <1>2. Undoable'
    <2>1. DOMAIN disk.journal \subseteq Sources BY JournalFacts DEF Types, Disks
    <2>2. disk'.journal = disk.journal /\ loose' = loose BY DEF Calm
    <2>3. ASSUME NEW s \in DOMAIN disk.journal \ loose, \E j \in maybe'.journal : s \notin DOMAIN j
          PROVE  maybe'.meta[s] = {disk.journal[s]}
      <3>1. maybe.meta[s] = {disk.journal[s]} BY <2>3, CalmShrinks DEF Undoable
      <3> QED BY <2>1, <3>1, CalmShrinks
    <2> QED BY <2>2, <2>3 DEF Undoable
  <1>3. Needed' \subseteq Needed
    <2>1. \A b \in Bodies : b[1] \in Sources BY DEF Bodies
    <2> QED BY <2>1, CalmShrinks DEF Needed
  <1> QED BY <1>1, <1>2, <1>3

(* Reclaiming bodies is calm, whichever are left behind. *)
LEMMA ReclaimCalm ==
    ASSUME Types, Visible, NEW bs, Reclaim(bs)
    PROVE  Calm
  <1>1. PICK gone : Unsynced(Without(gone)) BY DEF Reclaim
  <1>2. /\ Without(gone) \in Disks /\ Without(gone).meta = disk.meta
        /\ Without(gone).journal = disk.journal
    <2>1. disk.bodies \ gone \in SUBSET Bodies BY DEF Types, Disks
    <2> QED BY <2>1, EditTypes DEF Without
  <1> QED BY <1>1, <1>2, UnsyncedMoves DEF Calm

-----------------------------------------------------------------------------
(* Steps that change neither a manifest nor the journal.                   *)

LEMMA CalmStep ==
    ASSUME CacheInv, Calm, UNCHANGED <<wholes, loose>>, RunTypes', Progress',
           owned' \subseteq owned, lost' = lost,
           owned' = {} \/ pc \notin {"confirm", "discard"}
    PROVE  CacheInv'
  <1>1. Types' BY DEF Calm, Moves, Types
  <1>2. Visible' BY DEF Calm, Moves
  <1>3. Whole' /\ Undoable' /\ Needed' \subseteq Needed BY CalmKeeps DEF CacheInv
  <1>4. Kept' BY <1>3 DEF CacheInv, Kept
  <1> QED BY <1>1, <1>2, <1>3, <1>4 DEF CacheInv

LEMMA SameCalm == ASSUME CacheInv, UNCHANGED diskVars PROVE Calm /\ disk' = disk /\ maybe' = maybe
  BY SameMoves DEF Calm, CacheInv

(* Where a recovery ends, and where one that failed does. *)
LEMMA RecoveryEnds ==
    ASSUME CacheInv, pc \in Recovering, disk.journal = NoJournal, Calm, Recovered,
           UNCHANGED <<cont, staged, owned, histVars>>
    PROVE  CacheInv'
  <1>1. /\ UNCHANGED <<wholes, loose, lost>> /\ cont \in {"boot", "txn", "undo"}
        /\ disk'.journal = NoJournal
    BY DEF histVars, CacheInv, Progress, Calm
  <1>2. DOMAIN staged \in SUBSET Sources BY JournalFacts DEF CacheInv, Types, RunTypes
  <1>3. RunTypes' BY <1>1, <1>2 DEF Recovered, CacheInv, Types, RunTypes, Places, Recovering
  <1>4. Progress' BY <1>1 DEF Recovered, Progress, CacheInv, Recovering
  <1> QED BY <1>1, <1>3, <1>4, CalmStep DEF Recovering

LEMMA RecoveryFails ==
    ASSUME CacheInv, pc \in Recovering, NotRecovered, UNCHANGED <<cont, staged, owned, histVars>>
    PROVE  /\ RunTypes' /\ Progress' /\ UNCHANGED <<wholes, loose, lost, owned>>
           /\ pc' \in {"cleanup", "discard"} /\ (pc' = "cleanup" => owned = {})
  <1>1. UNCHANGED <<wholes, loose, lost>> /\ cont \in {"boot", "txn", "undo"}
    BY DEF histVars, CacheInv, Progress
  <1>2. RunTypes' BY <1>1 DEF NotRecovered, CacheInv, Types, RunTypes, Places, Recovering
  <1>3. Progress' BY <1>1 DEF NotRecovered, Progress, CacheInv, Recovering
  <1> QED BY <1>1, <1>2, <1>3 DEF NotRecovered, CacheInv, Progress

LEMMA RecoverStep == ASSUME CacheInv, Recover PROVE CacheInv'
  <1>0. /\ pc = "boot" /\ Calm /\ disk' = disk
        /\ UNCHANGED <<cont, staged, owned, histVars>>
    BY SameCalm DEF Recover, Same
  <1>1. CASE disk.journal = NoJournal
    BY <1>0, <1>1, RecoveryEnds DEF Recover, Recovering
  <1>2. CASE disk.journal # NoJournal
    <2>1. pc' = "restore" /\ todo' = DOMAIN disk.journal BY <1>2 DEF Recover
    <2>2. DOMAIN disk.journal \in SUBSET Sources BY JournalFacts DEF CacheInv, Types, Disks
    <2>3. RunTypes' BY <1>0, <2>1, <2>2 DEF CacheInv, Types, RunTypes, Places, Recovering, histVars
    <2>4. Progress' BY <1>0, <2>1 DEF CacheInv, Progress, Recovering, Undone
    <2> QED BY <1>0, <2>3, <2>4, CalmStep DEF histVars
  <1> QED BY <1>1, <1>2

LEMMA StartCycleStep == ASSUME CacheInv, StartCycle PROVE CacheInv'
  <1>1. Calm /\ disk' = disk /\ pc = "idle" /\ pc' = "stage" /\ todo' = Sources
        /\ UNCHANGED <<cont, staged, owned, histVars>>
    BY SameCalm DEF StartCycle, Same
  <1>2. RunTypes' BY <1>1 DEF CacheInv, Types, RunTypes, Places, histVars
  <1>3. Progress' BY <1>1 DEF Progress, Recovering
  <1> QED BY <1>1, <1>2, <1>3, CalmStep DEF histVars

LEMMA KeepBodyStep == ASSUME CacheInv, NEW s \in Sources, KeepBody(s) PROVE CacheInv'
  <1>1. Calm /\ pc = "stage" /\ pc' = "stage" /\ todo' = todo \ {s}
        /\ UNCHANGED <<cont, staged, owned, histVars>>
    BY SameCalm DEF KeepBody
  <1>2. RunTypes' BY <1>1 DEF CacheInv, Types, RunTypes, Places, histVars
  <1>3. Progress' BY <1>1 DEF Progress, Recovering
  <1> QED BY <1>1, <1>2, <1>3, CalmStep DEF histVars

LEMMA RevalidateStep == ASSUME CacheInv, NEW s \in Sources, Revalidate(s) PROVE CacheInv'
  <1>1. /\ pc = "stage" /\ pc' = "stage" /\ Synced(disk)
        /\ UNCHANGED <<cont, todo, staged, owned, histVars>>
    BY DEF Revalidate
  <1>2. disk \in Disks /\ Types /\ Visible BY DEF CacheInv, Types
  <1>3. Calm BY <1>1, <1>2, SyncedMoves DEF Calm
  <1>4. RunTypes' BY <1>1 DEF CacheInv, Types, RunTypes, Places, histVars
  <1>5. Progress' BY <1>1 DEF Progress, Recovering
  <1> QED BY <1>1, <1>3, <1>4, <1>5, CalmStep DEF histVars

LEMMA AdmitSteps == ASSUME CacheInv, Admit \/ DontAdmit PROVE CacheInv'
  <1>1. /\ Calm /\ disk' = disk /\ pc = "stage" /\ UNCHANGED <<todo, staged, owned, histVars>>
        /\ \/ pc' = "boot" /\ cont' = "txn"
           \/ pc' = "discard" /\ cont' = "undo"
    BY SameCalm DEF Admit, DontAdmit, Same
  <1>2. RunTypes' BY <1>1 DEF CacheInv, Types, RunTypes, Places, Recovering, histVars
  <1>3. Progress' BY <1>1 DEF Progress, Recovering
  <1> QED BY <1>1, <1>2, <1>3, CalmStep DEF histVars

LEMMA StageFailsStep ==
    ASSUME CacheInv, NEW s \in Sources, NEW g \in Gens, StageFails(s, g) PROVE CacheInv'
  <1>1. /\ pc = "stage" /\ pc' = "stage" /\ todo' = todo \ {s}
        /\ UNCHANGED <<cont, staged, owned, histVars>>
    BY DEF StageFails
  <1>2. disk \in Disks /\ Types /\ Visible BY DEF CacheInv, Types
  <1>3. Calm
    <2>1. CASE Synced(disk) BY <1>2, <2>1, SyncedMoves DEF Calm
    <2>2. CASE Unsynced([disk EXCEPT !.bodies = @ \cup {<<s, g>>}])
      <3>1. disk.bodies \cup {<<s, g>>} \in SUBSET Bodies BY <1>2 DEF Disks, Bodies
      <3> DEFINE d == [disk EXCEPT !.bodies = disk.bodies \cup {<<s, g>>}]
      <3>2. d \in Disks /\ d.meta = disk.meta /\ d.journal = disk.journal BY <1>2, <3>1, EditTypes
      <3>3. Unsynced(d) BY <2>2
      <3> HIDE DEF d
      <3> QED BY <1>2, <3>2, <3>3, UnsyncedMoves DEF Calm
    <2> QED BY <2>1, <2>2 DEF StageFails
  <1>4. RunTypes' BY <1>1 DEF CacheInv, Types, RunTypes, Places, histVars
  <1>5. Progress' BY <1>1 DEF Progress, Recovering
  <1> QED BY <1>1, <1>3, <1>4, <1>5, CalmStep DEF histVars

LEMMA CleanupStep == ASSUME CacheInv, Cleanup PROVE CacheInv'
  <1>1. pc = "cleanup" /\ pc' = "idle" /\ UNCHANGED <<cont, todo, staged, owned, histVars>>
    BY DEF Cleanup
  <1>2. Calm BY ReclaimCalm DEF Cleanup, CacheInv
  <1>3. RunTypes' BY <1>1 DEF CacheInv, Types, RunTypes, Places, histVars
  <1>4. Progress' BY <1>1 DEF CacheInv, Progress, Recovering
  <1> QED BY <1>1, <1>2, <1>3, <1>4, CalmStep DEF histVars

LEMMA CollectStep == ASSUME CacheInv, Collect PROVE CacheInv'
  <1>1. /\ pc = "collect" /\ pc' = "idle" /\ staged' = NoJournal
        /\ UNCHANGED <<cont, todo, owned, histVars>>
    BY DEF Collect
  <1>2. Calm BY ReclaimCalm DEF Collect, CacheInv
  <1>3. RunTypes' BY <1>1, NoJournalType DEF CacheInv, Types, RunTypes, Places, histVars
  <1>4. Progress' BY <1>1 DEF CacheInv, Progress, Recovering
  <1> QED BY <1>1, <1>2, <1>3, <1>4, CalmStep DEF histVars

(* What a discard removes is unselected, or its manifest was not read. *)
LEMMA DiscardCases ==
    ASSUME Discard
    PROVE  \/ UNCHANGED diskVars
           \/ \E unread \in SUBSET Sources : \E gone \in SUBSET Unselected(unread) :
                 /\ Unsynced(Without(gone)) \/ Synced(Without(gone))
                 /\ unread = {} \/ faults' = faults + 1
  <1>1. CASE UNCHANGED diskVars BY <1>1
  <1>2. CASE Synced(Without(Unselected({})))
    <2>1. {} \in SUBSET Sources /\ Unselected({}) \in SUBSET Unselected({}) OBVIOUS
    <2> QED BY <1>2, <2>1
  <1>3. CASE Fault /\ \E unread \in SUBSET Sources : \E gone \in SUBSET Unselected(unread) :
                Unsynced(Without(gone)) \/ (gone # {} /\ Synced(Without(gone)))
    <2>1. faults' = faults + 1 BY <1>3 DEF Fault
    <2> QED BY <1>3, <2>1
  <1> QED BY <1>1, <1>2, <1>3 DEF Discard

LEMMA DiscardCalm == ASSUME CacheInv, Discard PROVE Calm
  <1>1. CASE UNCHANGED diskVars BY <1>1, SameCalm
  <1>2. ASSUME NEW gone, Unsynced(Without(gone)) \/ Synced(Without(gone)) PROVE Calm
    <2>1. disk.bodies \ gone \in SUBSET Bodies /\ Types /\ Visible
      BY DEF CacheInv, Types, Disks
    <2>2. /\ Without(gone) \in Disks /\ Without(gone).meta = disk.meta
          /\ Without(gone).journal = disk.journal
      BY <2>1, EditTypes DEF Without
    <2>3. CASE Synced(Without(gone)) BY <2>1, <2>2, <2>3, SyncedMoves DEF Calm
    <2>4. CASE Unsynced(Without(gone)) BY <2>1, <2>2, <2>4, UnsyncedMoves DEF Calm
    <2> QED BY <1>2, <2>3, <2>4
  <1> QED BY <1>1, <1>2, DiscardCases

LEMMA DiscardStep == ASSUME CacheInv, Discard PROVE CacheInv'
  <1>1. /\ pc = "discard" /\ owned' = {} /\ UNCHANGED <<cont, todo, histVars>>
        /\ IF cont = "durable" THEN pc' = "collect" /\ staged' = staged
                               ELSE pc' = "idle" /\ staged' = NoJournal
    BY DEF Discard
  <1>2. Calm /\ Visible BY DiscardCalm DEF CacheInv
  <1>3. RunTypes' BY <1>1, NoJournalType DEF CacheInv, Types, RunTypes, Places, histVars
  <1>4. cont = "durable" =>
           maybe'.journal = {NoJournal} /\ \A s \in DOMAIN staged : maybe'.meta[s] = {staged[s]}
    <2>1. DOMAIN staged \in SUBSET Sources BY JournalFacts DEF CacheInv, Types, RunTypes
    <2>2. cont = "durable" =>
             maybe.journal = {NoJournal} /\ \A s \in DOMAIN staged : maybe.meta[s] = {staged[s]}
      BY <1>1 DEF CacheInv, Progress
    <2> QED BY <1>2, <2>1, <2>2, CalmShrinks
  <1>5. Progress' BY <1>1, <1>4 DEF Progress, Recovering
  <1> QED BY <1>1, <1>2, <1>3, <1>5, CalmStep DEF histVars

LEMMA RestartStep == ASSUME CacheInv, Restart PROVE CacheInv'
  <1>1. /\ Calm /\ pc' = "boot" /\ cont' = "boot" /\ todo' = {} /\ staged' = NoJournal /\ owned' = {}
        /\ UNCHANGED histVars
    BY SameCalm DEF Restart, Booting
  <1>2. RunTypes' BY <1>1, NoJournalType DEF CacheInv, Types, RunTypes, Places, Recovering, histVars
  <1>3. Progress' BY <1>1 DEF Progress, Recovering
  <1> QED BY <1>1, <1>2, <1>3, CalmStep DEF histVars

(* A body that is staged anew was not there; if a crash needed it, it is   *)
(* noted as lost.                                                          *)
LEMMA StageStep ==
    ASSUME CacheInv, NEW s \in Sources, NEW g \in Gens, Stage(s, g) PROVE CacheInv'
  <1>0. /\ pc = "stage" /\ pc' = "stage" /\ todo' = todo \ {s} /\ UNCHANGED <<cont, wholes, loose>>
        /\ staged' = [t \in DOMAIN staged \cup {s} |-> IF t = s THEN g ELSE staged[t]]
    BY DEF Stage
  <1>1. staged' \in Journals
    <2>1. DOMAIN staged \in SUBSET Sources /\ \A t \in DOMAIN staged : staged[t] \in Choices
      BY JournalFacts DEF CacheInv, Types, RunTypes
    <2>2. staged' \in [DOMAIN staged \cup {s} -> Choices] BY <1>0, <2>1 DEF Choices
    <2>3. DOMAIN staged \cup {s} \in SUBSET Sources BY <2>1
    <2> QED BY <2>2, <2>3, JournalShape
  <1>2. <<s, g>> \in Bodies BY DEF Bodies
  <1>3. Calm
    <2>1. CASE UNCHANGED diskVars BY <2>1, SameCalm
    <2>2. CASE Synced([disk EXCEPT !.bodies = @ \cup {<<s, g>>}])
      <3>1. disk.bodies \cup {<<s, g>>} \in SUBSET Bodies BY <1>2 DEF CacheInv, Types, Disks
      <3> DEFINE d == [disk EXCEPT !.bodies = disk.bodies \cup {<<s, g>>}]
      <3>2. d \in Disks /\ d.meta = disk.meta /\ d.journal = disk.journal
        BY <3>1, EditTypes DEF CacheInv
      <3>3. Synced(d) BY <2>2
      <3> HIDE DEF d
      <3> QED BY <3>2, <3>3, SyncedMoves DEF Calm, CacheInv
    <2> QED BY <2>1, <2>2 DEF Stage
  <1>4. owned' \in SUBSET Bodies BY <1>2 DEF Stage, CacheInv, Types, RunTypes
  <1>5. RunTypes' BY <1>0, <1>1, <1>4 DEF CacheInv, Types, RunTypes, Places
  <1>6. Progress' BY <1>0 DEF Progress, Recovering
  <1>7. Whole' /\ Undoable' /\ Needed' \subseteq Needed BY <1>0, <1>3, CalmKeeps DEF CacheInv
  <1>8. Kept'
    <2>1. owned \cap Needed \subseteq lost BY <1>0 DEF CacheInv, Kept
    <2>2. CASE UNCHANGED <<owned, lost>> BY <1>7, <2>1, <2>2 DEF Kept
    <2>3. CASE owned' = owned \cup {<<s, g>>} /\ lost' = lost \cup (Needed \cap {<<s, g>>})
      BY <1>7, <2>1, <2>3 DEF Kept
    <2> QED BY <2>2, <2>3 DEF Stage
  <1> QED BY <1>3, <1>5, <1>6, <1>7, <1>8 DEF CacheInv, Types, Calm, Moves

-----------------------------------------------------------------------------
(* Recovery.                                                               *)

(* A manifest is put back, durably or not. *)
PutBack(s) ==
    /\ Moves /\ s \in DOMAIN disk.journal /\ disk'.journal = disk.journal
    /\ disk'.meta = [disk.meta EXCEPT ![s] = disk.journal[s]]

LEMMA PutBackKeeps ==
    ASSUME CacheInv, NEW s \in Sources, PutBack(s), UNCHANGED <<wholes, loose>>
    PROVE  Whole' /\ Undoable' /\ Needed' \subseteq Needed
  <1>0. /\ disk.journal \in maybe.journal /\ s \in DOMAIN disk.journal
        /\ disk.meta \in [Sources -> Choices]
        /\ \A t \in Sources : disk.meta[t] \in maybe.meta[t]
    BY DEF CacheInv, Visible, PutBack, Types, Disks, Manifests, Choices
  <1>1. /\ maybe'.journal \subseteq maybe.journal
        /\ \A t \in Sources : maybe'.meta[t] \subseteq maybe.meta[t] \cup {disk'.meta[t]}
        /\ \A t \in Sources : disk'.meta[t] \in maybe'.meta[t]
    BY <1>0 DEF PutBack, Moves, Visible
  <1>2. disk'.meta[s] = disk.journal[s] /\ \A t \in Sources \ {s} : disk'.meta[t] = disk.meta[t]
    BY <1>0 DEF PutBack
  <1>3. \A t \in Sources \ {s} : maybe'.meta[t] \subseteq maybe.meta[t] BY <1>0, <1>1, <1>2
  <1>4. ASSUME s \notin loose, \E j \in maybe.journal : s \notin DOMAIN j
        PROVE  maybe.meta[s] = {disk.journal[s]} /\ maybe'.meta[s] = {disk.journal[s]}
    <2>1. maybe.meta[s] = {disk.journal[s]} BY <1>0, <1>4 DEF CacheInv, Undoable
    <2> QED BY <1>1, <1>2, <2>1
  <1>5. Whole'
    <2> SUFFICES ASSUME NEW j \in maybe'.journal
                 PROVE  \E w \in wholes : \A t \in Sources \ loose :
                            IF t \in DOMAIN j THEN w[t] = j[t] ELSE maybe'.meta[t] = {w[t]}
      BY DEF Whole
    <2>1. j \in maybe.journal BY <1>1
    <2>2. PICK w \in wholes : \A t \in Sources \ loose :
                 IF t \in DOMAIN j THEN w[t] = j[t] ELSE maybe.meta[t] = {w[t]}
      BY <2>1 DEF CacheInv, Whole
    <2>3. ASSUME NEW t \in Sources \ loose, t \notin DOMAIN j PROVE maybe'.meta[t] = {w[t]}
      <3>1. maybe.meta[t] = {w[t]} BY <2>2, <2>3
      <3>2. CASE t = s BY <1>4, <2>1, <2>3, <3>1, <3>2
      <3>3. CASE t # s BY <1>1, <1>3, <3>1, <3>3
      <3> QED BY <3>2, <3>3
    <2> QED BY <2>2, <2>3
  <1>6. Undoable'
    <2>1. DOMAIN disk.journal \subseteq Sources BY JournalFacts DEF CacheInv, Types, Disks
    <2>2. ASSUME NEW t \in DOMAIN disk.journal \ loose, \E j \in maybe'.journal : t \notin DOMAIN j
          PROVE  maybe'.meta[t] = {disk.journal[t]}
      <3>1. maybe.meta[t] = {disk.journal[t]} BY <1>1, <2>2 DEF CacheInv, Undoable
      <3>2. CASE t = s BY <1>1, <1>4, <2>2, <3>2
      <3>3. CASE t # s BY <1>1, <1>3, <2>1, <3>1, <3>3
      <3> QED BY <3>2, <3>3
    <2> QED BY <2>2 DEF Undoable, PutBack
  <1>7. Needed' \subseteq Needed
    <2> SUFFICES ASSUME NEW b \in Needed' PROVE b \in Needed OBVIOUS
    <2>1. b \in Bodies /\ b[1] \notin loose /\ b[1] \in Sources BY DEF Needed, Bodies
    <2>2. PICK j \in maybe'.journal : IF b[1] \in DOMAIN j THEN b[2] = j[b[1]] ELSE b[2] \in maybe'.meta[b[1]]
      BY DEF Needed
    <2>3. j \in maybe.journal BY <1>1
    <2>4. CASE b[1] \in DOMAIN j BY <2>1, <2>2, <2>3, <2>4 DEF Needed
    <2>5. CASE b[1] \notin DOMAIN j
      <3>1. b[2] \in maybe.meta[b[1]]
        <4>1. CASE b[1] = s BY <1>4, <2>1, <2>2, <2>3, <2>5, <4>1
        <4>2. CASE b[1] # s BY <1>3, <2>1, <2>2, <2>5, <4>2
        <4> QED BY <4>1, <4>2
      <3> QED BY <2>1, <2>3, <2>5, <3>1 DEF Needed
    <2> QED BY <2>4, <2>5
  <1> QED BY <1>5, <1>6, <1>7

LEMMA RestoreStep == ASSUME CacheInv, NEW s \in Sources, Restore(s) PROVE CacheInv'
  <1> DEFINE d == WithMeta(s, disk.journal[s])
  <1>0. pc = "restore" /\ s \in todo /\ UNCHANGED <<cont, staged, owned, histVars>>
    BY DEF Restore
  <1>1. /\ s \in DOMAIN disk.journal /\ disk.journal[s] \in Choices
        /\ todo \subseteq DOMAIN disk.journal /\ Undone(DOMAIN disk.journal \ todo)
        /\ DOMAIN disk.journal \in SUBSET Sources /\ disk.meta \in [Sources -> Choices]
    BY <1>0, JournalFacts DEF CacheInv, Progress, Types, Disks, Manifests, Choices
  <1>2. /\ d \in Disks /\ d.journal = disk.journal
        /\ d.meta = [disk.meta EXCEPT ![s] = disk.journal[s]]
    BY <1>1, EditTypes DEF CacheInv
  <1>3. Unsynced(d) => PutBack(s) BY <1>1, <1>2, UnsyncedMoves DEF CacheInv, PutBack
  <1>4. Synced(d) => PutBack(s) BY <1>1, <1>2, SyncedMoves DEF CacheInv, PutBack
  <1> HIDE DEF d
  <1>5. UNCHANGED <<wholes, loose, lost>> BY <1>0 DEF histVars
  <1>6. ASSUME PutBack(s), RunTypes', Progress' PROVE CacheInv'
    <2>1. Whole' /\ Undoable' /\ Needed' \subseteq Needed BY <1>5, <1>6, PutBackKeeps
    <2>2. Kept' BY <1>0, <1>5, <2>1 DEF CacheInv, Kept
    <2> QED BY <1>6, <2>1, <2>2 DEF CacheInv, Types, PutBack, Moves
  <1>7. CASE /\ Unsynced(d) \/ Synced(d)
             /\ todo' = todo \ {s} /\ pc' = IF todo' = {} THEN "sync" ELSE "restore"
    <2>1. PutBack(s) BY <1>3, <1>4, <1>7
    <2>2. RunTypes' BY <1>0, <1>5, <1>7 DEF CacheInv, Types, RunTypes, Places, Recovering
    <2>3. disk'.journal = disk.journal /\ \A t \in DOMAIN disk.journal \ todo' : disk'.meta[t] = disk.journal[t]
      BY <1>1, <1>7, <2>1 DEF PutBack, Undone
    <2>4. Progress' BY <1>0, <1>1, <1>7, <2>3 DEF CacheInv, Progress, Recovering, Undone
    <2> QED BY <1>6, <2>1, <2>2, <2>4
  <1>8. CASE (Unsynced(d) \/ UNCHANGED diskVars) /\ NotRecovered
    <2>1. /\ RunTypes' /\ Progress' /\ UNCHANGED <<wholes, loose, lost, owned>>
      BY <1>0, <1>8, RecoveryFails DEF Recovering
    <2>2. CASE Unsynced(d) BY <1>3, <1>6, <2>1, <2>2
    <2>3. CASE UNCHANGED diskVars
      <3>1. Calm BY <2>3, SameCalm
      <3> QED BY <1>0, <2>1, <3>1, CalmStep
    <2> QED BY <1>8, <2>2, <2>3
  <1>9. \/ /\ IF disk.journal[s] = NoBody THEN Unsynced(d) /\ UNCHANGED faults ELSE Wrote(d)
           /\ todo' = todo \ {s} /\ pc' = IF todo' = {} THEN "sync" ELSE "restore"
        \/ NotWrote(d) /\ NotRecovered
    BY DEF Restore, d
  <1> QED BY <1>7, <1>8, <1>9 DEF Wrote, NotWrote

LEMMA FailedStep ==
    ASSUME CacheInv, pc \in Recovering, UNCHANGED diskVars, NotRecovered,
           UNCHANGED <<cont, staged, owned, histVars>>
    PROVE  CacheInv'
  <1>1. Calm BY SameCalm
  <1>2. RunTypes' /\ Progress' /\ UNCHANGED <<wholes, loose, lost, owned>> BY RecoveryFails
  <1> QED BY <1>1, <1>2, CalmStep DEF Recovering

LEMMA RestoreSyncedStep == ASSUME CacheInv, RestoreSynced PROVE CacheInv'
  <1>0. pc = "sync" /\ UNCHANGED <<cont, staged, owned, loose, lost>> BY DEF RestoreSynced
  <1>1. CASE /\ Wrote(disk) /\ pc' = "unlink" /\ UNCHANGED todo
             /\ wholes' = {w \in wholes : \A s \in DOMAIN disk.journal \ loose : w[s] = disk.journal[s]}
    <2>1. disk \in Disks /\ Types /\ Visible BY DEF CacheInv, Types
    <2>2. Moves /\ disk' = disk /\ Settled' BY <1>1, <2>1, SyncedMoves DEF Wrote
    <2>3. Calm BY <2>2 DEF Calm
    <2>4. RunTypes' BY <1>0, <1>1 DEF CacheInv, Types, RunTypes, Places, Recovering
    <2>5. Progress' BY <1>0, <1>1, <2>2 DEF CacheInv, Progress, Recovering, Undone
    <2>6. DOMAIN disk.journal \in SUBSET Sources BY JournalFacts DEF CacheInv, Types, Disks
    <2>7. Whole'
      <3>1. maybe'.journal = {disk.journal} BY <2>2 DEF Settled
      <3>2. PICK w \in wholes : \A s \in Sources \ loose :
                IF s \in DOMAIN disk.journal THEN w[s] = disk.journal[s] ELSE maybe.meta[s] = {w[s]}
        BY DEF CacheInv, Visible, Whole
      <3>3. w \in wholes' BY <1>1, <2>6, <3>2
      <3>4. \A s \in Sources \ loose :
                IF s \in DOMAIN disk.journal THEN w[s] = disk.journal[s] ELSE maybe'.meta[s] = {w[s]}
        BY <2>1, <2>3, <3>2, CalmShrinks
      <3> QED BY <1>0, <3>1, <3>3, <3>4 DEF Whole
    <2>8. Undoable' BY <2>2 DEF Undoable, Settled
    <2>9. Needed' \subseteq Needed
      <3>1. \A b \in Bodies : b[1] \in Sources BY DEF Bodies
      <3> QED BY <1>0, <2>1, <2>3, <3>1, CalmShrinks DEF Needed
    <2>10. Kept' BY <1>0, <2>9 DEF CacheInv, Kept
    <2> QED BY <2>2, <2>4, <2>5, <2>7, <2>8, <2>10 DEF CacheInv, Types, Moves
  <1>2. CASE UNCHANGED diskVars /\ NotRecovered /\ UNCHANGED wholes
    BY <1>0, <1>2, FailedStep DEF histVars, Recovering
  <1> QED BY <1>1, <1>2 DEF RestoreSynced

(* The journal goes once what it restores is durable. *)
LEMMA RestoreUnlinksStep == ASSUME CacheInv, RestoreUnlinks PROVE CacheInv'
  <1>0. pc = "unlink" /\ UNCHANGED <<cont, staged, owned, histVars>> BY DEF RestoreUnlinks
  <1>1. CASE Unsynced(WithJournal(NoJournal)) /\ pc' = "unlinked" /\ UNCHANGED todo
    <2>0. Settled /\ Undone(DOMAIN disk.journal) BY <1>0 DEF CacheInv, Progress
    <2>1. /\ WithJournal(NoJournal) \in Disks /\ WithJournal(NoJournal).meta = disk.meta
          /\ WithJournal(NoJournal).journal = NoJournal
      BY EditTypes, NoJournalType DEF CacheInv
    <2>2. Moves /\ disk'.meta = disk.meta /\ disk'.journal = NoJournal
      BY <1>1, <2>1, UnsyncedMoves DEF CacheInv
    <2>3. /\ maybe'.journal \subseteq {disk.journal, NoJournal}
          /\ \A s \in Sources : maybe'.meta[s] = {disk.meta[s]}
      BY <2>0, <2>2 DEF Moves, Settled, Fixed, Visible
    <2>4. UNCHANGED <<wholes, loose, lost>> BY <1>0 DEF histVars
    <2>5. RunTypes' BY <1>0, <1>1, <2>4 DEF CacheInv, Types, RunTypes, Places, Recovering
    <2>6. Progress' BY <1>0, <1>1, <2>2 DEF CacheInv, Progress, Recovering
    <2>7. PICK w \in wholes : \A s \in Sources \ loose :
              IF s \in DOMAIN disk.journal THEN w[s] = disk.journal[s] ELSE maybe.meta[s] = {w[s]}
      BY DEF CacheInv, Visible, Whole
    <2>8. \A s \in Sources \ loose : disk.meta[s] = w[s]
      BY <2>0, <2>7 DEF Undone, Settled, Fixed
    <2>9. Whole' BY <2>3, <2>4, <2>7, <2>8, NoJournalType DEF Whole
    <2>10. Undoable' BY <2>2, NoJournalType DEF Undoable
    <2>11. Needed' \subseteq Needed
      <3> SUFFICES ASSUME NEW b \in Needed' PROVE b \in Needed OBVIOUS
      <3>1. b \in Bodies /\ b[1] \notin loose /\ b[1] \in Sources BY <2>4 DEF Needed, Bodies
      <3>2. PICK j \in maybe'.journal :
               IF b[1] \in DOMAIN j THEN b[2] = j[b[1]] ELSE b[2] \in maybe'.meta[b[1]]
        BY DEF Needed
      <3>3. IF b[1] \in DOMAIN disk.journal THEN b[2] = disk.journal[b[1]] ELSE b[2] \in maybe.meta[b[1]]
        BY <2>0, <2>3, <3>1, <3>2, NoJournalType DEF Undone, Settled, Fixed
      <3> QED BY <3>1, <3>3 DEF CacheInv, Visible, Needed
    <2>12. Kept' BY <1>0, <2>4, <2>11 DEF CacheInv, Kept
    <2> QED BY <2>2, <2>5, <2>6, <2>9, <2>10, <2>12 DEF CacheInv, Types, Moves
  <1>2. CASE UNCHANGED diskVars /\ NotRecovered
    BY <1>0, <1>2, FailedStep DEF Recovering
  <1> QED BY <1>1, <1>2 DEF RestoreUnlinks

LEMMA RestoreEndsStep == ASSUME CacheInv, RestoreEnds PROVE CacheInv'
  <1>0. pc = "unlinked" /\ UNCHANGED <<cont, staged, owned, histVars>> /\ disk.journal = NoJournal
    BY DEF RestoreEnds, CacheInv, Progress
  <1>1. CASE Wrote(disk) /\ Recovered
    <2>1. disk \in Disks BY DEF CacheInv, Types
    <2>2. Calm BY <1>1, <2>1, SyncedMoves DEF Calm, CacheInv, Wrote
    <2> QED BY <1>0, <1>1, <2>2, RecoveryEnds DEF Recovering
  <1>2. CASE UNCHANGED diskVars /\ NotRecovered
    BY <1>0, <1>2, FailedStep DEF Recovering
  <1> QED BY <1>1, <1>2 DEF RestoreEnds

-----------------------------------------------------------------------------
(* The transaction.                                                        *)

LEMMA Assembled ==
    ASSUME CacheInv, Moves, RunTypes', Progress', Whole', Undoable', Needed' \subseteq Needed,
           owned' \subseteq owned, lost' = lost, pc \notin {"confirm", "discard"}
    PROVE  CacheInv'
  <1>1. Kept' BY DEF CacheInv, Kept
  <1> QED BY <1>1 DEF CacheInv, Types, Moves

LEMMA UndoRuns ==
    ASSUME CacheInv, Undo, UNCHANGED <<staged, owned, histVars>>
    PROVE  RunTypes' /\ Progress'
  <1>1. RunTypes' BY DEF Undo, CacheInv, Types, RunTypes, Places, Recovering, histVars
  <1>2. Progress' BY DEF Undo, Progress, Recovering
  <1> QED BY <1>1, <1>2

LEMMA UndoSame ==
    ASSUME CacheInv, Undo, UNCHANGED <<staged, owned, histVars>>, UNCHANGED diskVars,
           pc \notin {"confirm", "discard"}
    PROVE  CacheInv'
  BY UndoRuns, SameCalm, CalmStep DEF histVars

(* With no journal there, every manifest but a forgotten one is certain,   *)
(* and the journal that is written restores what they select.              *)
LEMMA WriteJournalStep == ASSUME CacheInv, WriteJournal PROVE CacheInv'
  <1> DEFINE J == [s \in DOMAIN staged |-> disk.meta[s]]
  <1>0. /\ pc = "journal" /\ UNCHANGED <<staged, owned, loose, lost>>
        /\ disk.journal = NoJournal /\ todo = DOMAIN staged
    BY DEF WriteJournal, CacheInv, Progress
  <1>1. /\ DOMAIN staged \in SUBSET Sources /\ disk.meta \in [Sources -> Choices]
        /\ disk.meta \in Manifests /\ \A s \in DOMAIN staged : staged[s] \in Choices
    BY JournalFacts DEF CacheInv, Types, RunTypes, Disks, Manifests, Choices
  <1>2. J \in Journals /\ DOMAIN J = DOMAIN staged /\ \A s \in DOMAIN staged : J[s] = disk.meta[s]
    <2>1. J \in [DOMAIN staged -> Choices] BY <1>1
    <2> QED BY <1>1, <2>1, JournalShape
  <1>3. WithJournal(J) \in Disks /\ WithJournal(J).meta = disk.meta /\ WithJournal(J).journal = J
    BY <1>2, EditTypes DEF CacheInv
  <1> DEFINE d == WithJournal(J)
  <1>4. \/ Wrote(d) /\ pc' = "write" /\ wholes' = {disk.meta, Proposed} /\ UNCHANGED <<cont, todo>>
        \/ NotWrote(d) /\ Undo /\ UNCHANGED wholes
    BY DEF WriteJournal
  <1> HIDE DEF d, J
  <1>5. d \in Disks /\ d.meta = disk.meta /\ d.journal = J BY <1>3 DEF d
  <1>6. /\ NoJournal \in maybe.journal /\ DOMAIN NoJournal = {}
        /\ \A s \in Sources : disk.meta[s] \in maybe.meta[s]
    BY <1>0, NoJournalType DEF CacheInv, Visible
  <1>7. PICK w \in wholes : \A s \in Sources \ loose : maybe.meta[s] = {w[s]}
    BY <1>6 DEF CacheInv, Whole
  <1>8. \A s \in Sources \ loose : maybe.meta[s] = {disk.meta[s]} /\ w[s] = disk.meta[s]
    BY <1>6, <1>7
  <1>9. ASSUME Moves, disk' = d PROVE Needed' \subseteq Needed
    <2>1. /\ maybe'.journal \subseteq maybe.journal \cup {J}
          /\ \A s \in Sources : maybe'.meta[s] \subseteq maybe.meta[s]
      BY <1>5, <1>6, <1>9 DEF Moves
    <2> SUFFICES ASSUME NEW b \in Needed' PROVE b \in Needed OBVIOUS
    <2>2. b \in Bodies /\ b[1] \notin loose /\ b[1] \in Sources BY <1>0 DEF Needed, Bodies
    <2>3. PICK j \in maybe'.journal :
             IF b[1] \in DOMAIN j THEN b[2] = j[b[1]] ELSE b[2] \in maybe'.meta[b[1]]
      BY DEF Needed
    <2>4. CASE j = J
      <3>1. b[2] \in maybe.meta[b[1]] BY <1>2, <1>6, <2>1, <2>2, <2>3, <2>4
      <3> QED BY <1>6, <2>2, <3>1 DEF Needed
    <2>5. CASE j \in maybe.journal BY <2>1, <2>2, <2>3, <2>5 DEF Needed
    <2> QED BY <2>1, <2>4, <2>5
  <1>10. CASE Synced(d) /\ pc' = "write" /\ wholes' = {disk.meta, Proposed} /\ UNCHANGED <<cont, todo>>
    <2>1. Moves /\ disk' = d /\ Settled' BY <1>5, <1>10, SyncedMoves DEF CacheInv
    <2>2. Proposed \in Manifests BY <1>1 DEF Proposed, Manifests, Choices
    <2>3. Proposed' = Proposed BY <1>0, <1>5, <2>1 DEF Proposed
    <2>4. RunTypes' BY <1>0, <1>1, <1>10, <2>2 DEF CacheInv, Types, RunTypes, Places
    <2>5. Progress' BY <1>0, <1>2, <1>5, <1>10, <2>1, <2>3 DEF Progress, Recovering, Done
    <2>6. maybe'.journal = {J} /\ \A s \in Sources : maybe'.meta[s] = {disk.meta[s]}
      BY <1>5, <2>1 DEF Settled, Fixed
    <2>7. Whole'
      <3>1. \A s \in Sources : IF s \in DOMAIN J THEN disk.meta[s] = J[s] ELSE maybe'.meta[s] = {disk.meta[s]}
        BY <1>2, <2>6
      <3> QED BY <1>10, <2>6, <3>1 DEF Whole
    <2>8. Undoable' BY <1>5, <2>1, <2>6 DEF Undoable
    <2> QED BY <1>0, <1>9, <2>1, <2>4, <2>5, <2>7, <2>8, Assembled
  <1>11. CASE Unsynced(d) /\ Undo /\ UNCHANGED wholes
    <2>1. Moves /\ disk' = d BY <1>5, <1>11, UnsyncedMoves DEF CacheInv
    <2>2. RunTypes' /\ Progress' BY <1>0, <1>11, UndoRuns DEF histVars
    <2>3. /\ maybe'.journal \subseteq maybe.journal \cup {J}
          /\ \A s \in Sources : maybe'.meta[s] \subseteq maybe.meta[s] /\ disk.meta[s] \in maybe'.meta[s]
      BY <1>5, <1>6, <2>1 DEF Moves, Visible
    <2>4. \A s \in Sources \ loose : maybe'.meta[s] = {disk.meta[s]} BY <1>8, <2>3
    <2>5. Whole'
      <3>1. ASSUME NEW j \in maybe'.journal
            PROVE  \E x \in wholes : \A s \in Sources \ loose :
                       IF s \in DOMAIN j THEN x[s] = j[s] ELSE maybe'.meta[s] = {x[s]}
        <4>1. CASE j = J BY <1>2, <1>7, <1>8, <2>4, <4>1
        <4>2. CASE j \in maybe.journal
          <5>1. PICK x \in wholes : \A s \in Sources \ loose :
                   IF s \in DOMAIN j THEN x[s] = j[s] ELSE maybe.meta[s] = {x[s]}
            BY <4>2 DEF CacheInv, Whole
          <5>2. \A s \in Sources \ loose : maybe'.meta[s] = maybe.meta[s] BY <1>8, <2>4
          <5> QED BY <5>1, <5>2
        <4> QED BY <2>3, <4>1, <4>2
      <3> QED BY <1>0, <1>11, <3>1 DEF Whole
    <2>6. Undoable' BY <1>0, <1>1, <1>2, <1>5, <2>1, <2>4 DEF Undoable
    <2> QED BY <1>0, <1>9, <2>1, <2>2, <2>5, <2>6, Assembled
  <1>12. CASE UNCHANGED diskVars /\ Undo /\ UNCHANGED wholes
    BY <1>0, <1>12, UndoSame DEF histVars
  <1> QED BY <1>4, <1>10, <1>11, <1>12 DEF Wrote, NotWrote

(* While the journal is there for certain, a manifest it holds is nobody's *)
(* concern: a crash puts it back.                                          *)
LEMMA WriteManifestStep == ASSUME CacheInv, NEW s \in Sources, WriteManifest(s) PROVE CacheInv'
  <1> DEFINE d == WithMeta(s, staged[s])
  <1>0. pc = "write" /\ s \in todo /\ UNCHANGED <<staged, owned, histVars>> BY DEF WriteManifest
  <1>1. /\ maybe.journal = {disk.journal} /\ Fixed /\ DOMAIN disk.journal = DOMAIN staged
        /\ todo \subseteq DOMAIN staged /\ Done(DOMAIN staged \ todo) /\ Proposed \in wholes
        /\ s \in DOMAIN staged /\ DOMAIN staged \in SUBSET Sources /\ staged[s] \in Choices
        /\ disk.meta \in [Sources -> Choices]
    BY <1>0, JournalFacts DEF CacheInv, Progress, Settled, Types, RunTypes, Disks, Manifests, Choices
  <1>2. /\ d \in Disks /\ d.journal = disk.journal /\ d.meta = [disk.meta EXCEPT ![s] = staged[s]]
    BY <1>1, EditTypes DEF CacheInv
  <1>3. \/ Wrote(d) /\ todo' = todo \ {s} /\ pc' = (IF todo' = {} THEN "remove" ELSE "write") /\ UNCHANGED cont
        \/ NotWrote(d) /\ Undo
        \/ Same /\ Undo
    BY DEF WriteManifest
  <1> HIDE DEF d
  <1>4. UNCHANGED <<wholes, loose, lost>> BY <1>0 DEF histVars
  <1>5. ASSUME Moves, disk' = d PROVE Whole' /\ Undoable' /\ Needed' \subseteq Needed
    <2>1. /\ maybe'.journal = {disk.journal} /\ disk'.journal = disk.journal
          /\ \A t \in Sources \ DOMAIN staged : maybe'.meta[t] = maybe.meta[t]
      <3>1. disk'.journal = disk.journal /\ \A t \in Sources \ {s} : disk'.meta[t] = disk.meta[t]
        BY <1>1, <1>2, <1>5
      <3>2. maybe'.journal = {disk.journal} BY <1>1, <1>5, <3>1 DEF Moves, Visible
      <3>3. \A t \in Sources \ {s} : maybe'.meta[t] = {disk.meta[t]} /\ maybe.meta[t] = {disk.meta[t]}
        BY <1>1, <1>5, <3>1 DEF Moves, Visible, Fixed
      <3> QED BY <1>1, <3>1, <3>2, <3>3
    <2>2. PICK w \in wholes : \A t \in Sources \ loose :
             IF t \in DOMAIN disk.journal THEN w[t] = disk.journal[t] ELSE maybe.meta[t] = {w[t]}
      BY <1>1 DEF CacheInv, Whole
    <2>3. Whole' BY <1>1, <1>4, <2>1, <2>2 DEF Whole
    <2>4. Undoable' BY <2>1 DEF Undoable
    <2>5. \A b \in Bodies : b[1] \in Sources BY DEF Bodies
    <2>6. Needed' \subseteq Needed BY <1>1, <1>4, <2>1, <2>5 DEF Needed
    <2> QED BY <2>3, <2>4, <2>6
  <1>6. CASE /\ Synced(d) /\ todo' = todo \ {s}
             /\ pc' = (IF todo' = {} THEN "remove" ELSE "write") /\ UNCHANGED cont
    <2>1. Moves /\ disk' = d /\ Settled' BY <1>2, <1>6, SyncedMoves DEF CacheInv
    <2>2. Proposed' = Proposed BY <1>0, <1>1, <1>2, <2>1 DEF Proposed
    <2>3. RunTypes' BY <1>0, <1>4, <1>6 DEF CacheInv, Types, RunTypes, Places
    <2>4. \A t \in DOMAIN staged \ todo' : disk'.meta[t] = staged[t]
      BY <1>1, <1>2, <1>6, <2>1 DEF Done
    <2>5. Progress' BY <1>0, <1>1, <1>2, <1>4, <1>6, <2>1, <2>2, <2>4 DEF Progress, Recovering, Done
    <2> QED BY <1>0, <1>4, <1>5, <2>1, <2>3, <2>5, Assembled
  <1>7. CASE Unsynced(d) /\ Undo
    <2>1. Moves /\ disk' = d BY <1>2, <1>7, UnsyncedMoves DEF CacheInv
    <2>2. RunTypes' /\ Progress' BY <1>0, <1>7, UndoRuns
    <2> QED BY <1>0, <1>4, <1>5, <2>1, <2>2, Assembled
  <1>8. CASE UNCHANGED diskVars /\ Undo BY <1>0, <1>8, UndoSame
  <1> QED BY <1>3, <1>6, <1>7, <1>8 DEF Wrote, NotWrote, Same

(* The journal goes when every manifest is the proposed one, for certain. *)
LEMMA RemoveJournalStep == ASSUME CacheInv, RemoveJournal PROVE CacheInv'
  <1>0. pc = "remove" /\ UNCHANGED <<staged, owned, histVars>> BY DEF RemoveJournal
  <1>1. CASE Unsynced(WithJournal(NoJournal)) /\ pc' = "confirm" /\ UNCHANGED <<cont, todo>>
    <2>0. /\ maybe.journal = {disk.journal} /\ Fixed /\ Done(DOMAIN staged) /\ Proposed \in wholes
          /\ DOMAIN NoJournal = {} /\ UNCHANGED <<wholes, loose, lost>>
      BY <1>0, NoJournalType DEF CacheInv, Progress, Settled, histVars
    <2>1. /\ WithJournal(NoJournal) \in Disks /\ WithJournal(NoJournal).meta = disk.meta
          /\ WithJournal(NoJournal).journal = NoJournal
      BY EditTypes, NoJournalType DEF CacheInv
    <2>2. Moves /\ disk'.meta = disk.meta /\ disk'.journal = NoJournal
      BY <1>1, <2>1, UnsyncedMoves DEF CacheInv
    <2>3. /\ maybe'.journal \subseteq {disk.journal, NoJournal}
          /\ \A s \in Sources : maybe'.meta[s] = {disk.meta[s]} /\ maybe.meta[s] = {disk.meta[s]}
      BY <2>0, <2>2 DEF Moves, Fixed, Visible
    <2>4. Proposed' = Proposed BY <1>0, <2>2 DEF Proposed
    <2>5. RunTypes' BY <1>0, <1>1, <2>0 DEF CacheInv, Types, RunTypes, Places
    <2>6. Progress' BY <1>0, <1>1, <2>0, <2>2, <2>3, <2>4 DEF Progress, Recovering, Done, Fixed
    <2>7. \A s \in Sources : disk.meta[s] = Proposed[s] BY <2>0 DEF Proposed, Done
    <2>8. PICK w \in wholes : \A s \in Sources \ loose :
              IF s \in DOMAIN disk.journal THEN w[s] = disk.journal[s] ELSE maybe.meta[s] = {w[s]}
      BY <2>0 DEF CacheInv, Whole
    <2>9. Whole' BY <2>0, <2>3, <2>7, <2>8 DEF Whole
    <2>10. Undoable' BY <2>0, <2>2 DEF Undoable
    <2>11. Kept'
      <3> SUFFICES ASSUME NEW b \in owned \cap Needed' PROVE b \in lost \/ b[2] = disk.meta[b[1]]
        BY <1>0, <1>1, <2>0, <2>2 DEF Kept
      <3>1. b \in Bodies /\ b[1] \notin loose /\ b[1] \in Sources BY <2>0 DEF Needed, Bodies
      <3>2. PICK j \in maybe'.journal :
               IF b[1] \in DOMAIN j THEN b[2] = j[b[1]] ELSE b[2] \in maybe'.meta[b[1]]
        BY DEF Needed
      <3>3. CASE b[1] \notin DOMAIN j BY <2>3, <3>1, <3>2, <3>3
      <3>4. CASE b[1] \in DOMAIN j
        <4>1. j \in maybe.journal BY <2>0, <2>3, <3>4
        <4>2. b \in Needed BY <3>1, <3>2, <3>4, <4>1 DEF Needed
        <4> QED BY <1>0, <4>2 DEF CacheInv, Kept
      <3> QED BY <3>3, <3>4
    <2> QED BY <2>2, <2>5, <2>6, <2>9, <2>10, <2>11 DEF CacheInv, Types, Moves
  <1>2. CASE UNCHANGED diskVars /\ Undo BY <1>0, <1>2, UndoSame
  <1> QED BY <1>1, <1>2 DEF RemoveJournal

(* The commit point: the proposed corpus is the only one left. *)
LEMMA ConfirmStep == ASSUME CacheInv, Confirm PROVE CacheInv'
  <1>0. /\ pc = "confirm" /\ pc' = "discard" /\ UNCHANGED <<todo, staged, owned>>
        /\ disk.journal = NoJournal /\ Done(DOMAIN staged) /\ Fixed /\ Proposed \in wholes
        /\ DOMAIN NoJournal = {} /\ DOMAIN staged \in SUBSET Sources
    BY NoJournalType, JournalFacts DEF Confirm, CacheInv, Progress, Types, RunTypes
  <1>1. CASE /\ Wrote(disk) /\ cont' = "durable"
             /\ wholes' = {w \in wholes : \A s \in DOMAIN staged : w[s] = staged[s]}
             /\ loose' = loose \ DOMAIN staged /\ UNCHANGED lost
    <2>1. disk \in Disks BY DEF CacheInv, Types
    <2>2. Moves /\ disk' = disk /\ Settled' BY <1>1, <2>1, SyncedMoves DEF CacheInv, Wrote
    <2>3. maybe'.journal = {NoJournal} /\ \A s \in Sources : maybe'.meta[s] = {disk.meta[s]}
      BY <1>0, <2>2 DEF Settled, Fixed
    <2>4. \A s \in Sources : disk.meta[s] = Proposed[s] BY <1>0 DEF Proposed, Done
    <2>5. RunTypes' BY <1>0, <1>1 DEF CacheInv, Types, RunTypes, Places
    <2>6. Progress' BY <1>0, <1>1, <2>3 DEF Progress, Recovering, Done
    <2>7. Proposed \in wholes' BY <1>0, <1>1 DEF Proposed
    <2>8. Whole' BY <1>0, <2>3, <2>4, <2>7 DEF Whole
    <2>9. Undoable' BY <1>0, <2>2 DEF Undoable
    <2>10. \A b \in Bodies : b[1] \in Sources BY DEF Bodies
    <2>11. Kept' BY <1>0, <2>2, <2>3, <2>10 DEF Kept, Needed
    <2> QED BY <2>2, <2>5, <2>6, <2>8, <2>9, <2>11 DEF CacheInv, Types, Moves
  <1>2. CASE UNCHANGED diskVars /\ cont' = "undo" /\ UNCHANGED histVars
    <2>1. Calm /\ disk' = disk BY <1>2, SameCalm
    <2>2. RunTypes' BY <1>0, <1>2 DEF CacheInv, Types, RunTypes, Places, histVars
    <2>3. Progress' BY <1>0, <1>2 DEF Progress, Recovering
    <2>4. Whole' /\ Undoable' /\ Needed' \subseteq Needed
      BY <1>2, <2>1, CalmKeeps DEF CacheInv, histVars
    <2>5. Kept' BY <1>0, <1>2, <2>1, <2>4 DEF CacheInv, Kept, histVars
    <2> QED BY <2>1, <2>2, <2>3, <2>4, <2>5 DEF CacheInv, Types, Calm, Moves
  <1> QED BY <1>1, <1>2 DEF Confirm

-----------------------------------------------------------------------------
(* What may happen to the directory between the cycles.                    *)

(* A forgotten source is left out of every promise. *)
LEMMA ForgetStep == ASSUME CacheInv, NEW s \in Sources, forget_source(s) PROVE CacheInv'
  <1>0. /\ pc = "idle" /\ pc' = "idle" /\ loose' = loose \cup {s} /\ owned = {}
        /\ UNCHANGED <<cont, todo, staged, owned, wholes, lost>>
    BY DEF forget_source, CacheInv, Progress
  <1>1. PICK m \in {NoBody, disk.meta[s]}, kept \in SUBSET Bodies :
           Unsynced([disk EXCEPT !.meta[s] = m, !.bodies = @ \ (Of(s) \ kept)])
    <2>1. CASE Unsynced([disk EXCEPT !.meta[s] = NoBody, !.bodies = @ \ Of(s)])
      <3>1. Of(s) \ {} = Of(s) OBVIOUS
      <3> QED BY <2>1, <3>1
    <2>2. CASE \E m \in {NoBody, disk.meta[s]}, kept \in SUBSET Of(s) :
                  Unsynced([disk EXCEPT !.meta[s] = m, !.bodies = @ \ (Of(s) \ kept)])
      <3>1. Of(s) \subseteq Bodies BY DEF Of, CacheInv, Types, Disks
      <3> QED BY <2>2, <3>1
    <2> QED BY <2>1, <2>2 DEF forget_source
  <1> DEFINE d == [disk EXCEPT !.meta[s] = m, !.bodies = @ \ (Of(s) \ kept)]
  <1>2. /\ disk \in Disks /\ disk.meta \in [Sources -> Choices] /\ m \in Choices
        /\ disk.bodies \ (Of(s) \ kept) \in SUBSET Bodies
    BY DEF CacheInv, Types, Disks, Manifests, Choices
  <1>3. d \in Disks /\ d.journal = disk.journal /\ d.meta = [disk.meta EXCEPT ![s] = m]
    BY <1>2 DEF Disks, Manifests, Choices
  <1> HIDE DEF d
  <1>4. Moves /\ disk' = d BY <1>1, <1>3, UnsyncedMoves DEF CacheInv, d
  <1>5. /\ maybe'.journal \subseteq maybe.journal /\ disk'.journal = disk.journal
        /\ \A t \in Sources \ {s} : disk'.meta[t] = disk.meta[t]
    BY <1>2, <1>3, <1>4 DEF Moves, CacheInv, Visible
  <1>6. \A t \in Sources \ {s} : /\ maybe'.meta[t] \subseteq maybe.meta[t]
                                 /\ disk.meta[t] \in maybe'.meta[t]
    BY <1>4, <1>5 DEF Moves, CacheInv, Visible
  <1>7. RunTypes' BY <1>0 DEF CacheInv, Types, RunTypes, Places
  <1>8. Progress' BY <1>0 DEF Progress, Recovering
  <1>9. Whole'
    <2> SUFFICES ASSUME NEW j \in maybe'.journal
                 PROVE  \E w \in wholes : \A t \in Sources \ loose' :
                            IF t \in DOMAIN j THEN w[t] = j[t] ELSE maybe'.meta[t] = {w[t]}
      BY <1>0 DEF Whole
    <2>1. PICK w \in wholes : \A t \in Sources \ loose :
             IF t \in DOMAIN j THEN w[t] = j[t] ELSE maybe.meta[t] = {w[t]}
      BY <1>5 DEF CacheInv, Whole
    <2>2. \A t \in Sources \ loose' : IF t \in DOMAIN j THEN w[t] = j[t] ELSE maybe'.meta[t] = {w[t]}
      BY <1>0, <1>6, <2>1
    <2> QED BY <2>2
  <1>10. Undoable'
    <2>1. DOMAIN disk.journal \subseteq Sources BY JournalFacts DEF CacheInv, Types, Disks
    <2>2. ASSUME NEW t \in DOMAIN disk.journal \ loose', \E j \in maybe'.journal : t \notin DOMAIN j
          PROVE  maybe'.meta[t] = {disk.journal[t]}
      <3>1. maybe.meta[t] = {disk.journal[t]} BY <1>0, <1>5, <2>2 DEF CacheInv, Undoable
      <3> QED BY <1>0, <1>6, <2>1, <3>1
    <2> QED BY <1>5, <2>2 DEF Undoable
  <1>11. Kept' BY <1>0 DEF Kept
  <1> QED BY <1>4, <1>7, <1>8, <1>9, <1>10, <1>11 DEF CacheInv, Types, Moves

(* A crash leaves one journal and one manifest of each source. *)
LEMMA CrashStep == ASSUME CacheInv, Crash PROVE CacheInv'
  <1>0. /\ pc' = "boot" /\ cont' = "boot" /\ todo' = {} /\ staged' = NoJournal /\ owned' = {}
        /\ UNCHANGED histVars
    BY DEF Crash, Booting
  <1>1. PICK m \in Manifests, found \in SUBSET Bodies, j \in maybe.journal :
           /\ \A s \in Sources : m[s] \in maybe.meta[s]
           /\ Synced([meta |-> m, bodies |-> found, journal |-> j])
    BY DEF Crash
  <1> DEFINE d == [meta |-> m, bodies |-> found, journal |-> j]
  <1>2. d \in Disks /\ d.meta = m /\ d.journal = j
    <2>1. j \in Journals BY DEF CacheInv, Types, Maybes
    <2> QED BY <2>1 DEF Disks
  <1> HIDE DEF d
  <1>3. Moves /\ disk' = d /\ Settled' BY <1>1, <1>2, SyncedMoves DEF CacheInv, d
  <1>4. maybe'.journal = {j} /\ \A s \in Sources : maybe'.meta[s] = {m[s]}
    BY <1>2, <1>3 DEF Settled, Fixed
  <1>5. PICK w \in wholes : \A s \in Sources \ loose :
           IF s \in DOMAIN j THEN w[s] = j[s] ELSE maybe.meta[s] = {w[s]}
    BY DEF CacheInv, Whole
  <1>6. \A s \in Sources \ loose : IF s \in DOMAIN j THEN w[s] = j[s] ELSE maybe'.meta[s] = {w[s]}
    BY <1>1, <1>4, <1>5
  <1>7. RunTypes' BY <1>0, NoJournalType DEF CacheInv, Types, RunTypes, Places, Recovering, histVars
  <1>8. Progress' BY <1>0 DEF Progress, Recovering
  <1>9. Whole' BY <1>0, <1>4, <1>6 DEF Whole, histVars
  <1>10. Undoable' BY <1>2, <1>3, <1>4 DEF Undoable
  <1>11. Kept' BY <1>0 DEF Kept
  <1> QED BY <1>3, <1>7, <1>8, <1>9, <1>10, <1>11 DEF CacheInv, Types, Moves

LEMMA InitCache == Init => CacheInv
  <1> SUFFICES ASSUME Init PROVE CacheInv OBVIOUS
  <1>1. PICK m \in [Sources -> {NoBody, 1}] :
           /\ disk = [meta |-> m, bodies |-> {<<s, 1>> : s \in {t \in Sources : m[t] = 1}},
                      journal |-> NoJournal]
           /\ wholes = {m}
    BY DEF Init
  <1>2. /\ maybe = Certain(disk) /\ pc = "boot" /\ cont = "boot" /\ todo = {} /\ staged = NoJournal
        /\ owned = {} /\ loose = {}
    BY DEF Init
  <1>3. 1 \in Gens BY DEF Gens
  <1>4. m \in Manifests BY <1>3 DEF Manifests
  <1>5. {<<s, 1>> : s \in {t \in Sources : m[t] = 1}} \in SUBSET Bodies BY <1>3 DEF Bodies
  <1>6. disk \in Disks /\ disk.meta = m /\ disk.journal = NoJournal
    BY <1>1, <1>4, <1>5, NoJournalType DEF Disks
  <1>7. /\ maybe.meta = [s \in Sources |-> {m[s]}] /\ maybe.journal = {NoJournal}
        /\ maybe.bodies = [b \in Bodies |-> {b \in disk.bodies}]
        /\ maybe = [meta |-> maybe.meta, bodies |-> maybe.bodies, journal |-> maybe.journal]
    BY <1>2, <1>6 DEF Certain
  <1>8. maybe \in Maybes
    <2>1. maybe.meta \in [Sources -> SUBSET Choices] BY <1>4, <1>7 DEF Manifests, Choices
    <2>2. maybe.bodies \in [Bodies -> SUBSET BOOLEAN] BY <1>7
    <2>3. maybe.journal \in SUBSET Journals BY <1>7, NoJournalType
    <2> QED BY <1>7, <2>1, <2>2, <2>3 DEF Maybes
  <1>9. RunTypes BY <1>1, <1>2, <1>4, NoJournalType DEF RunTypes, Places, Recovering
  <1>10. Visible BY <1>6, <1>7 DEF Visible
  <1>11. Whole BY <1>1, <1>7, NoJournalType DEF Whole
  <1>12. Undoable BY <1>6, NoJournalType DEF Undoable
  <1>13. Progress BY <1>2 DEF Progress, Recovering
  <1>14. Kept BY <1>2 DEF Kept
  <1> QED BY <1>6, <1>8, <1>9, <1>10, <1>11, <1>12, <1>13, <1>14 DEF CacheInv, Types

LEMMA StutterStep == ASSUME CacheInv, UNCHANGED vars PROVE CacheInv'
  BY DEF vars, diskVars, histVars, CacheInv, Types, RunTypes, Visible, Whole, Undoable, Progress,
         Settled, Fixed, Undone, Done, Proposed, Kept, Needed

LEMMA NextStep == ASSUME CacheInv, [Next]_vars PROVE CacheInv'
  <1>1. CASE Recover BY <1>1, RecoverStep
  <1>2. CASE RestoreSynced BY <1>2, RestoreSyncedStep
  <1>3. CASE RestoreUnlinks BY <1>3, RestoreUnlinksStep
  <1>4. CASE RestoreEnds BY <1>4, RestoreEndsStep
  <1>5. CASE Cleanup BY <1>5, CleanupStep
  <1>6. CASE StartCycle BY <1>6, StartCycleStep
  <1>7. CASE Admit \/ DontAdmit BY <1>7, AdmitSteps
  <1>8. CASE WriteJournal BY <1>8, WriteJournalStep
  <1>9. CASE RemoveJournal BY <1>9, RemoveJournalStep
  <1>10. CASE Confirm BY <1>10, ConfirmStep
  <1>11. CASE Collect BY <1>11, CollectStep
  <1>12. CASE Discard BY <1>12, DiscardStep
  <1>13. CASE Restart BY <1>13, RestartStep
  <1>14. CASE Crash BY <1>14, CrashStep
  <1>15. ASSUME NEW s \in Sources,
                Restore(s) \/ KeepBody(s) \/ Revalidate(s) \/ WriteManifest(s) \/ forget_source(s)
         PROVE  CacheInv'
    BY <1>15, RestoreStep, KeepBodyStep, RevalidateStep, WriteManifestStep, ForgetStep
  <1>16. ASSUME NEW s \in Sources, NEW g \in Gens, Stage(s, g) \/ StageFails(s, g) PROVE CacheInv'
    BY <1>16, StageStep, StageFailsStep
  <1>17. CASE UNCHANGED vars BY <1>17, StutterStep
  <1> QED BY <1>1, <1>2, <1>3, <1>4, <1>5, <1>6, <1>7, <1>8, <1>9, <1>10, <1>11, <1>12, <1>13,
             <1>14, <1>15, <1>16, <1>17 DEF Next

-----------------------------------------------------------------------------
(* Whatever operation of the cache directory fails and wherever the        *)
(* process stops or the machine crashes, the recovery of any journal that  *)
(* may be found restores one admitted corpus.                              *)
THEOREM CacheInvariant == Spec => []CacheInv
  <1>1. CacheInv /\ [Next]_vars => CacheInv' BY NextStep
  <1> QED BY InitCache, <1>1, PTL DEF Spec

LEMMA WholeCorpus == CacheInv => CorpusIsWhole
  <1> SUFFICES ASSUME CacheInv, disk.journal = NoJournal
               PROVE  \E w \in wholes : \A s \in Sources \ loose : disk.meta[s] = w[s]
    BY DEF CorpusIsWhole
  <1>1. /\ NoJournal \in maybe.journal /\ DOMAIN NoJournal = {}
        /\ \A s \in Sources : disk.meta[s] \in maybe.meta[s]
    BY NoJournalType DEF CacheInv, Visible
  <1>2. PICK w \in wholes : \A s \in Sources \ loose : maybe.meta[s] = {w[s]}
    BY <1>1 DEF CacheInv, Whole
  <1> QED BY <1>1, <1>2

(* Between transactions, and with no journal left, the manifests select    *)
(* one corpus that was admitted as a whole (recover_cache_manifest_journal *)
(* and commit_cache_admissions_transaction).                               *)
THEOREM CorpusStaysWhole == Spec => []CorpusIsWhole
  BY CacheInvariant, WholeCorpus, PTL

(* With the journal durably gone, a staged source has one body to fall     *)
(* back on, the staged one.                                                *)
LEMMA CollectsDead ==
    ASSUME CacheInv, Collect
    PROVE  Needed \cap (disk.bodies \ disk'.bodies) \subseteq lost
  <1> DEFINE Dead == UNION {Of(s) \ {<<s, staged[s]>>} : s \in DOMAIN staged}
  <1>1. PICK gone \in SUBSET Dead : Unsynced(Without(gone)) BY DEF Collect, Reclaim
  <1>2. disk.bodies \ disk'.bodies \subseteq Dead
    <2>1. disk'.bodies = disk.bodies \ gone BY <1>1 DEF Unsynced, Without, CacheInv, Types, Disks
    <2> QED BY <2>1
  <1>3. /\ maybe.journal = {NoJournal} /\ DOMAIN NoJournal = {}
        /\ \A s \in DOMAIN staged : maybe.meta[s] = {staged[s]}
    BY NoJournalType DEF Collect, CacheInv, Progress
  <1>4. ASSUME NEW b \in Needed, b \in Dead PROVE FALSE
    <2>1. PICK s \in DOMAIN staged : b \in Of(s) /\ b # <<s, staged[s]>> BY <1>4
    <2>2. b[1] = s /\ b \in Sources \X Gens BY <2>1 DEF Of, Needed, Bodies
    <2>3. b[2] = staged[s] BY <1>3, <2>1, <2>2 DEF Needed
    <2> QED BY <2>1, <2>2, <2>3
  <1> QED BY <1>2, <1>4

\* A reclaimed body that a recovery may select falls under an exception.
Excepted(b) == \/ b \in lost
               \/ pc = "discard" /\ b[2] = disk.meta[b[1]] /\ faults' = faults + 1

LEMMA DiscardsDead ==
    ASSUME CacheInv, Discard
    PROVE  \A b \in Needed \cap (disk.bodies \ disk'.bodies) : Excepted(b)
  <1>0. pc = "discard" BY DEF Discard
  <1>1. CASE UNCHANGED diskVars BY <1>1 DEF diskVars
  <1>2. ASSUME NEW unread \in SUBSET Sources, NEW gone \in SUBSET Unselected(unread),
               Unsynced(Without(gone)) \/ Synced(Without(gone)),
               unread = {} \/ faults' = faults + 1,
               NEW b \in Needed, b \in disk.bodies \ disk'.bodies
        PROVE  Excepted(b)
    <2>1. disk'.bodies = disk.bodies \ gone
      BY <1>2 DEF Unsynced, Synced, Without, CacheInv, Types, Disks
    <2>2. b \in owned /\ (b[1] \in unread \/ b[2] # disk.meta[b[1]])
      BY <1>2, <2>1 DEF Unselected
    <2>3. b \in lost \/ b[2] = disk.meta[b[1]] BY <1>2, <2>2 DEF CacheInv, Kept
    <2> QED BY <1>0, <1>2, <2>2, <2>3 DEF Excepted
  <1> QED BY <1>1, <1>2, DiscardCases

(* A cycle reclaims a body that a crash followed by a recovery selects     *)
(* only if it was missing before, or if its manifest selects it and could  *)
(* not be read (garbage_collect_generation_bodies and                      *)
(* discard_unselected_staged_body).                                        *)
THEOREM OnlyDeadReclaimed == Spec => ReclaimsOnlyDead
  <1>1. ASSUME CacheInv, [Next]_vars, pc \in {"collect", "discard"}, pc' # "boot"
        PROVE  \A b \in Needed \cap (disk.bodies \ disk'.bodies) : Excepted(b)
    <2>1. CASE UNCHANGED vars BY <2>1 DEF vars, diskVars
    <2>2. CASE Collect BY <1>1, <2>2, CollectsDead DEF Excepted
    <2>3. CASE Discard BY <1>1, <2>3, DiscardsDead
    <2>4. CASE Next
      <3>1. Collect \/ Discard
        BY <1>1, <2>4 DEF Next, Recover, RestoreSynced, RestoreUnlinks, RestoreEnds, Cleanup, StartCycle,
              Admit, DontAdmit, WriteJournal, RemoveJournal, Confirm, Restart, Crash, Booting, Restore,
              KeepBody, Revalidate, WriteManifest, forget_source, Stage, StageFails
      <3> QED BY <2>2, <2>3, <3>1
    <2> QED BY <1>1, <2>1, <2>4
  <1>2. CacheInv /\ [Next]_vars
           => [(pc \in {"collect", "discard"} /\ pc' # "boot")
                  => \A b \in Needed \cap (disk.bodies \ disk'.bodies) :
                        \/ b \in lost
                        \/ pc = "discard" /\ b[2] = disk.meta[b[1]] /\ faults' = faults + 1]_vars
    BY <1>1 DEF Excepted
  <1> QED BY CacheInvariant, <1>2, PTL DEF Spec, ReclaimsOnlyDead

=============================================================================
