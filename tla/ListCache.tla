------------------------------ MODULE ListCache ------------------------------
(***************************************************************************)
(* The list manager's cache directory (src/lists/manager.rs): one manifest *)
(* per source that selects a body by its hash, the bodies, and the         *)
(* rollback journal under which a cycle replaces several manifests as one  *)
(* corpus (commit_cache_admissions_transaction).                           *)
(*                                                                         *)
(* The directory has two faces.  `disk` is what the process sees.  `maybe` *)
(* is, for every entry apart, what a power loss may leave: all it has been *)
(* since the directory was last synced.  An operation of the directory may *)
(* fail, and the process may stop or the machine crash between any two.    *)
(***************************************************************************)
EXTENDS Naturals, FiniteSets

CONSTANTS
    Sources,
    MaxGen,      \* contents a source may have: 1..MaxGen, named by their hash
    MaxCycles,   \* bound: refresh cycles
    MaxFaults,   \* bound: operations that fail
    MaxStops,    \* bound: restarts and crashes
    MaxForgets   \* bound: sources forgotten

ASSUME CacheAssumption ==
    MaxGen \in Nat \ {0} /\ MaxCycles \in Nat /\ MaxFaults \in Nat /\ MaxStops \in Nat /\ MaxForgets \in Nat

Gens      == 1..MaxGen
NoBody    == 0                                   \* a manifest that is not there
Manifests == [Sources -> Gens \cup {NoBody}]
Bodies    == Sources \X Gens
NoJournal == [s \in {} |-> NoBody]               \* and never an empty one

VARIABLES
    disk, maybe,
    pc,
    cont,     \* what the step is part of: "boot", "txn", "undo" or "durable"
    todo,     \* sources still to stage, restore or write
    staged,   \* source -> body this cycle admitted
    owned,    \* bodies this cycle created
    wholes,   \* history: the corpora a reader may find
    loose,    \* history: sources forgotten since, whose entries are nobody's
    lost,     \* history: bodies that were needed, gone, and staged anew
    cycles, faults, stops, forgets

diskVars  == <<disk, maybe>>
histVars  == <<wholes, loose, lost>>
boundVars == <<cycles, faults, stops, forgets>>
vars      == <<diskVars, pc, cont, todo, staged, owned, histVars, boundVars>>

-----------------------------------------------------------------------------
(* The directory. *)

Certain(d) ==
    [meta |-> [s \in Sources |-> {d.meta[s]}], bodies |-> [b \in Bodies |-> {b \in d.bodies}],
     journal |-> {d.journal}]

(* An entry that was changed may be found as it is or as it has been. *)
Unsynced(d) ==
    /\ disk' = d
    /\ maybe' = [meta |-> [s \in Sources |-> maybe.meta[s] \cup {d.meta[s]}],
                 bodies |-> [b \in Bodies |-> maybe.bodies[b] \cup {b \in d.bodies}],
                 journal |-> maybe.journal \cup {d.journal}]

(* fsync_cache_dir *)
Synced(d) == disk' = d /\ maybe' = Certain(d)

Same  == UNCHANGED <<diskVars, faults>>
Fault == faults < MaxFaults /\ faults' = faults + 1

(* atomic_write: a temporary file, a rename, and a sync of the directory.  *)
(* It may fail before the rename and after it.                             *)
Wrote(d)    == Synced(d) /\ UNCHANGED faults
NotWrote(d) == Fault /\ (Unsynced(d) \/ UNCHANGED diskVars)

WithMeta(s, g)  == [disk EXCEPT !.meta[s] = g]
WithJournal(j)  == [disk EXCEPT !.journal = j]
Without(bodies) == [disk EXCEPT !.bodies = @ \ bodies]

(* Bodies are removed one by one and nothing is synced; a removal that     *)
(* fails leaves its body behind.                                           *)
Reclaim(bodies) ==
    \/ Unsynced(Without(bodies)) /\ UNCHANGED faults
    \/ Fault /\ \E kept \in SUBSET bodies : Unsynced(Without(bodies \ kept))

Of(s) == {b \in disk.bodies : b[1] = s}
Selected(s) == {<<s, disk.meta[s]>>}

(* The bodies that the recovery of some crash from here would select. *)
Needed ==
    {b \in Bodies : /\ b[1] \notin loose
                    /\ \E j \in maybe.journal : IF b[1] \in DOMAIN j THEN b[2] = j[b[1]]
                                                ELSE b[2] \in maybe.meta[b[1]]}

-----------------------------------------------------------------------------
Init ==
    /\ \E m \in [Sources -> {NoBody, 1}] :
          /\ disk = [meta |-> m, bodies |-> {<<s, 1>> : s \in {t \in Sources : m[t] = 1}},
                     journal |-> NoJournal]
          /\ wholes = {m}
    /\ maybe = Certain(disk)
    /\ pc = "boot" /\ cont = "boot" /\ todo = {} /\ staged = NoJournal /\ owned = {} /\ loose = {} /\ lost = {}
    /\ cycles = 0 /\ faults = 0 /\ stops = 0 /\ forgets = 0

-----------------------------------------------------------------------------
(* recover_cache_manifest_journal, for whoever called it. *)

Recovered ==
    /\ pc' = (IF cont = "boot" THEN "cleanup" ELSE IF cont = "txn" THEN "journal" ELSE "discard")
    /\ todo' = IF cont = "txn" THEN DOMAIN staged ELSE {}

(* A boot refuses the cache and goes on, a transaction fails. *)
NotRecovered == pc' = (IF cont = "boot" THEN "cleanup" ELSE "discard") /\ todo' = {}

Recover ==
    /\ pc = "boot"
    /\ IF disk.journal = NoJournal THEN Recovered ELSE pc' = "restore" /\ todo' = DOMAIN disk.journal
    /\ Same /\ UNCHANGED <<cont, staged, owned, histVars, cycles, stops, forgets>>

(* A mutant: the journal goes before the restored manifests are synced. *)
RestoreNotSynced(s) ==
    /\ pc = "restore" /\ s \in todo
    /\ LET d == WithMeta(s, disk.journal[s]) IN
       \/ /\ IF disk.journal[s] = NoBody THEN Unsynced(d) /\ UNCHANGED faults ELSE Wrote(d)
          /\ todo' = todo \ {s} /\ pc' = IF todo' = {} THEN "unlink" ELSE "restore"
       \/ NotWrote(d) /\ NotRecovered
    /\ UNCHANGED <<cont, staged, owned, histVars, cycles, stops, forgets>>

(* A manifest that was there is written back, one that was not is removed. *)
Restore(s) ==
    /\ pc = "restore" /\ s \in todo
    /\ LET d == WithMeta(s, disk.journal[s]) IN
       \/ /\ IF disk.journal[s] = NoBody THEN Unsynced(d) /\ UNCHANGED faults ELSE Wrote(d)
          /\ todo' = todo \ {s} /\ pc' = IF todo' = {} THEN "sync" ELSE "restore"
       \/ NotWrote(d) /\ NotRecovered
    /\ UNCHANGED <<cont, staged, owned, histVars, cycles, stops, forgets>>

RestoreSynced ==
    /\ pc = "sync"
    /\ \/ /\ Wrote(disk) /\ pc' = "unlink" /\ UNCHANGED todo
          /\ wholes' = {w \in wholes : \A s \in DOMAIN disk.journal \ loose : w[s] = disk.journal[s]}
       \/ Fault /\ UNCHANGED diskVars /\ NotRecovered /\ UNCHANGED wholes
    /\ UNCHANGED <<cont, staged, owned, loose, lost, cycles, stops, forgets>>

RestoreUnlinks ==
    /\ pc = "unlink"
    /\ \/ Unsynced(WithJournal(NoJournal)) /\ pc' = "unlinked" /\ UNCHANGED <<faults, todo>>
       \/ Fault /\ UNCHANGED diskVars /\ NotRecovered
    /\ UNCHANGED <<cont, staged, owned, histVars, cycles, stops, forgets>>

RestoreEnds ==
    /\ pc = "unlinked"
    /\ \/ Wrote(disk) /\ Recovered
       \/ Fault /\ UNCHANGED diskVars /\ NotRecovered
    /\ UNCHANGED <<cont, staged, owned, histVars, cycles, stops, forgets>>

(* cleanup_stale_caches keeps its hands off while a journal is there, and  *)
(* then removes what no manifest selects; a source whose manifest selects  *)
(* a body that is missing keeps all it has.                                *)
Orphans ==
    IF disk.journal # NoJournal THEN {}
    ELSE UNION {Of(s) \ Selected(s) :
                s \in {t \in Sources : disk.meta[t] = NoBody \/ <<t, disk.meta[t]>> \in disk.bodies}}

Cleanup ==
    /\ pc = "cleanup" /\ Reclaim(Orphans) /\ pc' = "idle"
    /\ UNCHANGED <<cont, todo, staged, owned, histVars, cycles, stops, forgets>>

-----------------------------------------------------------------------------
(* A cycle. *)

StartCycle ==
    /\ pc = "idle" /\ cycles < MaxCycles
    /\ cycles' = cycles + 1 /\ pc' = "stage" /\ todo' = Sources
    /\ Same /\ UNCHANGED <<cont, staged, owned, histVars, stops, forgets>>

(* The source was not fetched, was refused, or answered 304. *)
KeepBody(s) ==
    /\ pc = "stage" /\ s \in todo /\ todo' = todo \ {s}
    /\ UNCHANGED <<diskVars, pc, cont, staged, owned, histVars, boundVars>>

(* After a 304 the manifest is renewed, with the body it selects, before   *)
(* anything is admitted (write_meta_file): that syncs the directory.       *)
Revalidate(s) ==
    /\ pc = "stage" /\ todo = {} /\ s \notin DOMAIN staged /\ Selected(s) \subseteq disk.bodies
    /\ Synced(disk)
    /\ UNCHANGED <<pc, cont, todo, staged, owned, histVars, boundVars>>

(* StreamedCacheBody::finish.  A body that exists is used as it is, a new  *)
(* one is this cycle's own until a manifest selects it.                    *)
Stage(s, g) ==
    /\ pc = "stage" /\ s \in todo /\ todo' = todo \ {s}
    /\ staged' = [t \in DOMAIN staged \cup {s} |-> IF t = s THEN g ELSE staged[t]]
    /\ \/ <<s, g>> \in disk.bodies /\ UNCHANGED <<diskVars, owned, lost>>
       \/ /\ <<s, g>> \notin disk.bodies /\ owned' = owned \cup {<<s, g>>}
          /\ Synced([disk EXCEPT !.bodies = @ \cup {<<s, g>>}])
          /\ lost' = lost \cup (Needed \cap {<<s, g>>})
    /\ UNCHANGED <<pc, cont, wholes, loose, boundVars>>

(* The sync after the body was placed failed: the source is not admitted,  *)
(* and the body is removed if that can still be done.                      *)
StageFails(s, g) ==
    /\ pc = "stage" /\ s \in todo /\ todo' = todo \ {s} /\ Fault
    /\ <<s, g>> \notin disk.bodies
    /\ \/ Synced(disk)
       \/ Unsynced([disk EXCEPT !.bodies = @ \cup {<<s, g>>}])
    /\ UNCHANGED <<pc, cont, staged, owned, histVars, cycles, stops, forgets>>

(* The corpus was installed whole, or was the installed one already. *)
Admit ==
    /\ pc = "stage" /\ todo = {} /\ DOMAIN staged # {}
    /\ pc' = "boot" /\ cont' = "txn"
    /\ Same /\ UNCHANGED <<todo, staged, owned, histVars, cycles, stops, forgets>>

(* It was refused, degraded or incomplete, or nothing was staged. *)
DontAdmit ==
    /\ pc = "stage" /\ todo = {} /\ pc' = "discard" /\ cont' = "undo"
    /\ Same /\ UNCHANGED <<todo, staged, owned, histVars, cycles, stops, forgets>>

Proposed == [s \in Sources |-> IF s \in DOMAIN staged THEN staged[s] ELSE disk.meta[s]]
Undo == pc' = "boot" /\ cont' = "undo" /\ todo' = {}

(* persist_rollback_journal *)
WriteJournal ==
    /\ pc = "journal"
    /\ LET d == WithJournal([s \in DOMAIN staged |-> disk.meta[s]]) IN
       \/ Wrote(d) /\ pc' = "write" /\ wholes' = {disk.meta, Proposed} /\ UNCHANGED <<cont, todo>>
       \/ NotWrote(d) /\ Undo /\ UNCHANGED wholes
    /\ UNCHANGED <<staged, owned, loose, lost, cycles, stops, forgets>>

(* commit_staged_cache_manifest.  A body that has gone, an error, and a    *)
(* manifest that landed without its sync all undo the transaction.         *)
WriteManifest(s) ==
    /\ pc = "write" /\ s \in todo
    /\ LET d == WithMeta(s, staged[s]) IN
       \/ /\ <<s, staged[s]>> \in disk.bodies /\ Wrote(d)
          /\ todo' = todo \ {s} /\ pc' = (IF todo' = {} THEN "remove" ELSE "write") /\ UNCHANGED cont
       \/ <<s, staged[s]>> \in disk.bodies /\ NotWrote(d) /\ Undo
       \/ <<s, staged[s]>> \notin disk.bodies /\ Same /\ Undo
    /\ UNCHANGED <<staged, owned, histVars, cycles, stops, forgets>>

RemoveJournal ==
    /\ pc = "remove"
    /\ \/ Unsynced(WithJournal(NoJournal)) /\ pc' = "confirm" /\ UNCHANGED <<faults, cont, todo>>
       \/ Fault /\ UNCHANGED diskVars /\ Undo
    /\ UNCHANGED <<staged, owned, histVars, cycles, stops, forgets>>

(* A mutant: a deletion that was not synced counts as durable. *)
ConfirmUncertain ==
    /\ pc = "confirm" /\ cont' = "durable"
    /\ \/ /\ Wrote(disk)
          /\ wholes' = {w \in wholes : \A s \in DOMAIN staged : w[s] = staged[s]}
          /\ loose' = loose \ DOMAIN staged /\ UNCHANGED lost
       \/ Fault /\ UNCHANGED <<diskVars, histVars>>
    /\ pc' = "discard" /\ UNCHANGED <<todo, staged, owned, cycles, stops, forgets>>

(* The durable deletion of the journal is the commit point.  Without it    *)
(* the outcome is DurabilityUncertain, and nothing is collected.           *)
Confirm ==
    /\ pc = "confirm"
    /\ \/ /\ Wrote(disk) /\ cont' = "durable"
          /\ wholes' = {w \in wholes : \A s \in DOMAIN staged : w[s] = staged[s]}
          /\ loose' = loose \ DOMAIN staged /\ UNCHANGED lost
       \/ Fault /\ UNCHANGED diskVars /\ cont' = "undo" /\ UNCHANGED histVars
    /\ pc' = "discard" /\ UNCHANGED <<todo, staged, owned, cycles, stops, forgets>>

(* selected_cache_body_path: a manifest that cannot be read selects none. *)
Unselected(unread) == {b \in owned : b[1] \in unread \/ b[2] # disk.meta[b[1]]}

(* discard_unselected_staged_body, as the cycle's bodies go out of scope.  *)
(* The manifest may be unreadable, the body may fail its identity check or *)
(* its removal and stay, and the sync after a removal may fail.            *)
Discard ==
    /\ pc = "discard" /\ owned' = {}
    /\ IF cont = "durable" THEN pc' = "collect" /\ UNCHANGED staged
                           ELSE pc' = "idle" /\ staged' = NoJournal
    /\ \/ /\ IF Unselected({}) = {} THEN UNCHANGED diskVars ELSE Synced(Without(Unselected({})))
          /\ UNCHANGED faults
       \/ /\ Fault
          /\ \E unread \in SUBSET Sources : \E gone \in SUBSET Unselected(unread) :
                Unsynced(Without(gone)) \/ (gone # {} /\ Synced(Without(gone)))
    /\ UNCHANGED <<cont, todo, histVars, cycles, stops, forgets>>

(* garbage_collect_generation_bodies *)
Collect ==
    /\ pc = "collect" /\ pc' = "idle" /\ staged' = NoJournal
    /\ Reclaim(UNION {Of(s) \ {<<s, staged[s]>>} : s \in DOMAIN staged})
    /\ UNCHANGED <<cont, todo, owned, histVars, cycles, stops, forgets>>

-----------------------------------------------------------------------------
(* forget_source removes the manifest and every body, as far as that       *)
(* succeeds, and syncs nothing.                                            *)
forget_source(s) ==
    /\ pc = "idle" /\ forgets < MaxForgets /\ forgets' = forgets + 1 /\ loose' = loose \cup {s}
    /\ \/ Unsynced([disk EXCEPT !.meta[s] = NoBody, !.bodies = @ \ Of(s)]) /\ UNCHANGED faults
       \/ /\ Fault
          /\ \E m \in {NoBody, disk.meta[s]}, kept \in SUBSET Of(s) :
                Unsynced([disk EXCEPT !.meta[s] = m, !.bodies = @ \ (Of(s) \ kept)])
    /\ UNCHANGED <<pc, cont, todo, staged, owned, wholes, lost, cycles, stops>>

Booting == pc' = "boot" /\ cont' = "boot" /\ todo' = {} /\ staged' = NoJournal /\ owned' = {}

(* The process ends, or a reload builds the next manager. *)
Restart ==
    /\ stops < MaxStops /\ stops' = stops + 1 /\ Booting
    /\ UNCHANGED <<diskVars, histVars, cycles, faults, forgets>>

Crash ==
    /\ stops < MaxStops /\ stops' = stops + 1 /\ Booting
    /\ \E m \in Manifests, found \in SUBSET Bodies, j \in maybe.journal :
          /\ \A s \in Sources : m[s] \in maybe.meta[s]
          /\ \A b \in Bodies : (b \in found) \in maybe.bodies[b]
          /\ Synced([meta |-> m, bodies |-> found, journal |-> j])
    /\ UNCHANGED <<histVars, cycles, faults, forgets>>

Next ==
    \/ Recover \/ RestoreSynced \/ RestoreUnlinks \/ RestoreEnds \/ Cleanup
    \/ StartCycle \/ Admit \/ DontAdmit \/ WriteJournal \/ RemoveJournal \/ Confirm \/ Collect
    \/ Discard \/ Restart \/ Crash
    \/ \E s \in Sources :
          \/ Restore(s) \/ KeepBody(s) \/ Revalidate(s) \/ WriteManifest(s) \/ forget_source(s)
          \/ \E g \in Gens : Stage(s, g) \/ StageFails(s, g)

Spec == Init /\ [][Next]_vars

-----------------------------------------------------------------------------
(* Between transactions, and when no journal is left to recover from, the  *)
(* manifests select one corpus that was admitted as a whole: after a crash *)
(* or a failed write the one before the transaction or the one it          *)
(* proposed, never a mixture; once Durable was reported, no older one.     *)
CorpusIsWhole ==
    (pc \in {"idle", "journal"} /\ disk.journal = NoJournal)
        => \E w \in wholes : \A s \in Sources \ loose : disk.meta[s] = w[s]

(* A body the cycle reclaims, whether it collects the bodies it has        *)
(* replaced or discards the ones it staged, is a body that no crash        *)
(* followed by a recovery selects again.  There are two exceptions: one    *)
(* that was missing before the cycle staged it, and one that its manifest  *)
(* selects, when discard_unselected_staged_body could not read it.         *)
ReclaimsOnlyDead ==
    [][(pc \in {"collect", "discard"} /\ pc' # "boot")
           => \A b \in Needed \cap (disk.bodies \ disk'.bodies) :
                 \/ b \in lost
                 \/ pc = "discard" /\ b[2] = disk.meta[b[1]] /\ faults' = faults + 1]_vars

(* "Do not reclaim an old selected body before it is durable", of whoever  *)
(* reclaims (src/lists/manager.rs 4466): whatever a crash leaves, the      *)
(* manifests its recovery restores select bodies that are there.           *)
NothingDangles == \A b \in Needed : maybe.bodies[b] = {TRUE}
=============================================================================
