---------------------------- MODULE AtomicPolicy ----------------------------
(***************************************************************************)
(* What a policy transaction promises its callers and the operators who    *)
(* edit the tree by hand: each request is decided once, a commit replaces  *)
(* the whole tree its plan was made against in one step, a rollback puts   *)
(* that tree back in one step and at most once, and neither touches a      *)
(* member saved by hand since the transaction captured the tree.           *)
(***************************************************************************)
CONSTANTS Members, OptVal, None, Requests, Target, Genesis, EditValue

VARIABLES
    policy,    \* member -> content
    dirty,     \* members saved by hand since the last capture
    planned,   \* request -> the tree its plan was made against, or None
    outcome,   \* request -> "open", "committed" or "aborted"
    saved      \* request -> the tree a rollback would put back, or None

avars == <<policy, dirty, planned, outcome, saved>>

AInit ==
    /\ policy = Genesis
    /\ dirty = {}
    /\ planned = [r \in Requests |-> None]
    /\ outcome = [r \in Requests |-> "open"]
    /\ saved = [r \in Requests |-> None]

\* All members not saved by hand go from one tree to another.
Replace(from, to) ==
    /\ \A m \in Members \ dirty : policy[m] = from[m]
    /\ policy' = [m \in Members |-> IF m \in dirty THEN policy[m] ELSE to[m]]
    /\ UNCHANGED <<dirty, planned>>

APlan(r) ==
    /\ planned' = [planned EXCEPT ![r] = policy]
    /\ UNCHANGED <<policy, dirty, outcome, saved>>

\* A transaction looks at the whole tree: what is there now is its base.
Capture ==
    /\ dirty' = {}
    /\ UNCHANGED <<policy, planned, outcome, saved>>

Save(m) ==
    /\ policy' = [policy EXCEPT ![m] = EditValue]
    /\ dirty' = dirty \cup {m}
    /\ UNCHANGED <<planned, outcome, saved>>

Commit(r) ==
    /\ outcome[r] = "open" /\ planned[r] # None
    /\ Replace(planned[r], Target[r])
    /\ outcome' = [outcome EXCEPT ![r] = "committed"]
    /\ saved' = [saved EXCEPT ![r] = planned[r]]

Abort(r) ==
    /\ outcome[r] = "open"
    /\ outcome' = [outcome EXCEPT ![r] = "aborted"]
    /\ UNCHANGED <<policy, dirty, planned, saved>>

Rollback(r) ==
    /\ outcome[r] = "committed" /\ saved[r] # None
    /\ Replace(Target[r], saved[r])
    /\ saved' = [saved EXCEPT ![r] = None]
    /\ UNCHANGED outcome

\* The undo image is dropped, then possibly the answer itself.
DropUndo(r) ==
    /\ saved' = [saved EXCEPT ![r] = None]
    /\ UNCHANGED <<policy, dirty, planned, outcome>>

Forget(r) ==
    /\ saved[r] = None
    /\ outcome' = [outcome EXCEPT ![r] = "open"]
    /\ UNCHANGED <<policy, dirty, planned, saved>>

ANext ==
    \/ Capture
    \/ \E m \in Members : Save(m)
    \/ \E r \in Requests :
         APlan(r) \/ Commit(r) \/ Abort(r) \/ Rollback(r) \/ DropUndo(r) \/ Forget(r)

ASpec == AInit /\ [][ANext]_avars
=============================================================================
