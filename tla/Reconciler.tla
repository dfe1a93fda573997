----------------------------- MODULE Reconciler -----------------------------
(***************************************************************************)
(* What the resource kinds have in common: one custom resource (CR), the   *)
(* object in IAM that it stands for, and a reconcile that is taken from    *)
(* the work queue, ends with an outcome, or is cut short by a crash.  The  *)
(* modules of the kinds extend this one with the calls they make between.  *)
(*                                                                         *)
(* The reconciler itself is the ACK runtime's, outside of src/; it is      *)
(* modelled from how the resource managers are called and from what their  *)
(* onError and onSuccess hand back to it.                                  *)
(***************************************************************************)
EXTENDS Naturals

CONSTANTS
    ByName,     \* the object is found by a name in the spec, not by one on record
    None,       \* nil, and the object that is not there
    Budget      \* bound on edits, faults, lost patches, crashes and drifts

Misfortunes == {"edit", "fault", "patch", "crash", "drift"}

ASSUME ReconcilerAssumption ==
    /\ ByName \in BOOLEAN
    /\ Budget \in [Misfortunes -> Nat]

VARIABLES
    cr,        \* the CR: here, deleting, managed, id (the object can be found), spec
    cond,      \* the outcome last written to its status
    queued,    \* the work queue holds its key
    object,    \* the object in IAM
    pc,        \* where the reconcile is
    op,        \* "sync", "create" once it has created the object, or "delete"
    id,        \* the reconcile's copy of the CR has what the object is found by
    desired,   \* the reconcile's copy of the spec
    latest,    \* what ReadOne has observed
    todo,      \* calls of the update, or of the deletion, still to be made
    drift,     \* history: somebody else changed the object since the reconcile began
    budget     \* what is left of Budget

Maybe(S) == S \cup {None}

vars == <<cr, cond, queued, object, pc, op, id, desired, latest, todo, drift, budget>>
copies == <<op, id, desired, latest, todo>>

exists == object # None

Outcomes == {"None", "Synced", "Unsynced", "Recoverable", "Terminal"}

\* The types of all that does not depend on the kind.
CommonTypes(Content, Places, Calls) ==
    /\ cr \in [here : BOOLEAN, deleting : BOOLEAN, managed : BOOLEAN, id : BOOLEAN, spec : Content]
    /\ cond \in Outcomes
    /\ queued \in BOOLEAN /\ id \in BOOLEAN /\ drift \in BOOLEAN
    /\ object \in Content \cup {None}
    /\ desired \in Content \cup {None} /\ latest \in Content \cup {None}
    /\ pc \in Places \cup {"idle", "manage", "create", "lateInit", "patch", "unmanage"}
    /\ op \in {"sync", "create", "delete"}
    /\ todo \subseteq Calls
    /\ budget \in [Misfortunes -> Nat]

\* A user has submitted one of these specs.
Init(Specs) ==
    /\ \E s \in Specs : cr = [here |-> TRUE, deleting |-> FALSE, managed |-> FALSE,
                              id |-> ByName, spec |-> s]
    /\ cond = "None"
    /\ queued = TRUE
    /\ object = None
    /\ pc = "idle" /\ op = "sync" /\ id = ByName
    /\ desired = None /\ latest = None /\ todo = {}
    /\ drift = FALSE
    /\ budget = Budget

Spend(what) ==
    /\ budget[what] > 0
    /\ budget' = [budget EXCEPT ![what] = @ - 1]

Idle ==
    /\ pc' = "idle" /\ op' = "sync" /\ id' = ByName
    /\ desired' = None /\ latest' = None /\ todo' = {}
    /\ UNCHANGED drift

\* The end of a reconcile that leaves the CR as c: its status is patched with the
\* outcome and with what the reconcile has learnt to find the object by, and all
\* but success and a terminal error is requeued.
FinishWith(outcome, c) ==
    /\ cond' = outcome
    /\ cr' = [c EXCEPT !.id = @ \/ id]
    /\ queued' = (queued \/ outcome \in {"Unsynced", "Recoverable"})
    /\ Idle

Finish(outcome) == FinishWith(outcome, cr)

\* The call at hand is answered with an error, which ends the reconcile.
Refused(outcome) ==
    /\ Finish(outcome)
    /\ UNCHANGED <<object, budget>>

\* IAM or the network fails the call.  A lost answer leaves what a crash right
\* after the call leaves.
CallFails ==
    /\ Spend("fault")
    /\ Finish("Recoverable")
    /\ UNCHANGED object

\* The reconcile goes on.
Goto(place) ==
    /\ pc' = place
    /\ UNCHANGED <<cr, cond, queued, drift, budget>>

\* The call at hand has been answered and the object is o now.
Answered(o, place) ==
    /\ object' = o
    /\ Goto(place)
    /\ UNCHANGED copies

(***************************************************************************)
(* The steps of the reconciler between the calls of the resource manager.  *)
(***************************************************************************)
Reconcile ==
    /\ pc = "idle"
    /\ queued
    /\ queued' = FALSE
    /\ IF cr.here
       THEN /\ pc' = "read"
            /\ op' = IF cr.deleting THEN "delete" ELSE "sync"
            /\ id' = cr.id
            /\ desired' = cr.spec
            /\ drift' = FALSE
       ELSE UNCHANGED <<pc, op, id, desired, drift>>
    /\ UNCHANGED <<cr, cond, object, latest, todo, budget>>

Resync ==
    /\ pc = "idle"
    /\ cr.here
    /\ ~queued
    /\ queued' = TRUE
    /\ UNCHANGED <<cr, cond, object, pc, copies, drift, budget>>

\* ReadOne says that there is no object.
NotFound ==
    /\ Goto(IF op = "delete" THEN "unmanage" ELSE "manage")
    /\ UNCHANGED <<object, copies>>

\* The finalizer is put on the CR before anything is created.
MarkManaged ==
    /\ pc = "manage"
    /\ IF cr.here
       THEN /\ cr' = [cr EXCEPT !.managed = TRUE]
            /\ pc' = "create"
            /\ UNCHANGED <<cond, queued, copies, drift>>
       ELSE Finish(cond)
    /\ UNCHANGED <<object, budget>>

\* The reconcile is over; Kubernetes takes the patches of the CR (its spec is s then),
\* or not.
Patch(outcome, s) ==
    /\ pc = "patch"
    /\ \/ /\ FinishWith(outcome, [cr EXCEPT !.spec = s])
          /\ UNCHANGED budget
       \/ /\ Spend("patch")
          /\ queued' = TRUE
          /\ Idle
          /\ UNCHANGED <<cr, cond>>
    /\ UNCHANGED object

\* With the finalizer gone Kubernetes removes the CR.
MarkUnmanaged ==
    /\ pc = "unmanage"
    /\ cr' = [cr EXCEPT !.managed = FALSE, !.here = FALSE]
    /\ Idle
    /\ UNCHANGED <<cond, queued, object, budget>>

(***************************************************************************)
(* The environment.                                                        *)
(***************************************************************************)
\* The controller dies; the next one finds every CR in its queue.
Crash ==
    /\ pc # "idle"
    /\ Spend("crash")
    /\ queued' = TRUE
    /\ Idle
    /\ UNCHANGED <<cr, cond, object>>

EditSpec(Specs) ==
    /\ cr.here /\ ~cr.deleting
    /\ Spend("edit")
    /\ \E s \in Specs \ {cr.spec} : cr' = [cr EXCEPT !.spec = s]
    /\ queued' = TRUE
    /\ UNCHANGED <<cond, object, pc, copies, drift>>

\* Kubernetes marks a CR that has a finalizer, and removes one that has none.
DeleteCR ==
    /\ cr.here /\ ~cr.deleting
    /\ cr' = [cr EXCEPT !.deleting = cr.managed, !.here = cr.managed]
    /\ queued' = TRUE
    /\ UNCHANGED <<cond, object, pc, copies, drift, budget>>

\* Somebody else makes the object o.
Drifts(o) ==
    /\ exists
    /\ Spend("drift")
    /\ object' = o
    /\ drift' = TRUE
    /\ UNCHANGED <<cr, cond, queued, pc, copies>>

Environment(Specs) == Resync \/ Crash \/ EditSpec(Specs) \/ DeleteCR

-----------------------------------------------------------------------------
(* Properties of every kind.                                               *)

\* The object can be found.  One that is found by an id which AWS has given it is lost
\* if that is not on record: the patch of the status after its creation did not come about.
known == exists /\ cr.id

\* The life of the CR and of an object that can be found is one that Lifecycle allows:
\* created only for a CR with the finalizer, which comes off only when the object is gone.
L == INSTANCE Lifecycle WITH
        here <- cr.here, managed <- cr.managed, deleting <- cr.deleting, exists <- known
ImplementsLifecycle == L!Spec
=============================================================================
