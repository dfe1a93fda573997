----------------------------- MODULE References -----------------------------
(***************************************************************************)
(* Custom resources that refer to each other: roles name the policies to   *)
(* be attached to them, and instance profiles their role, by their ARN or  *)
(* name (ids) or by the CR that stands for them (refs).  references.go of  *)
(* src/pkg/resource/role and instance_profile; user and group have the     *)
(* same code for policies.                                                 *)
(*                                                                         *)
(* Every CR has a reconcile of its own, and these run concurrently: one    *)
(* resolves its references by reading the conditions that another one      *)
(* reports, while its objects in IAM may be gone or not yet there.         *)
(*                                                                         *)
(* Abstractions.  The rest of a spec is "bad" (refused by IAM as           *)
(* malformed) or not; the steps that the modules of the kinds detail, the  *)
(* reading of an object among them, are one step here, and the patches of  *)
(* a CR are one with the call before them.  Permissions boundaries are     *)
(* left out: their references are resolved like policies.  A CR that is    *)
(* synced has the field that its reference stands for.                     *)
(***************************************************************************)
EXTENDS Naturals

CONSTANTS
    Policies, Roles, Profiles,  \* the CRs, by kind
    Specs,                      \* the specs that a CR may be given
    Creations,                  \* bound on the times that each CR is created
    Budget                      \* bound on edits, and on failing calls and crashes

CRs == Policies \cup Roles \cup Profiles

Misfortunes == {"edit", "trouble"}

\* What a CR of a kind may refer to.
Referable(c) == IF c \in Roles THEN Policies ELSE IF c \in Profiles THEN Roles ELSE {}

Spec_(c) == [refs : SUBSET Referable(c), ids : SUBSET Referable(c), bad : BOOLEAN]

ASSUME ReferencesAssumption ==
    /\ Policies \cap Roles = {} /\ Policies \cap Profiles = {} /\ Roles \cap Profiles = {}
    /\ DOMAIN Specs = CRs
    /\ \A c \in CRs : Specs[c] # {} /\ Specs[c] \subseteq Spec_(c)
    /\ Creations \in [CRs -> Nat]
    /\ Budget \in [Misfortunes -> Nat]

VARIABLES
    cr,       \* the CRs: here, deleting, managed (the finalizer), spec
    cond,     \* the conditions that they report
    queued,   \* the CRs whose keys are in the work queue
    exists,   \* the CRs whose objects are in IAM
    uses,     \* the policies attached to, or the role in, each object
    pc,       \* where the reconcile of each CR is
    op,       \* "sync" or "delete"
    copy,     \* its copy of the spec: the references, those left to be resolved, the ids
              \* that were given and those that there are now
    latest,   \* the uses of the object as it has read, and then changed, them
    creations, budget  \* what is left of Creations and Budget

vars == <<cr, cond, queued, exists, uses, pc, op, copy, latest, creations, budget>>

Blank(spec) == [here |-> FALSE, deleting |-> FALSE, managed |-> FALSE, spec |-> spec]

NoConditions == [synced |-> FALSE, terminal |-> FALSE, recoverable |-> FALSE]
NoCopy == [refs |-> {}, given |-> {}, ids |-> {}, left |-> {}, bad |-> FALSE]

Places == {"idle", "resolve", "read", "create", "update", "delete"}

\* A reconcile makes calls for a CR only when all its references are resolved.
TypeOK ==
    /\ DOMAIN cr = CRs
    /\ copy \in [CRs -> [refs : SUBSET CRs, given : SUBSET CRs, ids : SUBSET CRs,
                        left : SUBSET CRs, bad : BOOLEAN]]
    /\ uses \in [CRs -> SUBSET CRs] /\ latest \in [CRs -> SUBSET CRs]
    /\ \A c \in CRs :
          /\ cr[c] \in [here : BOOLEAN, deleting : BOOLEAN, managed : BOOLEAN, spec : Spec_(c)]
          /\ uses[c] \subseteq Referable(c) /\ latest[c] \subseteq Referable(c)
          /\ uses[c] # {} => c \in exists
          /\ copy[c].left \subseteq copy[c].refs
          /\ pc[c] = "idle" => copy[c] = NoCopy
          /\ pc[c] \in {"read", "create", "update"} /\ op[c] = "sync" => copy[c].left = {}
    /\ cond \in [CRs -> [synced : BOOLEAN, terminal : BOOLEAN, recoverable : BOOLEAN]]
    /\ queued \subseteq CRs /\ exists \subseteq CRs
    /\ pc \in [CRs -> Places]
    /\ op \in [CRs -> {"sync", "delete"}]
    /\ creations \in [CRs -> Nat] /\ budget \in [Misfortunes -> Nat]

Init ==
    /\ cr = [c \in CRs |-> Blank(CHOOSE s \in Specs[c] : TRUE)]
    /\ cond = [c \in CRs |-> NoConditions]
    /\ queued = {} /\ exists = {}
    /\ uses = [c \in CRs |-> {}] /\ latest = [c \in CRs |-> {}]
    /\ pc = [c \in CRs |-> "idle"]
    /\ op = [c \in CRs |-> "sync"]
    /\ copy = [c \in CRs |-> NoCopy]
    /\ creations = Creations /\ budget = Budget

Spend(what) ==
    /\ budget[what] > 0
    /\ budget' = [budget EXCEPT ![what] = @ - 1]

Idle(c) ==
    /\ pc' = [pc EXCEPT ![c] = "idle"]
    /\ op' = [op EXCEPT ![c] = "sync"]
    /\ copy' = [copy EXCEPT ![c] = NoCopy]
    /\ latest' = [latest EXCEPT ![c] = {}]

Goto(c, place) == pc' = [pc EXCEPT ![c] = place]

(***************************************************************************)
(* Conditions.                                                             *)
(***************************************************************************)
updateConditions_TerminalStays(k, outcome) ==  \* mutant: Terminal is set and never cleared
    IF outcome = "Terminal" THEN [k EXCEPT !.terminal = TRUE]
    ELSE [k EXCEPT !.recoverable = outcome = "Recoverable"]

\* A terminal error leaves what is said of a recoverable one.
updateConditions(k, outcome) ==
    IF outcome = "Terminal" THEN [k EXCEPT !.terminal = TRUE]
    ELSE [k EXCEPT !.terminal = FALSE, !.recoverable = outcome = "Recoverable"]

\* The reconcile ends with the outcome of a call.
Finish(c, outcome) ==
    /\ cond' = [cond EXCEPT ![c] =
                   [updateConditions(@, outcome) EXCEPT !.synced = outcome = "Synced"]]
    /\ queued' = IF outcome \in {"Unsynced", "Recoverable"} THEN queued \cup {c} ELSE queued
    /\ Idle(c)

\* It ends before any call: the resource manager has no say in the conditions.
Unresolved(c) ==
    /\ cond' = [cond EXCEPT ![c].synced = FALSE]
    /\ queued' = queued \cup {c}
    /\ Idle(c)
    /\ UNCHANGED <<cr, exists, uses, creations, budget>>

Refused(c, outcome) ==
    /\ Finish(c, outcome)
    /\ UNCHANGED <<cr, exists, uses, creations, budget>>

CallFails(c) ==
    /\ Spend("trouble")
    /\ Finish(c, "Recoverable")
    /\ UNCHANGED <<cr, exists, uses, creations>>

(***************************************************************************)
(* References.                                                             *)
(***************************************************************************)
Reconcile(c) ==
    /\ pc[c] = "idle" /\ c \in queued
    /\ queued' = queued \ {c}
    /\ IF cr[c].here
       THEN LET s == cr[c].spec
            IN  /\ op' = [op EXCEPT ![c] = IF cr[c].deleting THEN "delete" ELSE "sync"]
                \* For a deletion errors of the resolution are ignored.
                /\ Goto(c, IF cr[c].deleting \/ s.refs = {} THEN "read" ELSE "resolve")
                /\ copy' = [copy EXCEPT ![c] = [refs |-> s.refs, given |-> s.ids, ids |-> s.ids,
                                                left |-> s.refs, bad |-> s.bad]]
       ELSE UNCHANGED <<pc, op, copy>>
    /\ UNCHANGED <<cr, cond, exists, uses, latest, creations, budget>>

\* getReferencedResourceState: the CR is there, is not terminal and is synced.  Its
\* deletion may have been asked for.
Ready(d) == cr[d].here /\ ~cond[d].terminal /\ cond[d].synced

ResolveReference_Skips(c) ==  \* mutant: a reference that cannot be resolved is passed over
    /\ pc[c] = "resolve"
    /\ \E d \in copy[c].left :
          copy' = [copy EXCEPT ![c].left = @ \ {d},
                               ![c].ids = IF Ready(d) THEN @ \cup {d} ELSE @]
    /\ UNCHANGED <<cr, cond, queued, exists, uses, pc, op, latest, creations, budget>>

ResolveReference_ErrorLost(c) ==  \* mutant: the error is that of a shadowed variable
    /\ pc[c] = "resolve"
    /\ \E d \in copy[c].left :
          /\ IF Ready(d)
             THEN copy' = [copy EXCEPT ![c].left = @ \ {d}, ![c].ids = @ \cup {d}] /\ UNCHANGED pc
             ELSE Goto(c, "read") /\ UNCHANGED copy
          /\ UNCHANGED <<cr, cond, queued, exists, uses, op, latest, creations, budget>>

\* Each id is filled in as its reference is resolved; the first that cannot be is an error.
ResolveReference(c) ==
    /\ pc[c] = "resolve"
    /\ \E d \in copy[c].left :
          \/ /\ Ready(d)
             /\ copy' = [copy EXCEPT ![c].left = @ \ {d}, ![c].ids = @ \cup {d}]
             /\ UNCHANGED <<cr, cond, queued, exists, uses, pc, op, latest, creations, budget>>
          \/ ~Ready(d) /\ Unresolved(c)

\* A spec that has both ids and references is an error, but only after these have been
\* resolved.
validateReferenceFields(k) == k.refs = {} \/ k.given = {}

ResolveReferences(c) ==
    /\ pc[c] = "resolve" /\ copy[c].left = {}
    /\ \/ /\ validateReferenceFields(copy[c])
          /\ Goto(c, "read")
          /\ UNCHANGED <<cr, cond, queued, exists, uses, op, copy, latest, creations, budget>>
       \/ ~validateReferenceFields(copy[c]) /\ Unresolved(c)

ClearResolvedReferences_Keeps(k) == k.ids  \* mutant: the resolved ids are left in the spec

\* The ids that the reconciler's copy has when it is patched into the CR: none that stand
\* for a reference.
ClearResolvedReferences(k) == IF k.refs # {} THEN {} ELSE k.ids

(***************************************************************************)
(* The calls.                                                              *)
(***************************************************************************)
\* With the finalizer gone Kubernetes removes the CR.
MarkUnmanaged(c) ==
    /\ cr' = [cr EXCEPT ![c] = Blank(@.spec)]
    /\ Idle(c)

Desired_NotEmptied(c) == copy[c].ids  \* mutant: sdkDelete without the emptying

\* What the object is to use: nothing if it is to be deleted, as sdkDelete has it first.
Desired(c) == IF op[c] = "delete" THEN {} ELSE copy[c].ids

\* The finalizer is put on the CR before an object is created.
ReadOne(c) ==
    /\ pc[c] = "read"
    /\ \/ /\ c \in exists
          /\ latest' = [latest EXCEPT ![c] = uses[c]]
          /\ Goto(c, "update")
          /\ UNCHANGED <<cr, cond, queued, exists, uses, op, copy, creations, budget>>
       \/ /\ c \notin exists /\ op[c] = "sync"
          /\ IF cr[c].here
             THEN /\ cr' = [cr EXCEPT ![c].managed = TRUE]
                  /\ Goto(c, "create")
                  /\ UNCHANGED <<op, copy, latest>>
             ELSE UNCHANGED cr /\ Idle(c)
          /\ UNCHANGED <<cond, queued, exists, uses, creations, budget>>
       \/ /\ c \notin exists /\ op[c] = "delete"
          /\ MarkUnmanaged(c)
          /\ UNCHANGED <<cond, queued, exists, uses, creations, budget>>
       \/ CallFails(c)

\* What the copy has more than the CR had when it was read comes into the CR.
PatchCR(c, outcome) ==
    /\ cr' = [cr EXCEPT ![c].spec.ids =
                 @ \cup (ClearResolvedReferences(copy[c]) \ copy[c].given)]
    /\ Finish(c, outcome)

Create_IsSynced(c) ==  \* mutant: without SetSynced(False) in sdkCreate
    /\ pc[c] = "create"
    /\ ~copy[c].bad
    /\ exists' = exists \cup {c}
    /\ PatchCR(c, "Synced")
    /\ UNCHANGED <<uses, creations, budget>>

\* Neither a role's policies nor a profile's role are part of the call: these are not
\* synced then, and it takes another reconcile to attach what they use.
Create(c) ==
    /\ pc[c] = "create"
    /\ \/ /\ ~copy[c].bad
          /\ exists' = exists \cup {c}
          /\ PatchCR(c, IF c \in Policies THEN "Synced" ELSE "Unsynced")
          /\ UNCHANGED <<uses, creations, budget>>
       \/ copy[c].bad /\ Refused(c, "Terminal")
       \/ CallFails(c)

ToAttach(c) == Desired(c) \ latest[c]
ToDetach(c) == latest[c] \ Desired(c)

\* A role's policies are attached before others are detached; a profile has room for
\* one role.
Attach(c) ==
    /\ pc[c] = "update"
    /\ c \in Profiles => ToDetach(c) = {}
    /\ \E d \in ToAttach(c) :
          \/ /\ {c, d} \subseteq exists
             /\ uses' = [uses EXCEPT ![c] = @ \cup {d}]
             /\ latest' = [latest EXCEPT ![c] = @ \cup {d}]
             /\ UNCHANGED <<cr, cond, queued, exists, pc, op, copy, creations, budget>>
          \/ ~({c, d} \subseteq exists) /\ Refused(c, "Recoverable")
          \/ CallFails(c)

Detach(c) ==
    /\ pc[c] = "update"
    /\ c \in Roles => ToAttach(c) = {}
    /\ \E d \in ToDetach(c) :
          \/ /\ uses' = [uses EXCEPT ![c] = @ \ {d}]
             /\ latest' = [latest EXCEPT ![c] = @ \ {d}]
             /\ UNCHANGED <<cr, cond, queued, exists, pc, op, copy, creations, budget>>
          \/ CallFails(c)

\* The rest of sdkUpdate, or the next step of sdkDelete.
Update(c) ==
    /\ pc[c] = "update"
    /\ ToAttach(c) = {} /\ ToDetach(c) = {}
    /\ \/ /\ op[c] = "delete"
          /\ Goto(c, "delete")
          /\ UNCHANGED <<cr, cond, queued, exists, uses, op, copy, latest, creations, budget>>
       \/ /\ op[c] = "sync" /\ ~copy[c].bad
          /\ PatchCR(c, "Synced")
          /\ UNCHANGED <<exists, uses, creations, budget>>
       \/ op[c] = "sync" /\ copy[c].bad /\ Refused(c, "Terminal")
       \/ op[c] = "sync" /\ CallFails(c)

\* IAM refuses (DeleteConflict) while the object is used or uses others.
Delete(c) ==
    /\ pc[c] = "delete"
    /\ LET conflict == uses[c] # {} \/ \E d \in CRs : c \in uses[d]
       IN  \/ /\ ~conflict
              /\ exists' = exists \ {c}
              /\ MarkUnmanaged(c)
              /\ UNCHANGED <<cond, queued, uses, creations, budget>>
           \/ conflict /\ Refused(c, "Recoverable")
           \/ CallFails(c)

Controller(c) ==
    \/ Reconcile(c) \/ ResolveReference(c) \/ ResolveReferences(c)
    \/ ReadOne(c) \/ Create(c) \/ Attach(c) \/ Detach(c) \/ Update(c) \/ Delete(c)

(***************************************************************************)
(* The environment.                                                        *)
(***************************************************************************)
Resync(c) ==
    /\ pc[c] = "idle" /\ cr[c].here /\ c \notin queued
    /\ queued' = queued \cup {c}
    /\ UNCHANGED <<cr, cond, exists, uses, pc, op, copy, latest, creations, budget>>

CreateCR(c) ==
    /\ ~cr[c].here
    /\ creations[c] > 0
    /\ creations' = [creations EXCEPT ![c] = @ - 1]
    /\ \E s \in Specs[c] : cr' = [cr EXCEPT ![c] = [Blank(s) EXCEPT !.here = TRUE]]
    /\ cond' = [cond EXCEPT ![c] = NoConditions]
    /\ queued' = queued \cup {c}
    /\ UNCHANGED <<exists, uses, pc, op, copy, latest, budget>>

EditSpec(c) ==
    /\ cr[c].here /\ ~cr[c].deleting
    /\ Spend("edit")
    /\ \E s \in Specs[c] \ {cr[c].spec} : cr' = [cr EXCEPT ![c].spec = s]
    /\ queued' = queued \cup {c}
    /\ UNCHANGED <<cond, exists, uses, pc, op, copy, latest, creations>>

\* Kubernetes marks a CR that has a finalizer, and removes one that has none.
DeleteCR(c) ==
    /\ cr[c].here /\ ~cr[c].deleting
    /\ cr' = [cr EXCEPT ![c] = IF @.managed THEN [@ EXCEPT !.deleting = TRUE] ELSE Blank(@.spec)]
    /\ queued' = queued \cup {c}
    /\ UNCHANGED <<cond, exists, uses, pc, op, copy, latest, creations, budget>>

\* The controller dies; the next one finds every CR in its queue.
Crash ==
    /\ \E c \in CRs : pc[c] # "idle"
    /\ Spend("trouble")
    /\ queued' = {c \in CRs : cr[c].here}
    /\ pc' = [c \in CRs |-> "idle"]
    /\ op' = [c \in CRs |-> "sync"]
    /\ copy' = [c \in CRs |-> NoCopy]
    /\ latest' = [c \in CRs |-> {}]
    /\ UNCHANGED <<cr, cond, exists, uses, creations>>

Next ==
    \/ \E c \in CRs :
          Controller(c) \/ Resync(c) \/ CreateCR(c) \/ EditSpec(c) \/ DeleteCR(c)
    \/ Crash

Spec == Init /\ [][Next]_vars

\* Every kind has a worker of its own, and the queue is fair.
FairSpec == Spec /\ \A c \in CRs : WF_vars(Controller(c)) /\ WF_vars(Resync(c))

-----------------------------------------------------------------------------
(* Properties.                                                             *)

\* What a spec asks an object to use.
Asked(s) == s.refs \cup s.ids

\* A CR that reports that it is synced, with nothing more to be done for it, has an object
\* which uses what its spec refers to and nothing else, all of which is in IAM: a
\* reference that was resolved a while ago, or not at all, does not go unnoticed.
Grounded ==
    \A c \in CRs :
        /\ cr[c].here /\ ~cr[c].deleting /\ cond[c].synced
        /\ pc[c] = "idle" /\ c \notin queued
        => c \in exists /\ uses[c] = Asked(cr[c].spec) /\ uses[c] \subseteq exists

\* The controller never writes into a CR what its references have been resolved to, which
\* would make it a spec with both, refused from then on (ClearResolvedReferences).
SpecsKept == \A c \in CRs : cr[c].spec \in Specs[c]

\* An update takes nothing off an object that the spec refers to, in whatever state the
\* referred CR is: an unresolved reference stops the update, it does not mean nothing.
GrantsKept ==
    [][\A c \in CRs : \A d \in uses[c] \ uses'[c] :
          op[c] = "delete" \/ d \notin copy[c].refs \cup copy[c].given]_vars

\* A CR that asks for nothing that cannot be had.
Sane(c) == cr[c].here /\ ~cr[c].deleting /\ ~cr[c].spec.bad
              /\ (cr[c].spec.refs = {} \/ cr[c].spec.ids = {})

\* The CRs that c needs, itself among them.
Needed(c) ==
    LET direct == Asked(cr[c].spec)
    IN  {c} \cup direct \cup UNION {Asked(cr[d].spec) : d \in direct}

\* "initially the reference resolution fails and then when the referenced resource gets
\* created, then all resolutions eventually pass and resources get synced"
\* (test/e2e/tests/test_references.py:143-145), in whatever order the CRs are created,
\* edited and deleted, and with no error left on them.
ComesUp ==
    <>[](\A c \in CRs : (\A d \in Needed(c) : Sane(d)) =>
            cond[c] = [synced |-> TRUE, terminal |-> FALSE, recoverable |-> FALSE])

\* A CR whose deletion was asked for stays only because of a living CR whose object uses
\* its own: one that still refers to it, or that is not synced, since it cannot be updated.
Lingers ==
    <>[](\A c \in CRs : cr[c].here /\ cr[c].deleting =>
            \E d \in CRs :
                /\ c \in uses[d]
                /\ cr[d].here /\ ~cr[d].deleting
                /\ c \in Asked(cr[d].spec) \/ ~cond[d].synced)
=============================================================================
