-------------------------- MODULE ServiceLinkedRole --------------------------
(***************************************************************************)
(* The resource manager of src/pkg/resource/service_linked_role.  AWS picks *)
(* the name of the role, which is kept in the CR's status and is all that  *)
(* the role can be found by; of the role itself only the description can   *)
(* be changed.  DeleteServiceLinkedRole hands AWS a task, which fails if   *)
(* the service still uses the role.                                        *)
(*                                                                         *)
(* The names that other kinds use as well begin with SLR here, so that a   *)
(* module may extend this one next to another.                             *)
(*                                                                         *)
(* Abstractions.  The service and the suffix are fixed (they are           *)
(* immutable), and nobody else creates a role for them.                    *)
(***************************************************************************)
EXTENDS Reconciler

CONSTANTS
    SLRSpecs,       \* the specs a user may submit
    Descriptions    \* descriptions of a role

\* A spec is a role that is not used and that nobody wants deleted.
SLRContent == [description : Maybe(Descriptions), used : BOOLEAN,
               task : {"none", "running", "failed"}]

ASSUME ServiceLinkedRoleAssumption ==
    /\ SLRSpecs # {}
    /\ SLRSpecs \subseteq [description : Maybe(Descriptions), used : {FALSE}, task : {"none"}]
    /\ None \notin Descriptions
    /\ ~ByName

\* No field is late-initialized.
SLRPlaces == {"read", "update", "delete"}

SLRTypeOK == CommonTypes(SLRContent, SLRPlaces, {}) /\ pc # "lateInit"

\* InvalidInput is terminal; it is what IAM answers to a second role for the service.
SLRterminalAWSError_Never(code) == "Recoverable"  \* mutant: no code is terminal

SLRterminalAWSError(code) == IF code = "InvalidInput" THEN "Terminal" ELSE "Recoverable"

SLRAfter_LateInit(latestDescription) ==  \* mutant: a field to be late-initialized
    IF op = "delete" THEN "delete"
    ELSE IF desired.description # latestDescription THEN "update" ELSE "lateInit"

\* Where the reconcile goes when it has found this description.
SLRAfter(latestDescription) ==
    IF op = "delete" THEN "delete"
    ELSE IF desired.description # latestDescription THEN "update" ELSE "patch"

RoleFound ==
    /\ id /\ exists
    /\ latest' = object
    /\ Goto(SLRAfter(object.description))
    /\ UNCHANGED <<object, op, id, desired, todo>>

GetRole_AnyErrorIsNotFound ==  \* mutant: no look at the error code
    /\ pc = "read"
    /\ \/ RoleFound
       \/ ~(id /\ exists) /\ NotFound
       \/ Spend("fault") /\ pc' = (IF op = "delete" THEN "unmanage" ELSE "manage")
          /\ UNCHANGED <<cr, cond, queued, drift, object, copies>>

\* Without a name on record there is nothing to ask for.
GetRole ==
    /\ pc = "read"
    /\ \/ RoleFound
       \/ ~(id /\ exists) /\ NotFound
       \/ id /\ CallFails

\* A service may give its role a description of its own when there is none.  What IAM
\* answers becomes the spec.
CreateServiceLinkedRole ==
    /\ pc = "create"
    /\ \/ /\ ~exists
          /\ \E d \in Maybe(Descriptions) :
                /\ desired.description \in {None, d}
                /\ object' = [desired EXCEPT !.description = d]
          /\ latest' = object'
          /\ op' = "create" /\ id' = TRUE
          /\ Goto("patch")
          /\ UNCHANGED <<desired, todo>>
       \/ exists /\ Refused(SLRterminalAWSError("InvalidInput"))
       \/ CallFails

\* A description that is nil is not sent, and what IAM makes of that is left open.
UpdateRole ==
    /\ pc = "update"
    /\ \/ /\ exists
          /\ \E d \in IF desired.description # None THEN {desired.description}
                      ELSE {None, object.description} :
                Answered([object EXCEPT !.description = d], "patch")
       \/ ~exists /\ Refused(SLRterminalAWSError("NoSuchEntity"))
       \/ CallFails

SLRPatchCR ==
    Patch("Synced",
          IF op = "create" /\ latest.description # desired.description
          THEN [cr.spec EXCEPT !.description = latest.description]
          ELSE cr.spec)

\* The task is accepted, and sdkDelete returns (nil, nil).
DeleteServiceLinkedRole ==
    /\ pc = "delete"
    /\ \/ exists /\ Answered([object EXCEPT !.task = "running"], "unmanage")
       \/ ~exists /\ Refused(SLRterminalAWSError("NoSuchEntity"))
       \/ CallFails

\* AWS is done with the task.
TaskEnds ==
    /\ exists
    /\ object.task = "running"
    /\ object' = IF object.used THEN [object EXCEPT !.task = "failed"] ELSE None
    /\ UNCHANGED <<cr, cond, queued, pc, copies, drift, budget>>

\* Somebody else describes the role anew or deletes it; the service begins or ceases to
\* use it.
SLRDrift ==
    \/ \E d \in Descriptions : exists /\ Drifts([object EXCEPT !.description = d])
    \/ exists /\ Drifts([object EXCEPT !.used = ~@])
    \/ Drifts(None)

SLRController ==
    \/ Reconcile \/ GetRole \/ MarkManaged \/ CreateServiceLinkedRole \/ UpdateRole
    \/ SLRPatchCR \/ DeleteServiceLinkedRole \/ MarkUnmanaged

SLRNext == SLRController \/ TaskEnds \/ Environment(SLRSpecs) \/ SLRDrift

SLRSpec == Init(SLRSpecs) /\ [][SLRNext]_vars

SLRFairSpec == SLRSpec /\ WF_vars(SLRController) /\ WF_vars(Resync) /\ WF_vars(TaskEnds)

-----------------------------------------------------------------------------
(* Properties.  ImplementsLifecycle is not one of them: see DeletionAsked.  *)

\* The finalizer does not wait for the deletion, which may take long or fail, but no
\* role whose name is on record loses its CR before AWS was asked to delete it.
DeletionAsked == known /\ ~(cr.here /\ cr.managed) => object.task # "none"

\* Once edits, failures and changes by others are over, the role has the description of
\* the spec, if that has one, and the CR reports it.  If the name of the role is lost with
\* the patch of the status, the attempts to create another one report that.  A CR whose
\* deletion was asked for is gone then, whatever has become of the deletion.
SLRConverges ==
    <>[](cr.here =>
            /\ ~cr.deleting
            /\ IF exists /\ ~cr.id THEN cond = "Terminal"
               ELSE /\ exists
                    /\ cr.spec.description \in {None, object.description}
                    /\ cond = "Synced")

\* MarkManaged's promise ("the underlying CR may not be deleted until ACK is finished
\* cleaning up"): with the CR gone, the role goes in the end.
RoleGoesToo == ~cr.here ~> ~exists
=============================================================================
