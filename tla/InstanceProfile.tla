--------------------------- MODULE InstanceProfile ---------------------------
(***************************************************************************)
(* The resource manager of src/pkg/resource/instance_profile: a profile    *)
(* carries at most one role, and tags.                                     *)
(*                                                                         *)
(* Abstractions.  Roles and tags are opaque; that a role is deleted while  *)
(* it is attached is left out (IAM refuses that).  The path is left out:   *)
(* no call changes it, and late initialization only copies it.  So a path  *)
(* that was edited is found to differ, stays, and is reported as synced:   *)
(* what is said below of a profile is said of its role and its tags.       *)
(***************************************************************************)
EXTENDS Reconciler

CONSTANTS
    Specs,          \* the specs a user may submit
    Roles,          \* names of roles
    TagKeys,        \* tag keys
    SystemKeys,     \* those with the prefix "aws:"
    TagValues       \* tag values

Content == [role : Maybe(Roles), tags : [TagKeys -> Maybe(TagValues)]]

ASSUME InstanceProfileAssumption ==
    /\ ByName
    /\ Specs # {} /\ Specs \subseteq Content
    /\ SystemKeys \subseteq TagKeys
    /\ \A s \in Specs, k \in SystemKeys : s.tags[k] = None
    /\ None \notin Roles \cup TagValues \cup Content

CallNames == {"UntagInstanceProfile", "TagInstanceProfile", "RemoveRoleFromInstanceProfile",
              "AddRoleToInstanceProfile"}

Places == {"read", "update", "deleteProfile"}

\* There are calls left to make exactly while an update, or an emptying, is under way.
TypeOK ==
    /\ CommonTypes(Content, Places, CallNames)
    /\ (todo # {}) = (pc = "update")

When(name, condition) == IF condition THEN {name} ELSE {}

(* Tags are compared as (key, value) pairs. *)
ToRemove(d, l) == {k \in TagKeys : l.tags[k] \notin {None, d.tags[k]}}
ToAdd(d, l) == {k \in TagKeys : d.tags[k] \notin {None, l.tags[k]}}

SyncTags_AddOnly(d, l) ==  \* mutant: without removeTags
    When("TagInstanceProfile", ToAdd(d, l) # {})

SyncTags(d, l) ==
    When("UntagInstanceProfile", ToRemove(d, l) # {})
        \cup When("TagInstanceProfile", ToAdd(d, l) # {})

SyncRole_AttachOnly(d, l) ==  \* mutant: the old role is not detached first
    When("AddRoleToInstanceProfile", d.role \notin {None, l.role})
        \cup When("RemoveRoleFromInstanceProfile", d.role = None /\ l.role # None)

\* Another role means that the old one is detached and the new one attached.
SyncRole(d, l) ==
    When("RemoveRoleFromInstanceProfile", l.role \notin {None, d.role})
        \cup When("AddRoleToInstanceProfile", d.role \notin {None, l.role})

Order_TagFirst ==  \* mutant: syncTags in the order of the role's
    <<"TagInstanceProfile", "UntagInstanceProfile", "RemoveRoleFromInstanceProfile",
      "AddRoleToInstanceProfile">>

\* customUpdateInstanceProfile makes its calls in this order.
Order == <<"UntagInstanceProfile", "TagInstanceProfile", "RemoveRoleFromInstanceProfile",
           "AddRoleToInstanceProfile">>

Due(name) ==
    /\ name \in todo
    /\ \E i \in DOMAIN Order : Order[i] = name /\ \A j \in 1..(i - 1) : Order[j] \notin todo

After_DeleteAtOnce(calls) ==  \* mutant: DeleteInstanceProfile is not kept waiting
    IF op = "delete" THEN "deleteProfile" ELSE IF calls # {} THEN "update" ELSE "lateInit"

\* Where the reconcile goes with these calls left to make.
After(calls) ==
    IF calls # {} THEN "update" ELSE IF op = "delete" THEN "deleteProfile" ELSE "lateInit"

\* Tags of AWS services found on the profile join the desired ones.
MirrorAWSTags(d, l) ==
    [d EXCEPT !.tags = [k \in TagKeys |->
        IF k \in SystemKeys /\ l.tags[k] # None THEN l.tags[k] ELSE d.tags[k]]]

\* sdkDelete detaches the role that was observed, and nothing else.
Emptying(o) == When("RemoveRoleFromInstanceProfile", o.role # None)

\* ReadOne is one call: GetInstanceProfile answers with the role and the tags.
GetInstanceProfile ==
    /\ pc = "read"
    /\ \/ /\ exists
          /\ LET goal == IF op = "delete" THEN desired ELSE MirrorAWSTags(desired, object)
                 calls == IF op = "delete" THEN Emptying(object)
                          ELSE SyncTags(goal, object) \cup SyncRole(goal, object)
             IN  /\ latest' = object
                 /\ desired' = goal
                 /\ todo' = calls
                 /\ Goto(After(calls))
          /\ UNCHANGED <<object, op, id>>
       \/ ~exists /\ NotFound
       \/ CallFails

\* The role is not part of the call; Synced=False asks for another reconcile, which
\* attaches it.
CreateInstanceProfile ==
    /\ pc = "create"
    /\ \/ /\ object' = [role |-> None, tags |-> desired.tags]
          /\ op' = "create"
          /\ Goto("lateInit")
          /\ UNCHANGED <<id, desired, latest, todo>>
       \/ CallFails

\* A call of the update or of the deletion is answered: the profile is o now.
Done(name, o) ==
    /\ object' = o
    /\ todo' = todo \ {name}
    /\ Goto(After(todo \ {name}))
    /\ UNCHANGED <<op, id, desired, latest>>

RemoveTags ==
    /\ pc = "update" /\ Due("UntagInstanceProfile")
    /\ \/ /\ exists
          /\ Done("UntagInstanceProfile", [object EXCEPT !.tags = [k \in TagKeys |->
                IF k \in ToRemove(desired, latest) THEN None ELSE object.tags[k]]])
       \/ ~exists /\ Refused("Recoverable")
       \/ CallFails

AddTags ==
    /\ pc = "update" /\ Due("TagInstanceProfile")
    /\ \/ /\ exists
          /\ Done("TagInstanceProfile", [object EXCEPT !.tags = [k \in TagKeys |->
                IF k \in ToAdd(desired, latest) THEN desired.tags[k] ELSE object.tags[k]]])
       \/ ~exists /\ Refused("Recoverable")
       \/ CallFails

\* IAM refuses to detach a role that the profile does not carry.
DetachRole ==
    /\ pc = "update" /\ Due("RemoveRoleFromInstanceProfile")
    /\ \/ /\ exists /\ object.role = latest.role
          /\ Done("RemoveRoleFromInstanceProfile", [object EXCEPT !.role = None])
       \/ /\ exists => object.role # latest.role
          /\ Refused("Recoverable")
       \/ CallFails

\* IAM refuses a second role (LimitExceeded).
AttachRole ==
    /\ pc = "update" /\ Due("AddRoleToInstanceProfile")
    /\ \/ /\ exists /\ object.role = None
          /\ Done("AddRoleToInstanceProfile", [object EXCEPT !.role = desired.role])
       \/ /\ exists => object.role # None
          /\ Refused("Recoverable")
       \/ CallFails

\* The profile is read once more, for its path.
LateInitialize ==
    /\ pc = "lateInit"
    /\ \/ exists /\ Answered(object, "patch")
       \/ ~exists /\ Refused("Recoverable")
       \/ CallFails

PatchCR == Patch(IF op = "create" THEN "Unsynced" ELSE "Synced", cr.spec)

\* IAM refuses (DeleteConflict) while the profile carries a role.
DeleteInstanceProfile ==
    /\ pc = "deleteProfile"
    /\ \/ exists /\ object.role = None /\ Answered(None, "unmanage")
       \/ (exists => object.role # None) /\ Refused("Recoverable")
       \/ CallFails

\* Somebody else swaps or detaches the role, an AWS service tags the profile, or it
\* is deleted.
Drift ==
    \/ \E r \in Maybe(Roles) : exists /\ Drifts([object EXCEPT !.role = r])
    \/ \E k \in SystemKeys, v \in TagValues : exists /\ Drifts([object EXCEPT !.tags[k] = v])
    \/ Drifts(None)

Update == RemoveTags \/ AddTags \/ DetachRole \/ AttachRole

Controller ==
    \/ Reconcile \/ GetInstanceProfile \/ MarkManaged \/ CreateInstanceProfile \/ Update
    \/ LateInitialize \/ PatchCR \/ DeleteInstanceProfile \/ MarkUnmanaged

Next == Controller \/ Environment(Specs) \/ Drift

Spec == Init(Specs) /\ [][Next]_vars

FairSpec == Spec /\ WF_vars(Controller) /\ WF_vars(Resync)

-----------------------------------------------------------------------------
(* Properties.                                                             *)

\* When the new role's turn comes the old one is off the profile, so that IAM's
\* limit of one role is never met by an update that nobody disturbs: syncRole
\* detaches before it attaches.
RoomForRole ==
    pc = "update" /\ Due("AddRoleToInstanceProfile") /\ exists /\ ~drift => object.role = None

\* Success is reported only for a profile that has the desired role and exactly the
\* desired tags: syncTags removes before it adds, so that a changed value stays.
SuccessMeansApplied ==
    pc \in {"lateInit", "patch"} /\ op = "sync" /\ ~drift => exists /\ object = desired

\* Once edits, failures, crashes and changes by others are over, the profile has the role
\* and the tags of the spec, for good, and the CR reports it, unless its deletion was asked for: then
\* it is gone, whatever role others attach to the profile.
Converges ==
    <>[](cr.here =>
            /\ ~cr.deleting
            /\ exists
            /\ object.role = cr.spec.role
            /\ \A k \in TagKeys \ SystemKeys : object.tags[k] = cr.spec.tags[k]
            /\ cond = "Synced")
=============================================================================
