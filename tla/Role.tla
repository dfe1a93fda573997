-------------------------------- MODULE Role --------------------------------
(***************************************************************************)
(* The life of one Role custom resource: the resource manager of           *)
(* src/pkg/resource/role, called by the reconciler, against the IAM API.   *)
(*                                                                         *)
(* Every call to IAM is a step of its own, so a reconcile can be overtaken *)
(* by a user who edits or deletes the custom resource (CR), by somebody    *)
(* who changes the role behind the controller's back, by a failing call    *)
(* and by a crash of the controller, between any two calls.                *)
(*                                                                         *)
(* Abstractions.  Documents, ARNs, names, paths, descriptions and sessions *)
(* are opaque values compared by equality.  The role name is fixed.        *)
(* Status fields other than the conditions are left out: nothing in this   *)
(* package reads them back.                                                *)
(***************************************************************************)
EXTENDS Naturals

CONSTANTS
    PolicyARNs,       \* managed policies, attached by ARN (also boundaries)
    InlineNames,      \* names of inline policies
    Docs,             \* policy documents
    BadDocs,          \* documents IAM refuses with MalformedPolicyDocument
    Unescape,         \* what url.QueryUnescape makes of a document
    TagKeys,          \* tag keys
    SystemKeys,       \* those with the prefix "aws:", owned by AWS services
    TagValues,        \* tag values
    Sessions,         \* values of MaxSessionDuration
    DefaultSession,   \* the one IAM supplies
    BadSessions,      \* those out of int32 or of IAM's range
    Paths,            \* values of Path
    DefaultPath,      \* the one IAM supplies
    Descriptions,     \* descriptions of roles
    None,             \* nil
    Specs,            \* the specs a user may submit
    Budget            \* bound on edits, faults, crashes and drifts

Maybe(S) == S \cup {None}

\* Role.Spec, and the content of a role in IAM.
Content ==
    [policies : SUBSET PolicyARNs,
     inline   : [InlineNames -> Maybe(Docs)],
     tags     : [TagKeys -> Maybe(TagValues)],
     boundary : Maybe(PolicyARNs),
     assume   : Maybe(Docs),
     session  : Maybe(Sessions),
     path     : Maybe(Paths),
     description : Maybe(Descriptions)]

Blank ==
    [policies |-> {},
     inline   |-> [n \in InlineNames |-> None],
     tags     |-> [k \in TagKeys |-> None],
     boundary |-> None,
     assume   |-> None,
     session  |-> None,
     path     |-> None,
     description |-> None]

Misfortunes == {"edit", "fault", "crash", "drift"}

ASSUME ConstantsAssumption ==
    /\ BadDocs \subseteq Docs
    /\ SystemKeys \subseteq TagKeys
    /\ BadSessions \subseteq Sessions
    /\ DefaultSession \in Sessions \ BadSessions
    /\ DefaultPath \in Paths
    /\ Unescape \in [Docs -> Maybe(Docs)]
    /\ None \notin PolicyARNs \cup InlineNames \cup Docs \cup TagValues \cup Sessions
                      \cup Paths \cup Descriptions
    /\ Specs \subseteq Content
    /\ Specs # {}
    /\ \A s \in Specs : s.assume \in Docs /\ \A k \in SystemKeys : s.tags[k] = None
    /\ Budget \in [Misfortunes -> Nat]

(***************************************************************************)
(* The calls of sdkUpdate (and of sdkDelete, which runs the first four),   *)
(* in the order in which the code makes them.                              *)
(***************************************************************************)
Rank_DetachFirst ==  \* mutant: the two loops of syncManagedPolicies swapped
    [AttachRolePolicy          |-> 2, DetachRolePolicy              |-> 1,
     PutRolePolicy             |-> 3, DeleteRolePolicy              |-> 4,
     TagRole                   |-> 5, UntagRole                     |-> 6,
     PutRolePermissionsBoundary |-> 7, DeleteRolePermissionsBoundary |-> 7,
     UpdateAssumeRolePolicy    |-> 8, UpdateRole                    |-> 9]

Rank ==
    [AttachRolePolicy          |-> 1, DetachRolePolicy              |-> 2,
     PutRolePolicy             |-> 3, DeleteRolePolicy              |-> 4,
     TagRole                   |-> 5, UntagRole                     |-> 6,
     PutRolePermissionsBoundary |-> 7, DeleteRolePermissionsBoundary |-> 7,
     UpdateAssumeRolePolicy    |-> 8, UpdateRole                    |-> 9]

CallNames == DOMAIN Rank

Args == PolicyARNs \cup InlineNames \cup TagKeys \cup {None}

Calls(name, args) == [call : {name}, arg : args]

When(name, condition) == IF condition THEN Calls(name, {None}) ELSE {}

(* lo.Difference over the (name, document) pairs *)
InlineToAdd(d, l) == {n \in InlineNames : d.inline[n] \notin {None, l.inline[n]}}
InlineToDelete(d, l) == {n \in InlineNames : l.inline[n] \notin {None, d.inline[n]}}

SyncManagedPolicies(d, l) ==
    Calls("AttachRolePolicy", d.policies \ l.policies)
        \cup Calls("DetachRolePolicy", l.policies \ d.policies)

SyncInlinePolicies_NoFind(d, l) ==  \* mutant: without the lo.Find in toAdd
    Calls("PutRolePolicy", InlineToAdd(d, l))
        \cup Calls("DeleteRolePolicy", InlineToDelete(d, l))

\* A name that was just put is not deleted, although its old pair is.
SyncInlinePolicies(d, l) ==
    Calls("PutRolePolicy", InlineToAdd(d, l))
        \cup Calls("DeleteRolePolicy", InlineToDelete(d, l) \ InlineToAdd(d, l))

SyncTags_AddOnly(d, l) ==  \* mutant: without removeTags
    Calls("TagRole", {k \in TagKeys : d.tags[k] \notin {None, l.tags[k]}})

\* Tags are compared as (key, value) pairs and removed by key.
SyncTags(d, l) ==
    Calls("TagRole", {k \in TagKeys : d.tags[k] \notin {None, l.tags[k]}})
        \cup Calls("UntagRole", {k \in TagKeys : l.tags[k] \notin {None, d.tags[k]}})

SyncRolePermissionsBoundary_PutOnly(d, l) ==  \* mutant: a nil boundary is left alone
    When("PutRolePermissionsBoundary", d.boundary # l.boundary /\ d.boundary # None)

SyncRolePermissionsBoundary(d, l) ==
    When("DeleteRolePermissionsBoundary", d.boundary # l.boundary /\ d.boundary = None)
        \cup When("PutRolePermissionsBoundary", d.boundary # l.boundary /\ d.boundary # None)

\* A difference in any of the remaining fields, the path included, calls for UpdateRole.
SyncSettings(d, l) ==
    When("UpdateRole", \/ d.session # l.session
                       \/ d.path # l.path
                       \/ d.description # l.description)

\* Everything sdkUpdate will call for; it depends on its two arguments only.
Plan(d, l) ==
    SyncManagedPolicies(d, l) \cup SyncInlinePolicies(d, l) \cup SyncTags(d, l)
        \cup SyncRolePermissionsBoundary(d, l)
        \cup When("UpdateAssumeRolePolicy", d.assume # l.assume)
        \cup SyncSettings(d, l)

-----------------------------------------------------------------------------
VARIABLES
    cr,        \* the custom resource: here, deleting, managed, spec
    cond,      \* the outcome last written to its status
    queued,    \* the reconciler's work queue holds its key
    exists,    \* the role exists in IAM
    role,      \* its content there
    pc,        \* where the reconcile is
    op,        \* "sync" or "delete"
    desired,   \* the reconcile's copy of the CR's spec
    latest,    \* what ReadOne has observed so far
    pending,   \* inline policy names listed but not fetched yet
    plan,      \* calls of sdkUpdate / sdkDelete still to be made
    drift,     \* history: somebody else changed the role since the reconcile began
    budget     \* what is left of Budget

iamVars == <<exists, role>>
copies == <<op, desired, latest>>
work == <<pending, plan>>
vars == <<cr, cond, queued, exists, role, pc, op, desired, latest, pending, plan, drift, budget>>

Outcomes == {"None", "Synced", "Recoverable", "Terminal"}

Places == {"idle", "getRole", "listPolicies", "listInline", "getInline", "manage", "create",
           "update", "lateInit", "patch", "deleteRole", "unmanage"}

TypeOK ==
    /\ cr \in [here : BOOLEAN, deleting : BOOLEAN, managed : BOOLEAN, spec : Content]
    /\ cond \in Outcomes
    /\ queued \in BOOLEAN
    /\ exists \in BOOLEAN
    /\ role \in Content
    /\ IF exists THEN role.session # None /\ role.path # None ELSE role = Blank
    /\ pc \in Places
    /\ op \in {"sync", "delete"}
    /\ desired \in Content
    /\ latest \in Content
    /\ pending \subseteq InlineNames
    /\ plan \subseteq [call : CallNames, arg : Args]
    /\ pc = "update" <=> plan # {}
    /\ drift \in BOOLEAN
    /\ budget \in [Misfortunes -> Nat]

Init ==
    /\ \E s \in Specs : cr = [here |-> TRUE, deleting |-> FALSE, managed |-> FALSE, spec |-> s]
    /\ cond = "None"
    /\ queued = TRUE
    /\ exists = FALSE
    /\ role = Blank
    /\ pc = "idle"
    /\ op = "sync"
    /\ desired = Blank
    /\ latest = Blank
    /\ pending = {}
    /\ plan = {}
    /\ drift = FALSE
    /\ budget = Budget

Spend(what) ==
    /\ budget[what] > 0
    /\ budget' = [budget EXCEPT ![what] = @ - 1]

\* The reconcile is over and its copies are dropped; onError and onSuccess turn
\* its result into a condition, and everything but success and a terminal error
\* is requeued.
Finish(outcome) ==
    /\ cond' = outcome
    /\ queued' = (queued \/ outcome = "Recoverable")
    /\ pc' = "idle"
    /\ op' = "sync"
    /\ desired' = Blank
    /\ latest' = Blank
    /\ pending' = {}
    /\ plan' = {}
    /\ UNCHANGED drift

\* IAM, or the network, fails the call at hand: nothing is done and the error is
\* recoverable.  A lost answer leaves what a crash right after the call leaves.
CallFails ==
    /\ Spend("fault")
    /\ Finish("Recoverable")
    /\ UNCHANGED <<cr, iamVars>>

(***************************************************************************)
(* The reconciler takes the key from its queue and copies the CR.          *)
(***************************************************************************)
Reconcile ==
    /\ pc = "idle"
    /\ queued
    /\ queued' = FALSE
    /\ IF cr.here
       THEN /\ pc' = "getRole"
            /\ op' = IF cr.deleting THEN "delete" ELSE "sync"
            /\ desired' = cr.spec
            /\ drift' = FALSE
       ELSE UNCHANGED <<pc, op, desired, drift>>
    /\ UNCHANGED <<cr, cond, iamVars, latest, work, budget>>

Resync ==
    /\ pc = "idle"
    /\ cr.here
    /\ ~queued
    /\ queued' = TRUE
    /\ UNCHANGED <<cr, cond, iamVars, pc, copies, work, drift, budget>>

(***************************************************************************)
(* ReadOne: sdkFind's GetRole, then the lists.  Only GetRole's             *)
(* NoSuchEntity means "not found"; any other error ends the reconcile, as  *)
(* does a role or an inline policy that vanishes between two reads.        *)
(***************************************************************************)
NotFound ==
    /\ pc' = IF op = "delete" THEN "unmanage" ELSE "manage"
    /\ UNCHANGED <<cr, cond, queued, iamVars, copies, work, drift, budget>>

GetRole_AnyErrorIsNotFound ==  \* mutant: without the test for NoSuchEntity
    /\ pc = "getRole"
    /\ \/ /\ exists
          /\ latest' = [Blank EXCEPT !.boundary = role.boundary,
                                     !.assume = role.assume,
                                     !.session = role.session,
                                     !.path = role.path,
                                     !.description = role.description]
          /\ pc' = "listPolicies"
          /\ UNCHANGED <<cr, cond, queued, iamVars, op, desired, work, drift, budget>>
       \/ NotFound

GetRole ==
    /\ pc = "getRole"
    /\ \/ /\ exists
          /\ latest' = [Blank EXCEPT !.boundary = role.boundary,
                                     !.assume = role.assume,
                                     !.session = role.session,
                                     !.path = role.path,
                                     !.description = role.description]
          /\ pc' = "listPolicies"
          /\ UNCHANGED <<cr, cond, queued, iamVars, op, desired, work, drift, budget>>
       \/ ~exists /\ NotFound
       \/ CallFails

\* A call on a role that somebody deleted meanwhile.
RoleVanished ==
    /\ ~exists
    /\ Finish("Recoverable")
    /\ UNCHANGED <<cr, iamVars, budget>>

ListAttachedRolePolicies ==
    /\ pc = "listPolicies"
    /\ \/ /\ exists
          /\ latest' = [latest EXCEPT !.policies = role.policies]
          /\ pc' = "listInline"
          /\ UNCHANGED <<cr, cond, queued, iamVars, op, desired, work, drift, budget>>
       \/ RoleVanished
       \/ CallFails

ListRolePolicies ==
    /\ pc = "listInline"
    /\ \/ /\ exists
          /\ pending' = {n \in InlineNames : role.inline[n] # None}
          /\ pc' = "getInline"
          /\ UNCHANGED <<cr, cond, queued, iamVars, copies, plan, drift, budget>>
       \/ RoleVanished
       \/ CallFails

\* IAM hands the document out URL-encoded and decodeDocument undoes exactly that.
GetRolePolicy ==
    /\ pc = "getInline"
    /\ \E n \in pending :
        \/ /\ role.inline[n] # None
           /\ latest' = [latest EXCEPT !.inline[n] = role.inline[n]]
           /\ pending' = pending \ {n}
           /\ UNCHANGED <<cr, cond, queued, iamVars, pc, op, desired, plan, drift, budget>>
        \/ /\ role.inline[n] = None
           /\ Finish("Recoverable")
           /\ UNCHANGED <<cr, iamVars, budget>>
        \/ CallFails

MirrorAWSTags_None(d, l) == d  \* mutant: ReadOne without mirrorAWSTags

\* mirrorAWSTags: tags of AWS services found on the role join the desired ones.
MirrorAWSTags(d, l) ==
    [d EXCEPT !.tags = [k \in TagKeys |->
        IF k \in SystemKeys /\ l.tags[k] # None THEN l.tags[k] ELSE d.tags[k]]]

After_DeleteAtOnce(calls) ==  \* mutant: sdkDelete does not wait for the role to be empty
    IF op = "delete" THEN "deleteRole" ELSE IF calls # {} THEN "update" ELSE "lateInit"

\* Where the reconcile goes with these calls left to make.
After(calls) ==
    IF calls # {} THEN "update" ELSE IF op = "delete" THEN "deleteRole" ELSE "lateInit"

\* The last read, and what the reconciler decides on the result: Update with the
\* difference between desired and latest, or Delete, which empties the role first.
ListRoleTags ==
    /\ pc = "getInline"
    /\ pending = {}
    /\ \/ /\ exists
          /\ LET found == [latest EXCEPT !.tags = role.tags]
                 goal == IF op = "delete"
                         THEN [found EXCEPT !.policies = {}, !.inline = Blank.inline]
                         ELSE MirrorAWSTags(desired, found)
             IN  /\ latest' = found
                 /\ desired' = goal
                 /\ plan' = Plan(goal, found)
                 /\ pc' = After(Plan(goal, found))
          /\ UNCHANGED <<cr, cond, queued, iamVars, op, pending, drift, budget>>
       \/ RoleVanished
       \/ CallFails

(***************************************************************************)
(* Create.  The finalizer is patched onto the CR first.  sdkCreate sends   *)
(* everything but the policies, which CreateRole does not take, and        *)
(* returns an error that requeues the CR so that an update adds them.      *)
(***************************************************************************)
MarkManaged ==
    /\ pc = "manage"
    /\ IF cr.here
       THEN /\ cr' = [cr EXCEPT !.managed = TRUE]
            /\ pc' = "create"
            /\ UNCHANGED <<cond, queued, copies, work, drift>>
       ELSE /\ Finish(cond)
            /\ UNCHANGED cr
    /\ UNCHANGED <<iamVars, budget>>

\* A field that is nil is not sent, and IAM goes by what it has instead.
OrElse(sent, other) == IF sent = None THEN other ELSE sent

CreateRole ==
    /\ pc = "create"
    /\ \/ /\ desired.session \notin BadSessions
          /\ desired.assume \notin BadDocs
          /\ exists' = TRUE
          /\ role' = [desired EXCEPT !.policies = {},
                                     !.inline = Blank.inline,
                                     !.session = OrElse(@, DefaultSession),
                                     !.path = OrElse(@, DefaultPath)]
          /\ Finish("Recoverable")
          /\ UNCHANGED <<cr, budget>>
       \/ /\ desired.session \in BadSessions
          /\ Finish("Recoverable")
          /\ UNCHANGED <<cr, iamVars, budget>>
       \/ /\ desired.session \notin BadSessions
          /\ desired.assume \in BadDocs
          /\ Finish("Terminal")
          /\ UNCHANGED <<cr, iamVars, budget>>
       \/ CallFails

(***************************************************************************)
(* Update.  The calls of the plan are made one by one in the order of      *)
(* their ranks; the first one that fails ends the reconcile.               *)
(***************************************************************************)
Due(c) == c \in plan /\ \A other \in plan : Rank[c.call] <= Rank[other.call]

\* The calls with this name that are due.
DueCalls(name) == {c \in plan : c.call = name /\ Due(c)}

Proceed(done) ==
    /\ plan' = plan \ done
    /\ pc' = After(plan \ done)
    /\ UNCHANGED <<cr, cond, queued, exists, copies, pending, drift, budget>>

\* The calls are answered and the role becomes r.
Answered(calls, r) ==
    /\ exists
    /\ role' = r
    /\ Proceed(calls)

\* The call at hand fails, or finds no role any more.
UpdateFails ==
    /\ pc = "update"
    /\ RoleVanished \/ CallFails

AddManagedPolicy ==
    /\ pc = "update"
    /\ \E c \in DueCalls("AttachRolePolicy") :
        Answered({c}, [role EXCEPT !.policies = @ \cup {c.arg}])

RemoveManagedPolicy ==
    /\ pc = "update"
    /\ \E c \in DueCalls("DetachRolePolicy") :
        Answered({c}, [role EXCEPT !.policies = @ \ {c.arg}])

\* The document of the spec is unescaped once before it is sent.
AddInlinePolicy ==
    /\ pc = "update"
    /\ \E c \in DueCalls("PutRolePolicy") :
        LET doc == Unescape[desired.inline[c.arg]]
        IN  \/ /\ doc \notin Maybe(BadDocs)
               /\ Answered({c}, [role EXCEPT !.inline[c.arg] = doc])
            \/ /\ doc \in Maybe(BadDocs)
               /\ Finish(IF doc = None THEN "Recoverable" ELSE "Terminal")
               /\ UNCHANGED <<cr, iamVars, budget>>

RemoveInlinePolicy ==
    /\ pc = "update"
    /\ \E c \in DueCalls("DeleteRolePolicy") :
        Answered({c}, [role EXCEPT !.inline[c.arg] = None])

\* One TagRole carries all tags to add, one UntagRole all keys to remove.
AddTags ==
    /\ pc = "update"
    /\ LET due == DueCalls("TagRole")
       IN  /\ due # {}
           /\ Answered(due, [role EXCEPT !.tags = [k \in TagKeys |->
                  IF \E c \in due : c.arg = k THEN desired.tags[k] ELSE role.tags[k]]])

RemoveTags ==
    /\ pc = "update"
    /\ LET due == DueCalls("UntagRole")
       IN  /\ due # {}
           /\ Answered(due, [role EXCEPT !.tags = [k \in TagKeys |->
                  IF \E c \in due : c.arg = k THEN None ELSE role.tags[k]]])

PutRolePermissionsBoundary ==
    /\ pc = "update"
    /\ \E c \in DueCalls("PutRolePermissionsBoundary") :
        Answered({c}, [role EXCEPT !.boundary = desired.boundary])

DeleteRolePermissionsBoundary ==
    /\ pc = "update"
    /\ \E c \in DueCalls("DeleteRolePermissionsBoundary") :
        Answered({c}, [role EXCEPT !.boundary = None])

PutAssumeRolePolicy ==
    /\ pc = "update"
    /\ \E c \in DueCalls("UpdateAssumeRolePolicy") :
        \/ /\ desired.assume \notin BadDocs
           /\ Answered({c}, [role EXCEPT !.assume = desired.assume])
        \/ /\ desired.assume \in BadDocs
           /\ Finish("Terminal")
           /\ UNCHANGED <<cr, iamVars, budget>>

\* The payload has the description and the session, never the path: a path that
\* was edited is asked for again by every reconcile and stays what it was.
UpdateRole ==
    /\ pc = "update"
    /\ \E c \in DueCalls("UpdateRole") :
        \/ /\ desired.session \notin BadSessions
           /\ Answered({c}, [role EXCEPT !.session = OrElse(desired.session, DefaultSession),
                                         !.description = OrElse(desired.description, @)])
        \/ /\ desired.session \in BadSessions
           /\ Finish("Recoverable")
           /\ UNCHANGED <<cr, iamVars, budget>>

(***************************************************************************)
(* LateInitialize reads the role once more (in one step: only session and  *)
(* path are used) and fills in those that the user left open; then the     *)
(* reconciler patches the CR and reports success.                          *)
(***************************************************************************)
LateInitialize ==
    /\ pc = "lateInit"
    /\ \/ /\ exists
          /\ latest' = [latest EXCEPT !.session = role.session, !.path = role.path]
          /\ pc' = "patch"
          /\ UNCHANGED <<cr, cond, queued, iamVars, op, desired, work, drift, budget>>
       \/ RoleVanished
       \/ CallFails

\* The patch holds the fields that the reconcile changed in its copy, no others.
Patch ==
    /\ pc = "patch"
    /\ cr' = [cr EXCEPT
                !.spec.session = IF desired.session = None THEN latest.session ELSE @,
                !.spec.path = IF desired.path = None THEN latest.path ELSE @]
    /\ Finish("Synced")
    /\ UNCHANGED <<iamVars, budget>>

(***************************************************************************)
(* Delete.  sdkDelete has emptied the role by the plan above; IAM refuses  *)
(* (DeleteConflict) while the role still carries a policy.                 *)
(***************************************************************************)
DeleteRole_IgnoresErrors ==  \* mutant: sdkDelete returns nil, nil whatever IAM says
    /\ pc = "deleteRole"
    /\ IF exists /\ role.policies = {} /\ role.inline = Blank.inline
       THEN exists' = FALSE /\ role' = Blank
       ELSE UNCHANGED iamVars
    /\ pc' = "unmanage"
    /\ UNCHANGED <<cr, cond, queued, copies, work, drift, budget>>

DeleteRole ==
    /\ pc = "deleteRole"
    /\ \/ /\ exists
          /\ role.policies = {} /\ role.inline = Blank.inline
          /\ exists' = FALSE
          /\ role' = Blank
          /\ pc' = "unmanage"
          /\ UNCHANGED <<cr, cond, queued, copies, work, drift, budget>>
       \/ /\ exists
          /\ role.policies # {} \/ role.inline # Blank.inline
          /\ Finish("Recoverable")
          /\ UNCHANGED <<cr, iamVars, budget>>
       \/ RoleVanished
       \/ CallFails

\* With the finalizer gone Kubernetes removes the CR.
MarkUnmanaged ==
    /\ pc = "unmanage"
    /\ cr' = [cr EXCEPT !.managed = FALSE, !.here = FALSE]
    /\ Finish(cond)
    /\ UNCHANGED <<iamVars, budget>>

(***************************************************************************)
(* The environment.                                                        *)
(***************************************************************************)
\* The controller dies; the next one finds every CR in its queue.
Crash ==
    /\ pc # "idle"
    /\ Spend("crash")
    /\ pc' = "idle" /\ op' = "sync"
    /\ desired' = Blank /\ latest' = Blank /\ pending' = {} /\ plan' = {}
    /\ queued' = TRUE
    /\ UNCHANGED <<cr, cond, iamVars, drift>>

EditSpec ==
    /\ cr.here /\ ~cr.deleting
    /\ Spend("edit")
    /\ \E s \in Specs \ {cr.spec} : cr' = [cr EXCEPT !.spec = s]
    /\ queued' = TRUE
    /\ UNCHANGED <<cond, iamVars, pc, copies, work, drift>>

\* Kubernetes marks a CR that has a finalizer, and removes one that has none.
DeleteCR ==
    /\ cr.here /\ ~cr.deleting
    /\ cr' = [cr EXCEPT !.deleting = cr.managed, !.here = cr.managed]
    /\ queued' = TRUE
    /\ UNCHANGED <<cond, iamVars, pc, copies, work, drift, budget>>

\* Somebody else attaches, detaches, tags or deletes behind the controller's back.
Drift ==
    /\ exists
    /\ Spend("drift")
    /\ drift' = TRUE
    /\ \/ /\ \E p \in PolicyARNs : \/ role' = [role EXCEPT !.policies = @ \cup {p}]
                                   \/ role' = [role EXCEPT !.policies = @ \ {p}]
          /\ UNCHANGED exists
       \/ /\ \E n \in InlineNames : role' = [role EXCEPT !.inline[n] = None]
          /\ UNCHANGED exists
       \/ /\ \E k \in SystemKeys, v \in TagValues : role' = [role EXCEPT !.tags[k] = v]
          /\ UNCHANGED exists
       \/ /\ exists' = FALSE
          /\ role' = Blank
    /\ UNCHANGED <<cr, cond, queued, pc, copies, work>>

Read ==
    \/ GetRole \/ ListAttachedRolePolicies \/ ListRolePolicies \/ GetRolePolicy \/ ListRoleTags

SdkUpdate ==
    \/ AddManagedPolicy \/ RemoveManagedPolicy \/ AddInlinePolicy \/ RemoveInlinePolicy
    \/ AddTags \/ RemoveTags \/ PutRolePermissionsBoundary \/ DeleteRolePermissionsBoundary
    \/ PutAssumeRolePolicy \/ UpdateRole \/ UpdateFails

Controller ==
    \/ Reconcile \/ Read \/ MarkManaged \/ CreateRole \/ SdkUpdate
    \/ LateInitialize \/ Patch \/ DeleteRole \/ MarkUnmanaged

Environment == Resync \/ Crash \/ EditSpec \/ DeleteCR \/ Drift

Next == Controller \/ Environment

Spec == Init /\ [][Next]_vars

\* The worker goes on with what it has begun, takes what is queued, and the
\* informer resyncs; nobody is bound to edit, to delete, to fail or to crash.
FairSpec == Spec /\ WF_vars(Controller) /\ WF_vars(Resync)

-----------------------------------------------------------------------------
(* Properties.                                                             *)

\* sdkUpdate is between two calls and nobody else has touched the role since
\* the reconcile began to read it.
Updating == pc = "update" /\ op = "sync" /\ ~drift

\* A role never loses a grant half way through an update: until the update ends
\* it has all the policies it had or all those it is to have.  syncManagedPolicies
\* attaches before it detaches.
GrantsNeverDip ==
    Updating => latest.policies \subseteq role.policies \/ desired.policies \subseteq role.policies

\* An inline policy whose document changes is replaced in place: the role has the
\* old or the new document at every moment.  syncInlinePolicies spares the names it
\* has just put from the deletions that its set difference yields.
InlineNeverMissing ==
    Updating => \A n \in InlineNames :
        latest.inline[n] # None /\ desired.inline[n] # None =>
            role.inline[n] \in {latest.inline[n], Unescape[desired.inline[n]]}

\* What an update that nobody disturbs has done when sdkUpdate returns without an
\* error: all that the spec says, up to the unescaping of inline documents, but for
\* the tags whose value changed, a description that was taken out of the spec (a nil
\* one is not sent) and the path (compared, but not sent: it is the one the role was
\* created with).
SuccessMeansApplied ==
    pc \in {"lateInit", "patch"} /\ ~drift =>
        /\ exists
        /\ role.policies = desired.policies
        /\ \A n \in InlineNames :
              IF desired.inline[n] = None THEN role.inline[n] = None
              ELSE role.inline[n] \in {desired.inline[n], Unescape[desired.inline[n]]}
        /\ \A k \in TagKeys :
              latest.tags[k] \in {None, desired.tags[k]} \/ desired.tags[k] = None =>
                  role.tags[k] = desired.tags[k]
        /\ role.boundary = desired.boundary
        /\ role.assume = desired.assume
        /\ role.session = OrElse(desired.session, DefaultSession)
        /\ desired.description \in {None, role.description}

\* No role is left behind: as long as it exists, its CR is there and holds the
\* finalizer that will have the controller delete it (MarkManaged's promise).
NoOrphan == exists => cr.here /\ cr.managed

\* Tags that AWS services put on the role are never taken off by the controller,
\* whenever they appear (mirrorAWSTags).
SystemTagsKept ==
    [][exists /\ exists' =>
        \A k \in SystemKeys : role.tags[k] # None => role'.tags[k] # None]_vars

\* The life of the CR and the role is one that Lifecycle allows.
L == INSTANCE Lifecycle WITH here <- cr.here, managed <- cr.managed, deleting <- cr.deleting
ImplementsLifecycle == L!Spec

\* A spec IAM accepts and whose inline documents survive the unescaping.
Acceptable(s) ==
    /\ s.assume \notin BadDocs
    /\ s.session \notin BadSessions
    /\ \A n \in InlineNames :
          s.inline[n] # None => s.inline[n] \notin BadDocs /\ Unescape[s.inline[n]] = s.inline[n]

\* The role is what the spec says; its path and a nil description excepted, as above.
Applied(s) ==
    /\ exists
    /\ role.policies = s.policies
    /\ role.inline = s.inline
    /\ \A k \in TagKeys \ SystemKeys : role.tags[k] = s.tags[k]
    /\ role.boundary = s.boundary
    /\ role.assume = s.assume
    /\ s.session \in {None, role.session}
    /\ s.description \in {None, role.description}

\* Once the edits, failures, crashes and drifts are over, the role is what the last
\* spec says (except for its path, and for a description the spec no longer has), for
\* good, and the CR reports it: drift is repaired, a stale update is
\* overtaken, a failed one is completed.  A CR whose deletion was asked for is gone then
\* (with NoOrphan: and its role before it), whatever its spec says and whatever others
\* attach to the role.
Converges ==
    <>[](cr.here =>
            /\ ~cr.deleting
            /\ Acceptable(cr.spec) => Applied(cr.spec) /\ cond = "Synced")

\* When the reconcile is about to report success, the tags are the desired ones:
\* "ensure that the set of associated Tags stays in sync with the Role.Spec.Tags"
\* (role/hooks.go:394-396).
SyncedTags == pc = "patch" /\ ~drift => role.tags = desired.tags

-----------------------------------------------------------------------------
(* The inductive strengthening behind the safety properties.               *)

\* The plan is what is left of one comparison of the two copies.
PlanInv == plan \subseteq Plan(desired, latest)

\* How the places of a reconcile, the CR and the role go together.
LifeInv ==
    /\ NoOrphan
    /\ cr.here /\ cr.deleting => cr.managed
    /\ op = "delete" => cr.here /\ cr.deleting
    /\ pc \in {"manage", "create", "unmanage"} => ~exists
    /\ pc = "create" => cr.here /\ cr.managed
    /\ pc \in {"manage", "create", "lateInit", "patch"} => op = "sync"
    /\ pc \in {"deleteRole", "unmanage"} => op = "delete"

Attach(p) == [call |-> "AttachRolePolicy", arg |-> p]
Detach(p) == [call |-> "DetachRolePolicy", arg |-> p]

\* The managed policies of a role that nobody else touches: read as they are, then
\* attached as planned, and detached only when nothing is left to attach.
PoliciesInv ==
    ~drift =>
        /\ pc \in {"listInline", "getInline"} => latest.policies = role.policies
        /\ Updating =>
            /\ latest.policies \cap desired.policies \subseteq role.policies
            /\ \A p \in desired.policies \ latest.policies :
                  Attach(p) \in plan \/ p \in role.policies
            /\ \A p \in latest.policies \ desired.policies :
                  Detach(p) \in plan => p \in role.policies
            /\ (\E c \in plan : c.call = "AttachRolePolicy") =>
                  \A p \in latest.policies \ desired.policies : Detach(p) \in plan

\* The same for its inline policies, which are listed first and fetched one by one.
InlineInv ==
    ~drift =>
        /\ pc \in {"listPolicies", "listInline"} => latest.inline = Blank.inline
        /\ pc = "getInline" =>
              \A n \in InlineNames :
                  IF n \in pending THEN role.inline[n] # None
                                   ELSE latest.inline[n] = role.inline[n]
        /\ InlineNeverMissing
=============================================================================
