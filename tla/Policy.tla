------------------------------- MODULE Policy -------------------------------
(***************************************************************************)
(* The life of one Policy custom resource: the resource manager of         *)
(* src/pkg/resource/policy against the IAM API, one IAM call per step.     *)
(*                                                                         *)
(* Two things set a Policy apart from a Role.  IAM does not let a policy   *)
(* document change: an update makes a new version the default one, and IAM *)
(* keeps only so many versions.  And a policy is found by the ARN in the   *)
(* CR's status, which is on record only after the reconcile that created   *)
(* the policy has patched it.                                              *)
(*                                                                         *)
(* Abstractions.  Documents, tags and descriptions are opaque values.      *)
(* Versions are numbered in the order of their creation dates.  IAM hands  *)
(* documents out URL-encoded and getPolicyVersion undoes exactly that.     *)
(* Attachments of the policy to roles, users and groups are left out.      *)
(***************************************************************************)
EXTENDS Naturals, FiniteSets

CONSTANTS
    Docs,           \* policy documents
    BadDocs,        \* those IAM refuses with MalformedPolicyDocument
    TagKeys,        \* tag keys
    TagValues,      \* tag values
    Descriptions,   \* descriptions
    None,           \* nil
    Limit,          \* limitPolicyVersions, and the quota of IAM
    Specs,          \* the specs a user may submit
    Budget          \* bound on edits, faults, lost patches, crashes and drifts

Content == [doc : Docs, tags : [TagKeys -> TagValues \cup {None}], desc : Descriptions]

Misfortunes == {"edit", "fault", "patch", "crash", "drift"}

ASSUME ConstantsAssumption ==
    /\ BadDocs \subseteq Docs
    /\ None \notin TagValues \cup Descriptions
    /\ Limit \in Nat /\ Limit >= 2
    /\ Specs \subseteq Content
    /\ Specs # {}
    /\ Budget \in [Misfortunes -> Nat]

VARIABLES
    cr,         \* the custom resource: here, deleting, managed, arn (on record), spec
    cond,       \* the outcome last written to its status
    queued,     \* the reconciler's work queue holds its key
    exists,     \* the policy exists in IAM
    versions,   \* its versions: id and document
    default,    \* the id of the default one
    nextId,     \* the id of the next one
    attrs,      \* its tags and its description
    pc,         \* where the reconcile is
    op,         \* "sync" or "delete"
    arn,        \* the reconcile's copy has the ARN
    desired,    \* the reconcile's copy of the spec
    latest,     \* what ReadOne has observed
    seen,       \* versions still to look at: the one to fetch, or those listed
    drift,      \* history: somebody else changed the policy since the reconcile began
    budget      \* what is left of Budget

iamVars == <<exists, versions, default, nextId, attrs>>
copies == <<op, arn, desired, latest, seen>>
vars == <<cr, cond, queued, exists, versions, default, nextId, attrs, pc, op, arn,
          desired, latest, seen, drift, budget>>

NoTags == [k \in TagKeys |-> None]
Absent == [tags |-> NoTags, desc |-> None]
Unread == CHOOSE s \in Specs : TRUE     \* the copies between two reconciles

Version == [id : Nat, doc : Docs]

Places == {"idle", "getPolicy", "getVersion", "manage", "create", "untag", "tag", "listVersions",
           "makeRoom", "createVersion", "lateInit", "patch", "delete", "deleteVersions",
           "deletePolicy", "unmanage"}

TypeOK ==
    /\ cr \in [here : BOOLEAN, deleting : BOOLEAN, managed : BOOLEAN, arn : BOOLEAN, spec : Content]
    /\ cond \in {"None", "Synced", "Recoverable", "Terminal"}
    /\ queued \in BOOLEAN /\ exists \in BOOLEAN /\ arn \in BOOLEAN /\ drift \in BOOLEAN
    /\ \A v \in versions : v \in Version /\ v.id < nextId
    /\ \A v, w \in versions : v.id = w.id => v = w
    /\ exists => \E v \in versions : v.id = default
    /\ Cardinality(versions) <= Limit
    /\ nextId \in Nat
    /\ attrs \in [tags : [TagKeys -> TagValues \cup {None}], desc : Descriptions \cup {None}]
    /\ IF exists THEN attrs.desc # None ELSE attrs = Absent
    /\ pc \in Places
    /\ op \in {"sync", "delete"}
    /\ desired \in Content /\ latest \in Content
    /\ \A v \in seen : v \in Version
    /\ budget \in [Misfortunes -> Nat]

Init ==
    /\ \E s \in Specs : cr = [here |-> TRUE, deleting |-> FALSE, managed |-> FALSE,
                              arn |-> FALSE, spec |-> s]
    /\ cond = "None"
    /\ queued = TRUE
    /\ exists = FALSE /\ versions = {} /\ default = 0 /\ nextId = 1 /\ attrs = Absent
    /\ pc = "idle" /\ op = "sync" /\ arn = FALSE
    /\ desired = Unread /\ latest = Unread /\ seen = {}
    /\ drift = FALSE
    /\ budget = Budget

Spend(what) ==
    /\ budget[what] > 0
    /\ budget' = [budget EXCEPT ![what] = @ - 1]

Idle ==
    /\ pc' = "idle" /\ op' = "sync" /\ arn' = FALSE
    /\ desired' = Unread /\ latest' = Unread /\ seen' = {}
    /\ UNCHANGED drift

\* The end of a reconcile: the status is patched with the outcome and with the ARN
\* if the reconcile knows it, and all but success and a terminal error is requeued.
Finish(outcome) ==
    /\ cond' = outcome
    /\ cr' = [cr EXCEPT !.arn = @ \/ arn]
    /\ queued' = (queued \/ outcome = "Recoverable")
    /\ Idle

CallFails ==
    /\ Spend("fault")
    /\ Finish("Recoverable")
    /\ UNCHANGED iamVars

\* A call on a policy, or a version, that somebody deleted meanwhile.
Vanished(gone) ==
    /\ gone
    /\ Finish("Recoverable")
    /\ UNCHANGED <<iamVars, budget>>

Goto(place) ==
    /\ pc' = place
    /\ UNCHANGED <<cr, cond, queued, drift, budget>>

Reconcile ==
    /\ pc = "idle"
    /\ queued
    /\ queued' = FALSE
    /\ IF cr.here
       THEN /\ pc' = "getPolicy"
            /\ op' = IF cr.deleting THEN "delete" ELSE "sync"
            /\ arn' = cr.arn
            /\ desired' = cr.spec
            /\ drift' = FALSE
       ELSE UNCHANGED <<pc, op, arn, desired, drift>>
    /\ UNCHANGED <<cr, cond, iamVars, latest, seen, budget>>

Resync ==
    /\ pc = "idle"
    /\ cr.here
    /\ ~queued
    /\ queued' = TRUE
    /\ UNCHANGED <<cr, cond, iamVars, pc, copies, drift, budget>>

(***************************************************************************)
(* ReadOne.  Without an ARN on record no call is made at all: the policy   *)
(* is taken for not created yet.  The document is fetched by a second call *)
(* for the version that was the default one in the first.                  *)
(***************************************************************************)
NotFound ==
    /\ Goto(IF op = "delete" THEN "unmanage" ELSE "manage")
    /\ UNCHANGED <<iamVars, copies>>

DefaultVersion == {v \in versions : v.id = default}

GetPolicy_AnyErrorIsNotFound ==  \* mutant: without the test for NoSuchEntity
    /\ pc = "getPolicy"
    /\ \/ NotFound
       \/ /\ arn /\ exists
          /\ latest' = [latest EXCEPT !.tags = attrs.tags, !.desc = attrs.desc]
          /\ seen' = DefaultVersion
          /\ Goto("getVersion")
          /\ UNCHANGED <<iamVars, op, arn, desired>>

GetPolicy ==
    /\ pc = "getPolicy"
    /\ \/ ~arn /\ NotFound
       \/ arn /\ ~exists /\ NotFound
       \/ /\ arn /\ exists
          /\ latest' = [latest EXCEPT !.tags = attrs.tags, !.desc = attrs.desc]
          /\ seen' = DefaultVersion
          /\ Goto("getVersion")
          /\ UNCHANGED <<iamVars, op, arn, desired>>
       \/ arn /\ CallFails

\* syncTags: tags are compared as (key, value) pairs and removed by key.
ToRemove(d, l) == {k \in TagKeys : l.tags[k] \notin {None, d.tags[k]}}

ToAdd_ByKey(d, l) ==  \* mutant: inTags compares the keys only
    {k \in TagKeys : d.tags[k] # None /\ l.tags[k] = None}

ToAdd(d, l) == {k \in TagKeys : d.tags[k] \notin {None, l.tags[k]}}

AfterTags_Never(d, l) == "lateInit"  \* mutant: the document is never looked at

\* The calls of customUpdatePolicy in their order: those without work are skipped.
\* A difference in the description alone leads to no call at all.
AfterTags(d, l) == IF d.doc # l.doc THEN "listVersions" ELSE "lateInit"
AfterRemoval(d, l) == IF ToAdd(d, l) # {} THEN "tag" ELSE AfterTags(d, l)
AfterRead(d, l) == IF ToRemove(d, l) # {} THEN "untag" ELSE AfterRemoval(d, l)

GetPolicyVersion ==
    /\ pc = "getVersion"
    /\ \E v \in seen :
        \/ /\ v \in versions
           /\ latest' = [latest EXCEPT !.doc = v.doc]
           /\ seen' = {}
           /\ Goto(IF op = "delete" THEN "delete" ELSE AfterRead(desired, latest'))
           /\ UNCHANGED <<iamVars, op, arn, desired>>
        \/ Vanished(v \notin versions)
        \/ CallFails

(***************************************************************************)
(* Create.                                                                 *)
(***************************************************************************)
MarkManaged ==
    /\ pc = "manage"
    /\ IF cr.here
       THEN /\ cr' = [cr EXCEPT !.managed = TRUE]
            /\ pc' = "create"
            /\ UNCHANGED <<cond, queued, copies, drift>>
       ELSE Finish(cond)
    /\ UNCHANGED <<iamVars, budget>>

CreatePolicy_NoDescription ==  \* mutant: newCreateRequestPayload without its Description
    /\ pc = "create"
    /\ ~exists
    /\ exists' = TRUE
    /\ versions' = {[id |-> 1, doc |-> desired.doc]}
    /\ default' = 1 /\ nextId' = 2
    /\ attrs' = [tags |-> desired.tags, desc |-> None]
    /\ arn' = TRUE
    /\ Goto("lateInit")
    /\ UNCHANGED <<op, desired, latest, seen>>

CreatePolicy ==
    /\ pc = "create"
    /\ \/ /\ ~exists
          /\ desired.doc \notin BadDocs
          /\ exists' = TRUE
          /\ versions' = {[id |-> 1, doc |-> desired.doc]}
          /\ default' = 1 /\ nextId' = 2
          /\ attrs' = [tags |-> desired.tags, desc |-> desired.desc]
          /\ arn' = TRUE
          /\ Goto("lateInit")
          /\ UNCHANGED <<op, desired, latest, seen>>
       \/ /\ ~exists
          /\ desired.doc \in BadDocs
          /\ Finish("Terminal")
          /\ UNCHANGED <<iamVars, budget>>
       \/ /\ exists                   \* EntityAlreadyExists
          /\ Finish("Recoverable")
          /\ UNCHANGED <<iamVars, budget>>
       \/ CallFails

(***************************************************************************)
(* Update: customUpdatePolicy.  syncTags removes before it adds.           *)
(***************************************************************************)
UntagPolicy ==
    /\ pc = "untag"
    /\ \/ /\ exists
          /\ attrs' = [attrs EXCEPT !.tags = [k \in TagKeys |->
                IF k \in ToRemove(desired, latest) THEN None ELSE attrs.tags[k]]]
          /\ Goto(AfterRemoval(desired, latest))
          /\ UNCHANGED <<exists, versions, default, nextId, copies>>
       \/ Vanished(~exists)
       \/ CallFails

TagPolicy ==
    /\ pc = "tag"
    /\ \/ /\ exists
          /\ attrs' = [attrs EXCEPT !.tags = [k \in TagKeys |->
                IF k \in ToAdd(desired, latest) THEN desired.tags[k] ELSE attrs.tags[k]]]
          /\ Goto(AfterTags(desired, latest))
          /\ UNCHANGED <<exists, versions, default, nextId, copies>>
       \/ Vanished(~exists)
       \/ CallFails

\* updatePolicyDocument, first half of ensureVersionsLimitNotExceeded.
LimitReached_TooLate(listed) == Cardinality(listed) > Limit  \* mutant: off by one

LimitReached(listed) == Cardinality(listed) = Limit

ListPolicyVersions ==
    /\ pc = "listVersions"
    /\ \/ /\ exists
          /\ seen' = versions \ DefaultVersion
          /\ Goto(IF LimitReached(versions) THEN "makeRoom" ELSE "createVersion")
          /\ UNCHANGED <<iamVars, op, arn, desired, latest>>
       \/ Vanished(~exists)
       \/ CallFails

Oldest_Unsorted(listed) == listed  \* mutant: getPolicyVersions without its sort

\* The first in the order of creation dates.
Oldest(listed) == {v \in listed : \A w \in listed : v.id <= w.id}

\* DeletePolicyVersion: IAM refuses for the version that is the default by now.
DeleteVersion(v, place) ==
    \/ /\ v \in versions
       /\ v.id # default
       /\ versions' = versions \ {v}
       /\ seen' = seen \ {v}
       /\ Goto(place)
       /\ UNCHANGED <<exists, default, nextId, attrs, op, arn, desired, latest>>
    \/ Vanished(v \notin versions \/ v.id = default)
    \/ CallFails

\* Second half: only the earliest version that was not the default is deleted.
EnsureVersionsLimitNotExceeded ==
    /\ pc = "makeRoom"
    /\ \E v \in Oldest(seen) : DeleteVersion(v, "createVersion")

CreatePolicyVersion ==
    /\ pc = "createVersion"
    /\ \/ /\ exists
          /\ Cardinality(versions) < Limit
          /\ desired.doc \notin BadDocs
          /\ versions' = versions \cup {[id |-> nextId, doc |-> desired.doc]}
          /\ default' = nextId
          /\ nextId' = nextId + 1
          /\ Goto("lateInit")
          /\ UNCHANGED <<exists, attrs, copies>>
       \/ Vanished(~exists \/ Cardinality(versions) >= Limit)     \* NoSuchEntity, LimitExceeded
       \/ /\ exists
          /\ desired.doc \in BadDocs
          /\ Finish("Terminal")
          /\ UNCHANGED <<iamVars, budget>>
       \/ CallFails

(***************************************************************************)
(* LateInitialize reads the policy again, for a field that is left out;    *)
(* then the CR is patched.                                                 *)
(***************************************************************************)
LateInitialize ==
    /\ pc = "lateInit"
    /\ \/ /\ exists
          /\ Goto("patch")
          /\ UNCHANGED <<iamVars, copies>>
       \/ Vanished(~exists)
       \/ CallFails

Patch ==
    /\ pc = "patch"
    /\ \/ Finish("Synced") /\ UNCHANGED budget
       \/ /\ Spend("patch")           \* Kubernetes does not take it: nothing is on record
          /\ queued' = TRUE
          /\ UNCHANGED <<cr, cond>>
          /\ Idle
    /\ UNCHANGED iamVars

(***************************************************************************)
(* Delete: sdkDelete deletes the versions but the default one, then the    *)
(* policy; IAM refuses while there is more than one version.               *)
(***************************************************************************)
ListForDeletion ==
    /\ pc = "delete"
    /\ \/ /\ exists
          /\ seen' = versions \ DefaultVersion
          /\ Goto("deleteVersions")
          /\ UNCHANGED <<iamVars, op, arn, desired, latest>>
       \/ Vanished(~exists)
       \/ CallFails

DeleteNonDefaultPolicyVersions ==
    /\ pc = "deleteVersions"
    /\ \E v \in Oldest(seen) : DeleteVersion(v, "deleteVersions")

DeletePolicy ==
    /\ pc = "deleteVersions"
    /\ seen = {}
    /\ \/ /\ exists
          /\ Cardinality(versions) = 1
          /\ exists' = FALSE
          /\ versions' = {} /\ default' = 0 /\ nextId' = 1 /\ attrs' = Absent
          /\ Goto("unmanage")
          /\ UNCHANGED copies
       \/ Vanished(~exists \/ Cardinality(versions) > 1)
       \/ CallFails

MarkUnmanaged ==
    /\ pc = "unmanage"
    /\ cr' = [cr EXCEPT !.managed = FALSE, !.here = FALSE]
    /\ UNCHANGED <<cond, queued, iamVars, budget>>
    /\ Idle

(***************************************************************************)
(* The environment.                                                        *)
(***************************************************************************)
Crash ==
    /\ pc # "idle"
    /\ Spend("crash")
    /\ queued' = TRUE
    /\ Idle
    /\ UNCHANGED <<cr, cond, iamVars>>

EditSpec ==
    /\ cr.here /\ ~cr.deleting
    /\ Spend("edit")
    /\ \E s \in Specs \ {cr.spec} : cr' = [cr EXCEPT !.spec = s]
    /\ queued' = TRUE
    /\ UNCHANGED <<cond, iamVars, pc, copies, drift>>

DeleteCR ==
    /\ cr.here /\ ~cr.deleting
    /\ cr' = [cr EXCEPT !.deleting = cr.managed, !.here = cr.managed]
    /\ queued' = TRUE
    /\ UNCHANGED <<cond, iamVars, pc, copies, drift, budget>>

\* Somebody else makes, picks or deletes versions, or deletes the policy.
Drift ==
    /\ exists
    /\ Spend("drift")
    /\ drift' = TRUE
    /\ \/ /\ Cardinality(versions) < Limit
          /\ \E d \in Docs \ BadDocs : versions' = versions \cup {[id |-> nextId, doc |-> d]}
          /\ nextId' = nextId + 1
          /\ UNCHANGED <<exists, default, attrs>>
       \/ /\ \E v \in versions : default' = v.id
          /\ UNCHANGED <<exists, versions, nextId, attrs>>
       \/ /\ \E v \in versions \ DefaultVersion : versions' = versions \ {v}
          /\ UNCHANGED <<exists, default, nextId, attrs>>
       \/ /\ exists' = FALSE
          /\ versions' = {} /\ default' = 0 /\ nextId' = 1 /\ attrs' = Absent
    /\ UNCHANGED <<cr, cond, queued, pc, copies>>

Controller ==
    \/ Reconcile \/ GetPolicy \/ GetPolicyVersion \/ MarkManaged \/ CreatePolicy
    \/ UntagPolicy \/ TagPolicy \/ ListPolicyVersions \/ EnsureVersionsLimitNotExceeded
    \/ CreatePolicyVersion \/ LateInitialize \/ Patch
    \/ ListForDeletion \/ DeleteNonDefaultPolicyVersions \/ DeletePolicy \/ MarkUnmanaged

Environment == Resync \/ Crash \/ EditSpec \/ DeleteCR \/ Drift

Next == Controller \/ Environment

Spec == Init /\ [][Next]_vars

\* The worker goes on with what it has begun and takes what is queued; the informer
\* resyncs.
FairSpec == Spec /\ WF_vars(Controller) /\ WF_vars(Resync)

-----------------------------------------------------------------------------
(* Properties.                                                             *)

\* When CreatePolicyVersion is called there is room for the version, unless somebody
\* else has touched the policy meanwhile: ensureVersionsLimitNotExceeded counts right
\* and never finds only the default version to delete.
RoomForVersion ==
    pc = "createVersion" /\ ~drift => exists /\ Cardinality(versions) < Limit

\* An update costs history only when it must: a version is deleted only from a full
\* policy, and it is the oldest but for the default one.  Retries after failures,
\* crashes and refused documents included.
HistoryKept ==
    [][op = "sync" /\ exists' /\ ~drift' =>
        \A v \in versions \ versions' :
            /\ Cardinality(versions) = Limit
            /\ v.id # default
            /\ \A w \in versions : w.id < v.id => w.id = default]_vars

\* A reconcile that ends well without anybody interfering leaves the tags and the
\* default document that it was to bring about, value changes of tags included.
SuccessMeansApplied ==
    pc \in {"lateInit", "patch"} /\ ~drift =>
        /\ exists
        /\ attrs.tags = desired.tags
        /\ \A v \in DefaultVersion : v.doc = desired.doc

\* The ARN of the policy is lost if the status is not patched after CreatePolicy.
Lost == exists /\ ~cr.arn

\* The life of the CR and of a policy whose ARN is on record is one that Lifecycle
\* allows: "the underlying CR may not be deleted until ACK is finished cleaning up any
\* backend AWS service resources" (policy/descriptor.go:107-112).
L == INSTANCE Lifecycle WITH
        here <- cr.here, managed <- cr.managed, deleting <- cr.deleting, exists <- exists /\ cr.arn
ImplementsLifecycle == L!Spec

\* Once all misfortunes are over, the default version and the tags are those of the
\* last spec, for good, and the CR reports it; with the ARN lost it never does, but
\* tries again for ever.  A CR whose deletion was asked for is gone then, however many
\* versions its policy has and whoever adds to them.
Converges ==
    <>[](cr.here =>
            /\ ~cr.deleting
            /\ cr.spec.doc \notin BadDocs =>
                  IF Lost THEN cond = "Recoverable"
                  ELSE /\ exists
                       /\ \A v \in DefaultVersion : v.doc = cr.spec.doc
                       /\ attrs.tags = cr.spec.tags
                       /\ cond = "Synced")
=============================================================================
