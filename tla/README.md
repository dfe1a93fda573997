# Specifications of the IAM controller

TLA+ models of `aws-controllers-k8s/iam-controller`, the Kubernetes controller that keeps AWS IAM
objects in the state that custom resources (CRs) describe; the TLC runs that check them; and
proofs, checked by TLAPS, of every safety property that the passing runs check.

## The system

| Component | Code | State | Operations |
|---|---|---|---|
| Role manager | `pkg/resource/role` | none of its own: the CR's spec, status and finalizer in Kubernetes; role, policies, tags in IAM; two copies (`desired`, `latest`) for the length of a reconcile | ReadOne, Create, Update, Delete, LateInitialize, EnsureTags, FilterSystemTags |
| Policy manager | `pkg/resource/policy` | the same, with policy versions, and the ARN in the CR's status as the only handle on the policy | the same |
| Group, User, InstanceProfile managers | `pkg/resource/{group,user,instance_profile}` | as Role, without trust policy; a profile holds one role | the same |
| OpenIDConnectProvider manager | `pkg/resource/open_id_connect_provider` | as Policy: found by the ARN on record; thumbprints, client ids, tags | the same |
| ServiceLinkedRole manager | `pkg/resource/service_linked_role` | found by the role name on record; deleted by a task of AWS | the same |
| Manager factories | `*/manager_factory.go` | a cache of managers under an RWMutex | ManagerFor |
| References | `*/references.go` | none: fields of the copy | ResolveReferences, ClearResolvedReferences |
| Tags, deltas | `pkg/util`, `*/tags.go`, `*/delta.go` | none | pure functions |
| Conditions | `updateConditions`, `onError`, `onSuccess` | the CR's list of conditions | one update per call of the manager |
| Process | `cmd/controller`, `registry.go` | wiring at start-up | |

Outside of `src/`: the ACK runtime's reconciler, which calls the managers, puts the finalizer on
and patches the CR; Kubernetes with its work queue; and AWS IAM. They are modelled from the way
the code uses them.

One worker reconciles a CR at a time. Within a reconcile, the manager makes up to a dozen calls
to IAM and holds no lock on anything: between any two calls users edit or delete the CR, others
change the IAM object, a call can fail or the process die. Nothing is rolled back; what makes
the controller correct is that each reconcile reads first and that the order of the calls of an
update leaves every intermediate state a good one. That is what the models are about.

What makes each component correct:

- **Role.** An update never takes a grant away that both specs give; a changed inline policy is
  never missing; success is reported only when all that the code sends was applied; no role outlives its CR;
  AWS's own tags are left alone; the role converges to the last acceptable spec; deletion ends.
- **Policy.** There is room for the new version when it is created, and no more history is given
  up than must be; the rest as for the Role.
- **Factories.** A reconcile always gets its manager; no worker builds one twice for an id.
- **Group.** As the Role, within IAM's quota of policies; a new group, which is created without
  its policies, gets them without anybody asking.
- **InstanceProfile.** Never two roles; the old one comes off first, and a failure in between is
  made good.
- **OpenIDConnectProvider.** No client id that both specs allow is off for a moment; an ARN that is
  lost is noticed.
- **ServiceLinkedRole.** AWS is asked to delete the role before its CR goes; a name that is lost is
  noticed.
- **User.** A CR leaves the queue only when the user is what it says, whatever lists of tags a
  listing that was read in part twice, or a spec that names a key twice, makes of it.
- **References.** A CR that reports Synced stands on objects that exist. What references resolve to
  is never written into a CR. A reference that cannot be resolved stops an update; it does not
  detach anything. Everything comes up that can, in whatever order the CRs come, and a deletion
  waits only for a living CR that uses the object.
- **Tags.** The comparison, the conversions between lists and maps, and the mirroring of AWS's tags
  agree well enough that no difference is missed and none is seen for ever; the User shows it.
- **Conditions.** A retry is asked for when one is needed, and no error stays reported that would
  block those who refer to the CR.

## The modules

| Module | Models | How |
|---|---|---|
| `Lifecycle` | what every kind promises | CR (`here`, `managed`, `deleting`) and IAM object (`exists`); five actions |
| `Role` | `pkg/resource/role` | see below |
| `Policy` | `pkg/resource/policy` | as `Role`, with `versions`, `default` and the ARN (`cr.arn` on record, `arn` in the copy) |
| `Reconciler` | what the kinds below share | the CR, its outcome and place in the queue, the object, the reconcile with its copies; the steps between the manager's calls and the environment |
| `Group` | `pkg/resource/group` | extends `Reconciler`: one action per IAM call, and IAM's quota |
| `Tags` | `pkg/util/tags.go`, `*/tags.go` | operators on lists (as in the API) and maps (as in the code) of tags; what is added and removed are sets, as its order is of no consequence |
| `User` | `pkg/resource/user` | extends `Reconciler` and `Tags`: the tags are lists, read page by page |
| `InstanceProfile` | `pkg/resource/instance_profile` | extends `Reconciler` |
| `OpenIDConnectProvider` | `pkg/resource/open_id_connect_provider` | extends `Reconciler`; `id` says whether the ARN is on record |
| `ServiceLinkedRole` | `pkg/resource/service_linked_role` | extends `Reconciler`; `id` is the role's name, `object.task` AWS's deletion task |
| `References` | `*/references.go`, `updateConditions`, and the order of the calls | policies, roles and profiles that refer to each other, each CR with a reconcile of its own |
| `ManagerFactory` | `ManagerFor` | workers, the cache, and the RWMutex by its documented promises |
| `MCRole`, `MCPolicy`, ... | | specs, budgets and constants for TLC |
| `RoleProofs`, `PolicyProofs`, `GroupProofs`, `UserProofs`, `InstanceProfileProofs` | | theorems about the module of that name |
| `FoundByIdProofs` | | theorems about `OpenIDConnectProvider` and `ServiceLinkedRole`, the kinds found by what AWS has answered |
| `ConcurrencyProofs` | | theorems about `References` and `ManagerFactory`, where reconciles meet |
| `ReconcilerProofs` | | lemmas about the steps of `Reconciler`, for any kind |

`Role` has one variable for each of the places where state lives: `cr`, `cond` and `queued` in
Kubernetes; `exists` and `role` in IAM; `pc`, `op`, `desired`, `latest`, `pending` and `plan` in
the reconcile, which are lost with a crash. An action is one call to IAM with all that the code
does until the next one. `GetRole`, `ListAttachedRolePolicies`, `ListRolePolicies`,
`GetRolePolicy` and `ListRoleTags` are the reads of `sdkFind` in their order, so that `latest` can
be torn. The last read computes `plan`, the calls that `sdkUpdate` (or the emptying in
`sdkDelete`) will make; this is sound because these calls depend on the two copies only, and the
copies do not change any more. `Rank` is the order in which the code makes them, and `Due` takes
the next one; the calls of one loop, whose order the code leaves to Go's map iteration or to the
user's list, are taken in any order. A call that IAM refuses, a call on a role that has vanished
and a call that fails for no reason (`CallFails`) end the reconcile with the condition that
`onError` derives from the error.

In the modules that extend `Reconciler` the object is one variable, `None` when it is not there,
and `todo` holds the calls of an update that are still to be made, sorted by the module's `Order`.
`cr.id` and `id` say whether the CR, and the reconcile's copy of it, hold what the object is found
by: always for a kind with a name in its spec (`ByName`), from the creation on for the others. An
object that exists without its id on record is lost: `known` leaves it out, and `Lifecycle` is
implemented for what is known. `Init`, `EditSpec` and `Environment` take the set of specs of the kind.
In `ServiceLinkedRole` and `ManagerFactory` the names that another module has too carry a prefix
(`SLRNext`, `MFTypeOK`), so that one proof module can extend two specifications; what they share,
`Reconciler`, is then shared for good.

`References` has the same variables as functions of the CRs. It composes what the modules of the
kinds detail, at the grain at which one CR can see another: its conditions (the three that
`getReferencedResourceState` reads), whether its object exists, and what the objects use. IAM refuses
to delete an object that uses others or is used.

History and bounds: `drift` remembers that somebody else changed the object since the reconcile
began, for properties that hold only if nobody does. `Budget` bounds edits, failures, crashes, lost
patches and changes behind the controller's back; `Creations` how often a CR is created;
`MaxListed` the tags that a listing gathers from truncated pages. Drop them, and the models have no
bound.

Abstractions: documents, ARNs, tags, paths and sessions are opaque values. `Unescape` is what
`url.QueryUnescape` makes of a document; the identity on documents without `+` and `%`. What
IAM takes for a field that is not sent is IAM's, not the controller's (`OrElse` in `Role`): its
default for the session of a role and, at its creation, the path; what the role has for its
description. An object's name is fixed, and nobody else creates an
object of that name. Tags are maps from keys to values except in `User`, where they are the lists of
the API.

## The runs

| Run | Instance | Shows |
|---|---|---|
| `role` | four specs that change every field in every way, two of them refused; an edit, a failure, a crash, a change by others | `GrantsNeverDip`, `InlineNeverMissing`, `SuccessMeansApplied`, `NoOrphan`, `SystemTagsKept`, `ImplementsLifecycle`, `Converges` |
| `policy` | three specs, one refused; three edits against a quota of three versions, a failure, a lost patch, a crash, a change by others | `RoomForVersion`, `HistoryKept`, `SuccessMeansApplied`, `ImplementsLifecycle`, `Converges` |
| `group` | four specs, one malformed, one that cannot be unescaped; one of each misfortune but the lost patch | `PoliciesNeverDip`, `NothingForgotten`, `Converges` |
| `user` | three specs, one malformed, with keys that are named twice or have no value; an edit, a failure, a change by others; listings of up to two tags before the last page | `NothingForgotten`, `Converges` |
| `instance_profile` | four specs; two edits, a failure, a crash, a change by others | `RoomForRole`, `SuccessMeansApplied`, `Converges` |
| `oidc` | four specs, one refused, one without thumbprints; one of each misfortune | `ClientsNeverDip`, `Converges` |
| `service_linked_role` | three descriptions; two edits, two changes by others, a failure, a lost patch, a crash | `DeletionAsked`, `Converges` |
| `references` | two policies, of which one is never created, a role with five specs (one reference, the missing one, both, none while malformed, references and ids at once) and a profile; an edit, and a failing call or a crash | `Grounded`, `SpecsKept`, `GrantsKept`, `ComesUp`, `Lingers` |
| `manager_factory` | three workers, two ids, two calls each | `AtMostOnePerWorker`, `CallsReturn` |

All of them check the module's `TypeOK` (`SLRTypeOK`, `MFTypeOK`) as well, and all have fairness.
`Converges` (`SLRConverges`) says what is there
in the end of a CR whose deletion nobody asked for, and that of one whose deletion was asked for
nothing is left.

The bounds: a CR is first created without part of what its spec says, so that the reconcile after
that is an update already; an edit while it is under way, and one failure or crash in it, leave it
half done, and the next reconcile begins from there with another spec. One change by others falls
between any two calls, the last read and the first write included. A quota of three versions (five
in IAM) is met after two edits and must be met again after the first deletion, hence three edits.
Two policies, two documents and two names are enough for a swap next to something that stays. Three
workers are needed for a reader to come between two writers. A name in the spec makes a lost patch
the same as a crash, which is why kinds that are found by name do without; for the User a crash is a
failure of the call after it, as nothing is kept between two reconciles. Two tags from truncated
pages make a list longer, by a key or by the same key again, than any that the specs give, and as
long as one that differs. A chain of three CRs with a branch that is missing has each of the ways in
which a reference can be: ready, not there yet, going away, refused, changed. A system that has
deleted its CR stops: the runs do not check for deadlock; `Converges`, `ComesUp`, `Lingers` and
`CallsReturn` say what must go on.

Three runs show a disagreement between the code and what it says of itself:

| Run | Disagreement |
|---|---|
| `role_tags` | a tag whose value changes is added first and then removed by its key; success is reported |
| `oidc_late_init` | if the read of the first late initialization fails, the thumbprints stay nil, and each later update fails on sending nil |
| `service_linked_role_task` | the CR goes once AWS has accepted the deletion task, which may fail; the role stays |

Others were met and have no run:

- A document with `+` or `%xx` in an inline policy is URL-decoded on its way to IAM and never in
  sync (`role/hooks.go`, `addInlinePolicy`; group and user alike).
- In a group that is at IAM's quota, swapping one policy for another is refused for ever: it is
  attached before the other is detached (`group/hooks.go:60`; role and user alike).
- A user's malformed document is not among its terminal errors and is tried again for ever; the
  same document is terminal for a role or a group.
- `getTags` of a user never passes the marker on (`user/hooks.go:456-468`). After a truncated page it
  reads the first one again and appends it; while IAM goes on truncating it never returns. The
  user's tags whose value changes are lost as the role's are.
- A policy, provider or service-linked role whose id is lost with the status patch outlives its CR
  (`Lost` and `known` leave it out, and `Converges` says what is reported meanwhile).
- A change of a policy's description or path is compared, never made, and reported as synced
  (`policy/hooks.go:41-71`). So is a change of a role's path, which has `UpdateRole` called in each
  reconcile, without the path (`role/delta.go:81-87`, `role/sdk.go:424-473`), a description that is
  taken out of a role's spec (a nil one is not sent, `role/sdk.go:457`), and a change of an instance
  profile's path (`instance_profile/delta.go:53-59`).
- `syncTags` of the provider lists the tags again and asks to remove a tag of AWS that appeared since
  ReadOne (`RemoveTags` models the refusal).
- `ResolveReferences` fills the ids into the object that it is given, where its comment speaks of a
  copy, and the error of `validateReferenceFields` is returned only after everything has been
  resolved (`role/references.go:60-84`). `SpecsKept` and `GrantsKept` hold all the same.
- A rename of a role leaves the role of the old name: nothing makes the name immutable.
- A terminal error leaves an earlier Recoverable condition as it is (`role/sdk.go:566`).
- `equalStrings` dereferences nil when only its second argument is nil and the first is not empty
  (`pkg/util/tags.go:60`); no caller gets there, since `EnsureTags` gives every tag a value.
- Two workers that both miss in the cache build a manager each (`AtMostOnePerWorker` is what holds).

The properties of the passing runs are stated around these: `SuccessMeansApplied` of the Role
leaves out the tags whose value changed, as `Contested` does for the User, the path, and a
description that is nil, as does `Converges`, while the specs of the run give and take both; `Converges` of Role, Group
and User takes specs whose inline documents decode to themselves, that of the provider specs that
have thumbprints; the group's specs stay within the quota.

## Fairness

`FairSpec` has weak fairness of the controller's own steps and of the informer's resync, nothing
else; in `References` for each CR, since every kind has a worker of its own and the queue hands out
its keys in order. The worker of a reconcile is a goroutine that goes on when its call returns; the
work queue hands out a key that is in it, with a back-off that ends; the resync of the informer (ten
hours by default) is what brings a CR with a terminal error, or one whose object has drifted, back
into the queue. Users, others and failures owe nothing: the budgets make them stop in the end, which
is the premise of any convergence. A deletion task of AWS ends, well or not (`TaskEnds`).
`NothingForgotten` of Group and User needs no fairness: it is what the controller does without a
resync. `ManagerFactory` assumes that a goroutine inside `ManagerFor` goes on when the lock lets it.

## The proofs

Every theorem holds for all values of the constants that satisfy the module's named assumptions,
which say that the constants have the shapes the specs have (bad documents are documents, `None` is
none of the values, the budgets are numbers, the controller tags with finitely many keys), and otherwise only this: IAM's own session is a good
one (`Role`), a policy keeps two versions or more (`Policy`), specs stay within the quota (`Group`), no
spec has tags of AWS, and kinds are found by name or not as the code has it. There is no
bound on the number of specs, policies, tags, workers, CRs or misfortunes.

| Module | Theorem | Statement |
|---|---|---|
| `RoleProofs` | `TypeCorrect`, `NothingOrphaned`, `GrantsKept`, `InlineKept`, `AppliedOnSuccess` | `[]` of `TypeOK`, `NoOrphan`, `GrantsNeverDip`, `InlineNeverMissing`, `SuccessMeansApplied` |
| | `SystemTagsStay` | `SystemTagsKept`, an action property |
| | `RoleImplementsLifecycle` | `Spec => L!Spec` |
| `PolicyProofs` | `TypeCorrect`, `RoomKept`, `AppliedOnSuccess` | `[]` of `TypeOK`, `RoomForVersion`, `SuccessMeansApplied` |
| | `HistoryGivenUpOnlyForRoom` | `HistoryKept`, an action property |
| | `PolicyImplementsLifecycle` | `Spec => L!Spec` |
| `GroupProofs` | `TypeCorrect`, `PoliciesKept`, `NeverForgotten` | `[]` of `TypeOK`, `PoliciesNeverDip`, `NothingForgotten` |
| | `GroupImplementsLifecycle` | `Spec => ImplementsLifecycle` |
| `InstanceProfileProofs` | `TypeCorrect`, `RoomKept`, `AppliedOnSuccess` | `[]` of `TypeOK`, `RoomForRole`, `SuccessMeansApplied` |
| | `ProfileImplementsLifecycle` | `Spec => ImplementsLifecycle` |
| `UserProofs` | `TypeCorrect`, `NeverForgotten` | `[]` of `TypeOK`, `NothingForgotten` |
| | `UserImplementsLifecycle` | `Spec => ImplementsLifecycle` |
| `FoundByIdProofs` | `TypeCorrect`, `ClientsKept` | `[]` of the provider's `TypeOK`, `ClientsNeverDip` |
| | `ProviderImplementsLifecycle` | `Spec => ImplementsLifecycle` |
| | `SLRTypeCorrect`, `AskedFirst` | `[]` of the service-linked role's `SLRTypeOK`, `DeletionAsked` |
| `ConcurrencyProofs` | `TypeCorrect`, `ResolvedIdsCleared`, `SyncedIsGrounded` | `[]` of the references' `TypeOK`, `SpecsKept`, `Grounded` |
| | `UnresolvedDetachesNothing` | `GrantsKept`, an action property |
| | `LocksTypeCorrect`, `BuiltOncePerWorker` | `[]` of the factory's `MFTypeOK`, `AtMostOnePerWorker` |

The argument is the same everywhere: none of these invariants is inductive, because each is about
the middle or the end of a reconcile and rests on what the calls before have done. The strengthening
says, place by place, how far the reconcile has come; one lemma per group of actions preserves it.

- **Role.** `Shape` (types, and a plan that stems from one comparison of the two copies: that what
  `AddInlinePolicy` puts on the role is a document rests on that). `LifeInv`: the role does not exist
  while the reconcile is about to create it or to take the finalizer off, a reconcile that deletes
  belongs to a CR that is being deleted, and such a CR has the finalizer. `Undip`: while nobody
  interferes the role's policies are those that were read with the attachments made but for those
  still planned, and every detachment is planned as long as an attachment is; the same for inline
  documents. `Complete`: each part of the role but the path is as desired, or a call of the plan that is still to
  be made settles it, so that an empty plan means that all of this was applied. `MirrorInv`: the two
  compared copies agree on AWS's tags, so that no plan takes one off.
- **Policy.** `Inv` is the types of what Kubernetes and the reconcile hold (`FlowOK`), the limit and the
  uniqueness of the ids of versions (`IamOK`), and `Progress`: while nobody interferes the versions
  that were listed are those that the policy has, which is why the deletion makes room and takes the
  oldest. `LifeInv` relates the ARN in the copy, the ARN on record, the finalizer and the policy.
- **Group.** `Shape`, `Progress` as for the Role, and `QueueInv`: a reconcile works on the CR's present
  spec or the CR is in the queue, and the group is finished, queued or being worked on.
- **InstanceProfile.** `Shape`, `OpInv` (an emptying only detaches) and `Progress`: the old role is on
  the profile until its removal was called, and each tag is the old one, none or the new one by the
  calls left.
- **User.** The lemmas come in two layers. First the tags: what each operator of `Tags` makes of a list
  that may name a key twice or give no value. That the last (or first) tag of a key exists is the
  well-foundedness of the finite subsets of the indices, as induction over the list is out of reach;
  a list is `Normal` if every key occurs once and has a value, and everything that `EnsureTags`,
  `mirrorAWSTags` and IAM make is. `CompareTags` finds no difference only between lists with the same
  tags (`ComparedIs`). Then the reconcile: `Shape`; `Origin`, each tag of the user and of the
  completed copy comes from some spec or the controller, so that none of AWS's is in the way before
  others interfere; `Progress` as for the Group, whose `TagsProgress` says that a tag which is not
  desired is still to be taken off, and with its key a desired one only if two specs give the key
  different values (`Contested`); and `QueueInv`, in which the completed copy agrees with the CR's
  present spec (`Agrees`), or the CR is in the queue.
- **OpenIDConnectProvider.** `Shape`, and `Progress`: what was listed is there until all desired client
  ids are (`ClientsProgress`). `IdLifeInv` keeps the ARN in the copy and the one on record together, so
  that the provider becomes known in the step that puts the ARN on record, at a CR that has the
  finalizer.
- **ServiceLinkedRole.** `NameInv`: a copy with a name has the CR's own, and a CR without the finalizer
  was asked about.
- **References.** `Typed` adds to the types that a copy's ids are those given and those resolved.
  `Solid`: an object uses only what exists, its reconcile's view of it is exact, and a synced CR that
  no reconcile or queue holds has what its spec asks for; that a referred object cannot go while it
  is used is IAM's `DeleteConflict`.
- **ManagerFactory.** `Locks`: the books of the RWMutex, with one writer. `Bounded`: managers built, and
  workers that have missed and may still build one, are no more than there are workers.

The refinements are step simulations: the finalizer's actions, the creation, the deletion, the
user's deletion and a change by others are the five actions of `Lifecycle`, everything else stutters.
`ReconcilerProofs` does this once for the steps that the kinds share.

Model-checked only: all liveness (`Converges`, `SLRConverges`, `ComesUp`, `Lingers`, `CallsReturn`),
which is out of the prover's reach. Of the three properties that a run shows violated there is
nothing to prove.

## Not modelled

- **Adoption and identifiers.** `SetIdentifiers` and `PopulateResourceFromAnnotation` are called by a
  flow of the ACK runtime, outside of `src/`, whose order and conditions cannot be read from here.
  (That of `service_linked_role/resource.go:88-97` stores the role's name as the service's name.)
  `FilterSystemTags` serves that flow only.
- **References** across namespaces, of users and groups, and to permissions boundaries: the same
  generated code as for the policies of roles.
- **Renames**, and others who create an object of the CR's name.
- **Listings** of more than one page, except where their loop is wrong (User).
- **The process**: flags, registration of the kinds and start-up, which have no state of their own
  after it.
- Generated deep copies, CRDs, Helm charts and code-generator templates have no behaviour to model;
  the end-to-end tests are evidence of what is meant.
