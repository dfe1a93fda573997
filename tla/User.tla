-------------------------------- MODULE User --------------------------------
(***************************************************************************)
(* The resource manager of src/pkg/resource/user: a user has a path, a     *)
(* permissions boundary, managed and inline policies, and tags.            *)
(*                                                                         *)
(* Tags are the lists that the code handles, from a spec that may name a   *)
(* key twice or give no value to the pages in which IAM answers: getTags   *)
(* does not pass the marker on, so that after a truncated page it reads    *)
(* the first one again and appends it once more.                           *)
(*                                                                         *)
(* Abstractions.  ARNs, documents and paths are opaque; a boundary that is *)
(* the empty string is None.  The name is fixed, nobody else creates a     *)
(* user of that name or gives it keys or groups, which would have IAM      *)
(* refuse its deletion.  Quotas are left out.                              *)
(***************************************************************************)
EXTENDS Reconciler, Tags

CONSTANTS
    Specs,          \* the specs a user may submit
    PolicyARNs,     \* managed policies, boundaries among them
    InlineNames,    \* names of inline policies
    Docs,           \* policy documents
    BadDocs,        \* those that IAM finds malformed
    Unescape,       \* what url.QueryUnescape makes of a document
    Paths,          \* paths
    DefaultPath,    \* the one that IAM supplies
    MaxListed       \* bound on the tags that a listing gathers from truncated pages

NoInline == [n \in InlineNames |-> None]

Content == [policies : SUBSET PolicyARNs, inline : [InlineNames -> Maybe(Docs)],
            tags : Seq(Tag), boundary : Maybe(PolicyARNs), path : Maybe(Paths)]

ASSUME UserAssumption ==
    /\ ByName
    /\ Specs # {} /\ Specs \subseteq Content
    /\ \A s \in Specs : Keys(s.tags) \cap SystemKeys = {}
    /\ BadDocs \subseteq Docs
    /\ Unescape \in [Docs -> Maybe(Docs)]
    /\ DefaultPath \in Paths
    /\ None \notin PolicyARNs \cup InlineNames \cup Docs \cup Paths
    /\ None \notin Content
    /\ MaxListed \in Nat

\* The calls with what each is about: those of an update or an emptying, and the last
\* ones of ReadOne.
Calls ==
    ({"AttachUserPolicy", "DetachUserPolicy", "PutUserPermissionsBoundary"} \X PolicyARNs)
        \cup ({"PutUserPolicy", "DeleteUserPolicy", "GetUserPolicy"} \X InlineNames)
        \cup ({"TagUser", "UntagUser", "DeleteUserPermissionsBoundary"} \X {None})
        \cup ({"UpdateUser"} \X Maybe(Paths))

Places == {"read", "listPolicies", "listInline", "readInline", "listTags", "update", "deleteUser"}

\* There are calls left to make exactly in two places.
TypeOK ==
    /\ CommonTypes(Content, Places, Calls)
    /\ (todo # {}) = (pc \in {"readInline", "update"})

\* A malformed document is not among the terminal errors: it is tried again for ever.
terminalAWSError(code) == IF code = "InvalidInput" THEN "Terminal" ELSE "Recoverable"

When(condition, calls) == IF condition THEN calls ELSE {}

SyncManagedPolicies(d, l) ==
    {<<"AttachUserPolicy", p>> : p \in d.policies \ l.policies}
        \cup {<<"DetachUserPolicy", p>> : p \in l.policies \ d.policies}

\* A name that gets another document is put, not deleted.
SyncInlinePolicies(d, l) ==
    {<<"PutUserPolicy", n>> : n \in {m \in InlineNames : d.inline[m] \notin {None, l.inline[m]}}}
        \cup {<<"DeleteUserPolicy", n>> :
                n \in {m \in InlineNames : l.inline[m] # None /\ d.inline[m] = None}}

SyncTags(d, l) ==
    When(ToAdd(d.tags, l.tags) # {}, {<<"TagUser", None>>})
        \cup When(ToRemove(d.tags, l.tags) # {}, {<<"UntagUser", None>>})

SyncUserPermissionsBoundary(d) ==
    IF d.boundary = None THEN {<<"DeleteUserPermissionsBoundary", None>>}
    ELSE {<<"PutUserPermissionsBoundary", d.boundary>>}

\* The calls for the differences between the two copies.
Changes(d, l) ==
    SyncManagedPolicies(d, l)
        \cup SyncInlinePolicies(d, l)
        \cup When(CompareTags(d.tags, l.tags), SyncTags(d, l))
        \cup When(d.boundary # l.boundary, SyncUserPermissionsBoundary(d))
        \cup When(d.path # l.path, {<<"UpdateUser", d.path>>})

Emptying_ManagedOnly(l) ==  \* mutant: the inline policies stay
    SyncManagedPolicies([l EXCEPT !.policies = {}], l)

\* sdkDelete first syncs the user with a copy that has no policies.
Emptying(l) ==
    SyncManagedPolicies([l EXCEPT !.policies = {}], l)
        \cup SyncInlinePolicies([l EXCEPT !.inline = NoInline], l)

\* sdkUpdate makes its calls in this order.
Order == <<"AttachUserPolicy", "DetachUserPolicy", "PutUserPolicy", "DeleteUserPolicy",
           "TagUser", "UntagUser", "PutUserPermissionsBoundary", "DeleteUserPermissionsBoundary",
           "UpdateUser">>

Rank(call) == CHOOSE i \in DOMAIN Order : Order[i] = call[1]

Due(call) == call \in todo /\ \A other \in todo : Rank(call) <= Rank(other)

After_NotEmptied(calls) ==  \* mutant: DeleteUser is called without the policies taken off
    IF op = "delete" THEN "deleteUser" ELSE IF calls # {} THEN "update" ELSE "lateInit"

After(calls) ==
    IF calls # {} THEN "update" ELSE IF op = "delete" THEN "deleteUser" ELSE "lateInit"

(***************************************************************************)
(* ReadOne, one call after the other.  Only GetUser takes NoSuchEntity for *)
(* a user that is not there.                                               *)
(***************************************************************************)
\* Before the reconciler reads, it has EnsureTags complete the desired tags.
GetUser ==
    /\ pc = "read"
    /\ \/ /\ desired' = IF op = "delete" THEN desired
                        ELSE [desired EXCEPT !.tags = EnsureTags(desired.tags)]
          /\ latest' = object
          /\ Goto(IF exists THEN "listPolicies" ELSE IF op = "delete" THEN "unmanage" ELSE "manage")
          /\ UNCHANGED <<object, op, id, todo>>
       \/ CallFails

ListAttachedUserPolicies ==
    /\ pc = "listPolicies"
    /\ \/ /\ exists
          /\ latest' = [latest EXCEPT !.policies = object.policies]
          /\ Goto("listInline")
          /\ UNCHANGED <<object, op, id, desired, todo>>
       \/ ~exists /\ Refused(terminalAWSError("NoSuchEntity"))
       \/ CallFails

\* The inline policies whose documents are still to be read.  When all are, getTags
\* begins with an empty list.
ReadInline(l, pending) ==
    /\ latest' = IF pending = {} THEN [l EXCEPT !.tags = <<>>] ELSE l
    /\ todo' = pending
    /\ Goto(IF pending = {} THEN "listTags" ELSE "readInline")
    /\ UNCHANGED <<object, op, id, desired>>

ListUserPolicies ==
    /\ pc = "listInline"
    /\ \/ /\ exists
          /\ ReadInline([latest EXCEPT !.inline = NoInline],
                  {<<"GetUserPolicy", n>> : n \in {m \in InlineNames : object.inline[m] # None}})
       \/ ~exists /\ Refused(terminalAWSError("NoSuchEntity"))
       \/ CallFails

GetUserPolicy ==
    \E n \in InlineNames :
        LET call == <<"GetUserPolicy", n>>
            found == exists /\ object.inline[n] # None
        IN  /\ pc = "readInline" /\ call \in todo
            /\ \/ found /\ ReadInline([latest EXCEPT !.inline[n] = object.inline[n]], todo \ {call})
               \/ ~found /\ Refused(terminalAWSError("NoSuchEntity"))
               \/ CallFails

\* A page that is truncated is followed by the first one again; with the last page
\* ReadOne is over, and the tags of AWS join the desired ones.
ListUserTags ==
    /\ pc = "listTags"
    /\ \/ /\ exists
          /\ \E n \in 1..(Len(object.tags) - 1) :
                /\ Len(latest.tags) + n <= MaxListed
                /\ latest' = [latest EXCEPT !.tags = @ \o SubSeq(object.tags, 1, n)]
          /\ Goto("listTags")
          /\ UNCHANGED <<object, op, id, desired, todo>>
       \/ /\ exists
          /\ \E l \in {[latest EXCEPT !.tags = @ \o object.tags]} :
             \E d \in {[desired EXCEPT !.tags = IF op = "delete" THEN @
                                               ELSE MirrorAWSTags(@, l.tags)]} :
             \E calls \in {IF op = "delete" THEN Emptying(l) ELSE Changes(d, l)} :
                /\ latest' = l
                /\ desired' = d
                /\ todo' = calls
                /\ Goto(After(calls))
          /\ UNCHANGED <<object, op, id>>
       \/ ~exists /\ Refused(terminalAWSError("NoSuchEntity"))
       \/ CallFails

\* The policies are not part of the call.
CreateUser ==
    /\ pc = "create"
    /\ \/ /\ object' = [policies |-> {}, inline |-> NoInline, tags |-> desired.tags,
                        boundary |-> desired.boundary,
                        path |-> IF desired.path = None THEN DefaultPath ELSE desired.path]
          /\ op' = "create"
          /\ Goto("lateInit")
          /\ UNCHANGED <<id, desired, latest, todo>>
       \/ CallFails

(***************************************************************************)
(* Update, and the emptying of a user that is to be deleted.               *)
(***************************************************************************)
\* IAM takes the call if the condition holds, with the effect o on the user; if not,
\* the error has this code.
Attempt(call, condition, o, code) ==
    /\ pc = "update" /\ Due(call)
    /\ \/ /\ exists /\ condition
          /\ object' = o
          /\ todo' = todo \ {call}
          /\ Goto(After(todo \ {call}))
          /\ UNCHANGED <<op, id, desired, latest>>
       \/ ~exists /\ Refused(terminalAWSError("NoSuchEntity"))
       \/ exists /\ ~condition /\ Refused(terminalAWSError(code))
       \/ CallFails

AttachUserPolicy ==
    \E p \in PolicyARNs :
        Attempt(<<"AttachUserPolicy", p>>, TRUE, [object EXCEPT !.policies = @ \cup {p}], "None")

DetachUserPolicy ==
    \E p \in PolicyARNs :
        Attempt(<<"DetachUserPolicy", p>>, p \in object.policies,
                [object EXCEPT !.policies = @ \ {p}], "NoSuchEntity")

\* The document is unescaped before it is sent, which may fail; IAM checks the result.
PutUserPolicy ==
    \E n \in InlineNames :
        LET doc == Unescape[desired.inline[n]]
        IN  Attempt(<<"PutUserPolicy", n>>, doc \notin BadDocs \cup {None},
                    [object EXCEPT !.inline[n] = doc],
                    IF doc = None THEN "EscapeError" ELSE "MalformedPolicyDocument")

DeleteUserPolicy ==
    \E n \in InlineNames :
        Attempt(<<"DeleteUserPolicy", n>>, object.inline[n] # None,
                [object EXCEPT !.inline[n] = None], "NoSuchEntity")

AddTags ==
    Attempt(<<"TagUser", None>>, TRUE,
            [object EXCEPT !.tags = Tagged(@, ToAdd(desired.tags, latest.tags))], "None")

\* By their keys, those of tags that have just been added with another value included.
RemoveTags ==
    Attempt(<<"UntagUser", None>>, TRUE,
            [object EXCEPT !.tags = Untagged(@, ToRemove(desired.tags, latest.tags))], "None")

PutUserPermissionsBoundary ==
    \E p \in PolicyARNs :
        Attempt(<<"PutUserPermissionsBoundary", p>>, TRUE, [object EXCEPT !.boundary = p], "None")

DeleteUserPermissionsBoundary ==
    Attempt(<<"DeleteUserPermissionsBoundary", None>>, TRUE,
            [object EXCEPT !.boundary = None], "None")

\* A path that is nil is not sent, and stays.
UpdateUser ==
    \E p \in Maybe(Paths) :
        Attempt(<<"UpdateUser", p>>, TRUE,
                [object EXCEPT !.path = IF p = None THEN @ ELSE p], "None")

\* ReadOne once more, for the path; what it finds of the rest is not used.
LateInitialize ==
    /\ pc = "lateInit"
    /\ \/ /\ exists
          /\ latest' = object
          /\ Goto("patch")
          /\ UNCHANGED <<object, op, id, desired, todo>>
       \/ ~exists /\ Refused("Recoverable")
       \/ CallFails

PatchCR_CreatedIsSynced ==  \* mutant: without SetSynced(False) in sdkCreate
    Patch("Synced", IF desired.path # None THEN cr.spec
                    ELSE [cr.spec EXCEPT !.path = latest.path])

\* The patch of the spec holds the late-initialized field, if there is one.  Synced=False
\* after a creation asks for another reconcile, which attaches the policies.
PatchCR ==
    Patch(IF op = "create" THEN "Unsynced" ELSE "Synced",
          IF desired.path # None THEN cr.spec ELSE [cr.spec EXCEPT !.path = latest.path])

NoPolicies(o) == o.policies = {} /\ o.inline = NoInline

\* IAM refuses (DeleteConflict) while there are policies.
DeleteUser ==
    /\ pc = "deleteUser"
    /\ \/ exists /\ NoPolicies(object) /\ Answered(None, "unmanage")
       \/ ~(exists /\ NoPolicies(object)) /\ Refused("Recoverable")
       \/ CallFails

\* Somebody else attaches or detaches a policy, puts or deletes an inline policy, takes
\* the boundary off or deletes the user, or an AWS service tags it.
Drift ==
    \/ \E p \in PolicyARNs :
          exists /\ Drifts([object EXCEPT !.policies = IF p \in @ THEN @ \ {p} ELSE @ \cup {p}])
    \/ \E n \in InlineNames, doc \in Maybe(Docs \ BadDocs) :
          /\ exists /\ (object.inline[n] = None) # (doc = None)
          /\ Drifts([object EXCEPT !.inline[n] = doc])
    \/ \E k \in SystemKeys :
          exists /\ Drifts([object EXCEPT !.tags = Tagged(@, {[key |-> k, value |-> Empty]})])
    \/ exists /\ Drifts([object EXCEPT !.boundary = None])
    \/ Drifts(None)

ReadOne ==
    \/ GetUser \/ ListAttachedUserPolicies \/ ListUserPolicies \/ GetUserPolicy \/ ListUserTags

Update ==
    \/ AttachUserPolicy \/ DetachUserPolicy \/ PutUserPolicy \/ DeleteUserPolicy
    \/ AddTags \/ RemoveTags \/ PutUserPermissionsBoundary \/ DeleteUserPermissionsBoundary
    \/ UpdateUser

Controller ==
    \/ Reconcile \/ ReadOne \/ MarkManaged \/ CreateUser \/ Update
    \/ LateInitialize \/ PatchCR \/ DeleteUser \/ MarkUnmanaged

Next == Controller \/ Environment(Specs) \/ Drift

Spec == Init(Specs) /\ [][Next]_vars

FairSpec == Spec /\ WF_vars(Controller) /\ WF_vars(Resync)

-----------------------------------------------------------------------------
(* Properties.                                                             *)

\* The tags that a spec asks for, with those of the controller.
Wanted(s) == ToMap(EnsureTags(s.tags))

\* Keys that two specs give different values.
Contested == {k \in TagKeys : \E s, t \in Specs :
                 k \in DOMAIN Wanted(s) \cap DOMAIN Wanted(t) /\ Wanted(s)[k] # Wanted(t)[k]}

\* The user is what s says, but for the unescaping of its documents, and for tags that
\* have been lost with a change of their values.
Matches(s) ==
    /\ exists
    /\ object.policies = s.policies
    /\ \A n \in InlineNames :
           IF s.inline[n] = None THEN object.inline[n] = None
           ELSE object.inline[n] \in {s.inline[n], Unescape[s.inline[n]]}
    /\ \A k \in Keys(object.tags) :
           k \in DOMAIN Wanted(s) /\ ToMap(object.tags)[k] = Wanted(s)[k]
    /\ DOMAIN Wanted(s) \subseteq Keys(object.tags) \cup Contested
    /\ object.boundary = s.boundary
    /\ s.path \in {None, object.path}

\* As long as nobody else touches the user, a CR leaves the queue only when the user is
\* what it says: neither a creation, which leaves the policies for later, nor an edit, nor
\* a list of tags that was read in part twice is forgotten.
NothingForgotten ==
    /\ pc = "idle" /\ ~queued
    /\ cr.here /\ ~cr.deleting
    /\ budget["drift"] = Budget["drift"]
    => Matches(cr.spec)

\* Does every document of s mean itself when it is unescaped?
Literal(s) == \A n \in InlineNames : s.inline[n] # None => Unescape[s.inline[n]] = s.inline[n]

\* Once edits, failures, crashes and changes by others are over, the user is what the
\* spec says, for good, and the CR reports it, unless its deletion was asked for: then
\* it is gone.  A malformed document is tried again and again.
Converges ==
    <>[](cr.here =>
            /\ ~cr.deleting
            /\ IF \A n \in InlineNames : cr.spec.inline[n] \notin BadDocs
               THEN Literal(cr.spec) =>
                    /\ exists
                    /\ object.policies = cr.spec.policies
                    /\ object.inline = cr.spec.inline
                    /\ Restrict(ToMap(object.tags), Keys(object.tags) \ SystemKeys)
                           = Wanted(cr.spec)
                    /\ object.boundary = cr.spec.boundary
                    /\ object.path = cr.spec.path
                    /\ cond = "Synced"
               ELSE cond = "Recoverable")
=============================================================================
