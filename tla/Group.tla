-------------------------------- MODULE Group --------------------------------
(***************************************************************************)
(* The resource manager of src/pkg/resource/group: a group has a path,     *)
(* managed policies, of which IAM attaches no more than a quota, and       *)
(* inline policies.                                                        *)
(*                                                                         *)
(* Abstractions.  ARNs, documents and paths are opaque.  The name is       *)
(* fixed, nobody else creates a group of that name, and it has no members  *)
(* when it is deleted (IAM refuses that).                                  *)
(***************************************************************************)
EXTENDS Reconciler, FiniteSets

CONSTANTS
    Specs,          \* the specs a user may submit
    PolicyARNs,     \* managed policies
    Quota,          \* how many of them IAM attaches to a group
    InlineNames,    \* names of inline policies
    Docs,           \* policy documents
    BadDocs,        \* those that IAM finds malformed
    Unescape,       \* what url.QueryUnescape makes of a document
    Paths,          \* paths
    DefaultPath     \* the one that IAM supplies

NoInline == [n \in InlineNames |-> None]

Content == [policies : SUBSET PolicyARNs, inline : [InlineNames -> Maybe(Docs)],
            path : Maybe(Paths)]

ASSUME GroupAssumption ==
    /\ ByName
    /\ Specs # {} /\ Specs \subseteq Content
    /\ Quota \in Nat
    /\ \A s \in Specs : IsFiniteSet(s.policies) /\ Cardinality(s.policies) <= Quota
    /\ BadDocs \subseteq Docs
    /\ Unescape \in [Docs -> Maybe(Docs)]
    /\ DefaultPath \in Paths
    /\ None \notin PolicyARNs \cup InlineNames \cup Docs \cup Paths
    /\ None \notin Content

\* The calls with what each is about: those of an update or an emptying, and the last
\* ones of ReadOne.
Calls ==
    ({"AttachGroupPolicy", "DetachGroupPolicy"} \X PolicyARNs)
        \cup ({"PutGroupPolicy", "DeleteGroupPolicy", "GetGroupPolicy"} \X InlineNames)
        \cup ({"UpdateGroup"} \X Maybe(Paths))

Places == {"read", "listPolicies", "listInline", "readInline", "update", "deleteGroup"}

\* There are calls left to make exactly in these places.
TypeOK ==
    /\ CommonTypes(Content, Places, Calls)
    /\ (todo # {}) = (pc \in {"readInline", "update"})

terminalAWSError_InvalidInput(code) ==  \* mutant: as configured for the other kinds
    IF code = "InvalidInput" THEN "Terminal" ELSE "Recoverable"

terminalAWSError(code) ==
    IF code \in {"InvalidInput", "MalformedPolicyDocument"} THEN "Terminal" ELSE "Recoverable"

SyncManagedPolicies(d, l) ==
    {<<"AttachGroupPolicy", p>> : p \in d.policies \ l.policies}
        \cup {<<"DetachGroupPolicy", p>> : p \in l.policies \ d.policies}

\* A name that gets another document is put, not deleted.
SyncInlinePolicies(d, l) ==
    {<<"PutGroupPolicy", n>> : n \in {m \in InlineNames : d.inline[m] \notin {None, l.inline[m]}}}
        \cup {<<"DeleteGroupPolicy", n>> :
                n \in {m \in InlineNames : l.inline[m] # None /\ d.inline[m] = None}}

\* The calls for the differences between the two copies.
Changes(d, l) ==
    SyncManagedPolicies(d, l) \cup SyncInlinePolicies(d, l)
        \cup (IF d.path # l.path THEN {<<"UpdateGroup", d.path>>} ELSE {})

\* sdkDelete first syncs the group with a copy that has no policies.
Emptying(l) ==
    SyncManagedPolicies([l EXCEPT !.policies = {}], l)
        \cup SyncInlinePolicies([l EXCEPT !.inline = NoInline], l)

Order_DetachFirst ==  \* mutant: the two loops of syncManagedPolicies swapped
    <<"DetachGroupPolicy", "AttachGroupPolicy", "PutGroupPolicy", "DeleteGroupPolicy",
      "UpdateGroup">>

\* sdkUpdate makes its calls in this order.
Order == <<"AttachGroupPolicy", "DetachGroupPolicy", "PutGroupPolicy", "DeleteGroupPolicy",
           "UpdateGroup">>

Rank(call) == CHOOSE i \in DOMAIN Order : Order[i] = call[1]

Due(call) == call \in todo /\ \A other \in todo : Rank(call) <= Rank(other)

After_DeleteAtOnce(calls) ==  \* mutant: the group is deleted with calls of its emptying left
    IF op = "delete" THEN "deleteGroup" ELSE IF calls # {} THEN "update" ELSE "lateInit"

After(calls) ==
    IF calls # {} THEN "update" ELSE IF op = "delete" THEN "deleteGroup" ELSE "lateInit"

(***************************************************************************)
(* ReadOne, one call after the other.  Only GetGroup takes NoSuchEntity    *)
(* for a group that is not there.                                          *)
(***************************************************************************)
GetGroup ==
    /\ pc = "read"
    /\ \/ /\ exists
          /\ latest' = object
          /\ Goto("listPolicies")
          /\ UNCHANGED <<object, op, id, desired, todo>>
       \/ ~exists /\ NotFound
       \/ CallFails

ListAttachedGroupPolicies ==
    /\ pc = "listPolicies"
    /\ \/ /\ exists
          /\ latest' = [latest EXCEPT !.policies = object.policies]
          /\ Goto("listInline")
          /\ UNCHANGED <<object, op, id, desired, todo>>
       \/ ~exists /\ Refused(terminalAWSError("NoSuchEntity"))
       \/ CallFails

\* More of the inline policies are to be read, or all has been: l.
Read(l, pending) ==
    /\ latest' = l
    /\ LET calls == IF op = "delete" THEN Emptying(l) ELSE Changes(desired, l)
       IN  IF pending # {}
           THEN todo' = pending /\ Goto("readInline")
           ELSE todo' = calls /\ Goto(After(calls))
    /\ UNCHANGED <<object, op, id, desired>>

ListGroupPolicies ==
    /\ pc = "listInline"
    /\ \/ /\ exists
          /\ Read([latest EXCEPT !.inline = NoInline],
                  {<<"GetGroupPolicy", n>> : n \in {m \in InlineNames : object.inline[m] # None}})
       \/ ~exists /\ Refused(terminalAWSError("NoSuchEntity"))
       \/ CallFails

GetGroupPolicy ==
    \E n \in InlineNames :
        LET call == <<"GetGroupPolicy", n>>
            found == exists /\ object.inline[n] # None
        IN  /\ pc = "readInline" /\ call \in todo
            /\ \/ found /\ Read([latest EXCEPT !.inline[n] = object.inline[n]], todo \ {call})
               \/ ~found /\ Refused(terminalAWSError("NoSuchEntity"))
               \/ CallFails

\* The policies are not part of the call.
CreateGroup ==
    /\ pc = "create"
    /\ \/ /\ object' = [policies |-> {}, inline |-> NoInline,
                        path |-> IF desired.path = None THEN DefaultPath ELSE desired.path]
          /\ op' = "create"
          /\ Goto("lateInit")
          /\ UNCHANGED <<id, desired, latest, todo>>
       \/ CallFails

(***************************************************************************)
(* Update, and the emptying of a group that is to be deleted.              *)
(***************************************************************************)
\* IAM takes the call if the condition holds, with the effect o on the group; if not,
\* the error has this code.
Attempt(call, condition, o, code) ==
    /\ pc = "update" /\ Due(call)
    /\ \/ /\ exists /\ condition
          /\ object' = o
          /\ todo' = todo \ {call}
          /\ Goto(After(todo \ {call}))
          /\ UNCHANGED <<op, id, desired, latest>>
       \/ ~exists /\ Refused(terminalAWSError("NoSuchEntity"))
       \/ exists /\ ~condition /\ Refused(terminalAWSError(code))
       \/ CallFails

AttachGroupPolicy ==
    \E p \in PolicyARNs :
        Attempt(<<"AttachGroupPolicy", p>>, Cardinality(object.policies \cup {p}) <= Quota,
                [object EXCEPT !.policies = @ \cup {p}], "LimitExceeded")

DetachGroupPolicy ==
    \E p \in PolicyARNs :
        Attempt(<<"DetachGroupPolicy", p>>, p \in object.policies,
                [object EXCEPT !.policies = @ \ {p}], "NoSuchEntity")

\* The document is unescaped before it is sent, which may fail; IAM checks the result.
PutGroupPolicy ==
    \E n \in InlineNames :
        LET doc == Unescape[desired.inline[n]]
        IN  Attempt(<<"PutGroupPolicy", n>>, doc \notin BadDocs \cup {None},
                    [object EXCEPT !.inline[n] = doc],
                    IF doc = None THEN "EscapeError" ELSE "MalformedPolicyDocument")

DeleteGroupPolicy ==
    \E n \in InlineNames :
        Attempt(<<"DeleteGroupPolicy", n>>, object.inline[n] # None,
                [object EXCEPT !.inline[n] = None], "NoSuchEntity")

\* A path that is nil is not sent, and stays.
UpdateGroup ==
    \E p \in Maybe(Paths) :
        Attempt(<<"UpdateGroup", p>>, TRUE,
                [object EXCEPT !.path = IF p = None THEN @ ELSE p], "NoSuchEntity")

\* ReadOne once more, for the path; what it finds of the rest is not used.
LateInitialize ==
    /\ pc = "lateInit"
    /\ \/ /\ exists
          /\ latest' = object
          /\ Goto("patch")
          /\ UNCHANGED <<object, op, id, desired, todo>>
       \/ ~exists /\ Refused("Recoverable")
       \/ CallFails

PatchCR_CreatedIsSynced ==  \* mutant: without SetSynced(False) in sdkCreate
    Patch("Synced", IF desired.path # None THEN cr.spec
                    ELSE [cr.spec EXCEPT !.path = latest.path])

\* The patch of the spec holds the late-initialized field, if there is one.  Synced=False
\* after a creation asks for another reconcile, which attaches the policies.
PatchCR ==
    Patch(IF op = "create" THEN "Unsynced" ELSE "Synced",
          IF desired.path # None THEN cr.spec ELSE [cr.spec EXCEPT !.path = latest.path])

Empty(o) == o.policies = {} /\ o.inline = NoInline

\* IAM refuses (DeleteConflict) while there are policies.
DeleteGroup ==
    /\ pc = "deleteGroup"
    /\ \/ exists /\ Empty(object) /\ Answered(None, "unmanage")
       \/ ~(exists /\ Empty(object)) /\ Refused("Recoverable")
       \/ CallFails

\* Somebody else attaches and detaches policies, puts or deletes an inline policy,
\* moves the group or deletes it.
Drift ==
    \/ \E P \in SUBSET PolicyARNs :
          /\ exists /\ Cardinality(P) <= Quota
          /\ Drifts([object EXCEPT !.policies = P])
    \/ \E n \in InlineNames, doc \in Maybe(Docs \ BadDocs) :
          exists /\ Drifts([object EXCEPT !.inline[n] = doc])
    \/ \E p \in Paths : exists /\ Drifts([object EXCEPT !.path = p])
    \/ Drifts(None)

ReadOne == GetGroup \/ ListAttachedGroupPolicies \/ ListGroupPolicies \/ GetGroupPolicy

Update ==
    \/ AttachGroupPolicy \/ DetachGroupPolicy \/ PutGroupPolicy \/ DeleteGroupPolicy
    \/ UpdateGroup

Controller ==
    \/ Reconcile \/ ReadOne \/ MarkManaged \/ CreateGroup \/ Update
    \/ LateInitialize \/ PatchCR \/ DeleteGroup \/ MarkUnmanaged

Next == Controller \/ Environment(Specs) \/ Drift

Spec == Init(Specs) /\ [][Next]_vars

FairSpec == Spec /\ WF_vars(Controller) /\ WF_vars(Resync)

-----------------------------------------------------------------------------
(* Properties.                                                             *)

\* syncManagedPolicies attaches before it detaches: at any moment of an update that
\* nobody disturbs the group has all the old policies or all the new ones.
PoliciesNeverDip ==
    pc = "update" /\ op = "sync" /\ exists /\ ~drift =>
        latest.policies \subseteq object.policies \/ desired.policies \subseteq object.policies

\* The group is what s says, but for the unescaping of its documents.
Matches(s) ==
    /\ exists
    /\ object.policies = s.policies
    /\ \A n \in InlineNames :
           IF s.inline[n] = None THEN object.inline[n] = None
           ELSE object.inline[n] \in {s.inline[n], Unescape[s.inline[n]]}
    /\ s.path \in {None, object.path}

\* As long as nobody else touches the group, a CR leaves the queue only when the group
\* is what it says or its spec was found malformed: a new group, which has no policies
\* yet, is not forgotten, nor is an edit or a call that failed.
NothingForgotten ==
    /\ pc = "idle" /\ ~queued
    /\ cr.here /\ ~cr.deleting
    /\ budget["drift"] = Budget["drift"]
    => Matches(cr.spec) \/ cond = "Terminal"

\* Does every document of s mean itself when it is unescaped?
Literal(s) == \A n \in InlineNames : s.inline[n] # None => Unescape[s.inline[n]] = s.inline[n]

\* Once edits, failures, crashes and changes by others are over, the group is what the
\* spec says, for good, and the CR reports it; a malformed document is reported for
\* what it is.  A CR whose deletion was asked for is gone then.
Converges ==
    <>[](cr.here =>
            /\ ~cr.deleting
            /\ Literal(cr.spec) =>
                  IF \A n \in InlineNames : cr.spec.inline[n] \notin BadDocs
                  THEN /\ exists
                       /\ object.policies = cr.spec.policies
                       /\ object.inline = cr.spec.inline
                       /\ object.path = cr.spec.path
                       /\ cond = "Synced"
                  ELSE cond = "Terminal")
=============================================================================
