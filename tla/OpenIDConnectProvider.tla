------------------------ MODULE OpenIDConnectProvider ------------------------
(***************************************************************************)
(* The resource manager of src/pkg/resource/open_id_connect_provider: a    *)
(* provider has thumbprints, client ids and tags, is found by the ARN on   *)
(* record in the CR's status, and is unique for its URL.                   *)
(*                                                                         *)
(* Abstractions.  A list of thumbprints is one opaque value.  The URL is   *)
(* fixed (it is immutable), and nobody else creates a provider for it; the *)
(* ARN is made of the URL, so that "id" only says whether it is on record. *)
(***************************************************************************)
EXTENDS Reconciler

CONSTANTS
    Specs,          \* the specs a user may submit
    Thumbprints,    \* lists of thumbprints
    Retrieved,      \* the one that IAM comes up with when none is given
    Clients,        \* client ids
    BadClients,     \* those that IAM finds invalid
    TagKeys,        \* tag keys
    SystemKeys,     \* those with the prefix "aws:"
    TagValues       \* tag values

Content == [thumbprints : Maybe(Thumbprints), clients : SUBSET Clients,
            tags : [TagKeys -> Maybe(TagValues)]]

ASSUME OpenIDConnectProviderAssumption ==
    /\ Specs # {} /\ Specs \subseteq Content
    /\ Retrieved \in Thumbprints
    /\ BadClients \subseteq Clients
    /\ SystemKeys \subseteq TagKeys
    /\ \A s \in Specs, k \in SystemKeys : s.tags[k] = None
    /\ None \notin Thumbprints \cup Clients \cup TagValues
    /\ None \notin Content
    /\ ~ByName

\* The calls of an update, with what each is about.
CallsOfUpdate ==
    ({"UpdateThumbprint"} \X Maybe(Thumbprints))
        \cup ({"AddClientID", "RemoveClientID"} \X Clients)
        \cup ({"ListTags"} \X {None})
        \cup ({"Tag", "Untag"} \X SUBSET TagKeys)

Places == {"read", "readTags", "update", "delete"}

\* There are calls left to make exactly while an update is under way.
TypeOK ==
    /\ CommonTypes(Content, Places, CallsOfUpdate)
    /\ (todo # {}) = (pc = "update")

\* The error codes of the generator's configuration are terminal, others are retried.
terminalAWSError_InvalidInput(code) ==  \* mutant: as configured for the other kinds
    IF code = "InvalidInput" THEN "Terminal" ELSE "Recoverable"

terminalAWSError(code) ==
    IF code \in {"InvalidInput", "EntityAlreadyExists"} THEN "Terminal" ELSE "Recoverable"

When(call, condition) == IF condition THEN {call} ELSE {}

\* The calls for the differences between the two copies.  Tags are not added or
\* removed by what has been read: syncTags lists them once more.
Changes(d, l) ==
    When(<<"UpdateThumbprint", d.thumbprints>>, d.thumbprints # l.thumbprints)
        \cup {<<"AddClientID", c>> : c \in d.clients \ l.clients}
        \cup {<<"RemoveClientID", c>> : c \in l.clients \ d.clients}
        \cup When(<<"ListTags", None>>, d.tags # l.tags)

(* Tags are compared as (key, value) pairs, and removed by their keys. *)
ToAdd(d, tags) == {k \in TagKeys : d.tags[k] \notin {None, tags[k]}}

ToRemove(d, tags) == {k \in TagKeys : tags[k] \notin {None, d.tags[k]}}

Order_RemoveFirst ==  \* mutant: client ids are removed before others are added
    <<"UpdateThumbprint", "RemoveClientID", "AddClientID", "ListTags", "Tag", "Untag">>

\* customUpdateOpenIDConnectProvider makes its calls in this order; those of one loop
\* over a map in any order.
Order == <<"UpdateThumbprint", "AddClientID", "RemoveClientID", "ListTags", "Tag", "Untag">>

Rank(call) == CHOOSE i \in DOMAIN Order : Order[i] = call[1]

Due(call) == call \in todo /\ \A other \in todo : Rank(call) <= Rank(other)

After(calls) ==
    IF calls # {} THEN "update" ELSE IF op = "delete" THEN "delete" ELSE "lateInit"

\* Tags of AWS services found on the provider join the desired ones.
MirrorAWSTags(d, l) ==
    [d EXCEPT !.tags = [k \in TagKeys |->
        IF k \in SystemKeys /\ l.tags[k] # None THEN l.tags[k] ELSE d.tags[k]]]

\* Without an ARN on record there is nothing to ask for.
GetOpenIDConnectProvider ==
    /\ pc = "read"
    /\ \/ ~id /\ NotFound
       \/ /\ id /\ exists
          /\ latest' = object
          /\ Goto("readTags")
          /\ UNCHANGED <<object, op, id, desired, todo>>
       \/ id /\ ~exists /\ NotFound
       \/ id /\ CallFails

\* ReadOne then lists the tags.  An error here is an error of ReadOne.
ListTags ==
    /\ pc = "readTags"
    /\ \/ /\ exists
          /\ LET l == [latest EXCEPT !.tags = object.tags]
                 goal == IF op = "delete" THEN desired ELSE MirrorAWSTags(desired, l)
                 calls == IF op = "delete" THEN {} ELSE Changes(goal, l)
             IN  latest' = l /\ desired' = goal /\ todo' = calls /\ Goto(After(calls))
          /\ UNCHANGED <<object, op, id>>
       \/ ~exists /\ Refused("Recoverable")
       \/ CallFails

CreateOpenIDConnectProvider ==
    /\ pc = "create"
    /\ \/ /\ ~exists /\ desired.clients \cap BadClients = {}
          /\ object' = [desired EXCEPT !.thumbprints = IF @ = None THEN Retrieved ELSE @]
          /\ op' = "create" /\ id' = TRUE
          /\ Goto("lateInit")
          /\ UNCHANGED <<desired, latest, todo>>
       \/ exists /\ Refused(terminalAWSError("EntityAlreadyExists"))
       \/ desired.clients \cap BadClients # {} /\ Refused(terminalAWSError("InvalidInput"))
       \/ CallFails

Done_ReturnsEarly(o, calls) ==  \* mutant: a return from inside of a loop
    /\ object' = o
    /\ todo' = calls
    /\ Goto("lateInit")
    /\ UNCHANGED <<op, id, desired, latest>>

\* A call of the update is answered: the provider is o, and these calls are left.
Done(o, calls) ==
    /\ object' = o
    /\ todo' = calls
    /\ Goto(After(calls))
    /\ UNCHANGED <<op, id, desired, latest>>

\* A call of the update that IAM takes if the condition holds, with the effect on o.
Attempt(call, condition, o, code) ==
    /\ pc = "update" /\ Due(call)
    /\ \/ exists /\ condition /\ Done(o, todo \ {call})
       \/ ~(exists /\ condition) /\ Refused(terminalAWSError(code))
       \/ CallFails

\* The list is required: the SDK does not send a request without one.
UpdateThumbprint ==
    \E t \in Maybe(Thumbprints) :
        Attempt(<<"UpdateThumbprint", t>>, t # None,
                [object EXCEPT !.thumbprints = t], "ParamRequired")

\* Adding a client id that is there, and removing one that is not, is no error.
AddClientID ==
    \E c \in Clients :
        Attempt(<<"AddClientID", c>>, c \notin BadClients,
                [object EXCEPT !.clients = @ \cup {c}],
                IF exists THEN "InvalidInput" ELSE "NoSuchEntity")

RemoveClientID ==
    \E c \in Clients :
        Attempt(<<"RemoveClientID", c>>, TRUE,
                [object EXCEPT !.clients = @ \ {c}], "NoSuchEntity")

\* syncTags has the tags listed, and compares them with the desired ones.
ListTagsAgain ==
    /\ pc = "update" /\ Due(<<"ListTags", None>>)
    /\ \/ /\ exists
          /\ LET add == ToAdd(desired, object.tags)
                 remove == ToRemove(desired, object.tags)
             IN  Done(object, (todo \ {<<"ListTags", None>>})
                                \cup When(<<"Tag", add>>, add # {})
                                \cup When(<<"Untag", remove>>, remove # {}))
       \/ ~exists /\ Refused("Recoverable")
       \/ CallFails

AddTags ==
    \E add \in SUBSET TagKeys :
        Attempt(<<"Tag", add>>, TRUE,
                [object EXCEPT !.tags = [k \in TagKeys |-> IF k \in add THEN desired.tags[k]
                                                           ELSE object.tags[k]]], "NoSuchEntity")

\* AWS does not let go of its own tags; with which error is left open.
RemoveTags ==
    \E remove \in SUBSET TagKeys, code \in {"InvalidInput", "AccessDenied"} :
        Attempt(<<"Untag", remove>>, remove \cap SystemKeys = {},
                [object EXCEPT !.tags = [k \in TagKeys |-> IF k \in remove THEN None
                                                           ELSE object.tags[k]]], code)

\* ReadOne once more, for the thumbprints; what it finds of the rest is not used.
LateInitialize ==
    /\ pc = "lateInit"
    /\ \/ /\ exists
          /\ latest' = object
          /\ Goto("patch")
          /\ UNCHANGED <<object, op, id, desired, todo>>
       \/ ~exists /\ Refused("Recoverable")
       \/ CallFails

\* The patch of the spec holds the late-initialized field, if there is one.
PatchCR ==
    Patch("Synced", IF desired.thumbprints # None THEN cr.spec
                    ELSE [cr.spec EXCEPT !.thumbprints = latest.thumbprints])

\* Deleting a provider that is gone is no error.
DeleteOpenIDConnectProvider ==
    /\ pc = "delete"
    /\ Answered(None, "unmanage") \/ CallFails

\* Somebody else changes the provider, an AWS service tags it, or it is deleted.
Drift ==
    \/ \E t \in Thumbprints : exists /\ Drifts([object EXCEPT !.thumbprints = t])
    \/ \E c \in SUBSET (Clients \ BadClients) : exists /\ Drifts([object EXCEPT !.clients = c])
    \/ \E k \in SystemKeys, v \in TagValues : exists /\ Drifts([object EXCEPT !.tags[k] = v])
    \/ Drifts(None)

Update ==
    \/ UpdateThumbprint \/ AddClientID \/ RemoveClientID
    \/ ListTagsAgain \/ AddTags \/ RemoveTags

Controller ==
    \/ Reconcile \/ GetOpenIDConnectProvider \/ ListTags \/ MarkManaged
    \/ CreateOpenIDConnectProvider \/ Update \/ LateInitialize \/ PatchCR
    \/ DeleteOpenIDConnectProvider \/ MarkUnmanaged

Next == Controller \/ Environment(Specs) \/ Drift

Spec == Init(Specs) /\ [][Next]_vars

FairSpec == Spec /\ WF_vars(Controller) /\ WF_vars(Resync)

-----------------------------------------------------------------------------
(* Properties.                                                             *)

\* A client id that both specs allow stays allowed: customUpdateOpenIDConnectProvider
\* adds what is new before it removes what is old, so that the provider has all the
\* old client ids or all the new ones at any moment.
ClientsNeverDip ==
    pc = "update" /\ exists /\ ~drift =>
        latest.clients \subseteq object.clients \/ desired.clients \subseteq object.clients

\* Once edits, failures and changes by others are over, the provider is what the spec
\* says, for good, and the CR reports it; a spec that is refused, and an ARN that is
\* lost, are reported.  Specs without thumbprints: see ThumbprintsInitialized.  A CR whose
\* deletion was asked for is gone then.
Converges ==
    <>[](cr.here =>
            /\ ~cr.deleting
            /\ cr.spec.thumbprints # None =>
                  IF cr.spec.clients \cap BadClients # {} \/ (exists /\ ~cr.id)
                  THEN cond = "Terminal"
                  ELSE /\ exists
                       /\ object.thumbprints = cr.spec.thumbprints
                       /\ object.clients = cr.spec.clients
                       /\ \A k \in TagKeys \ SystemKeys : object.tags[k] = cr.spec.tags[k]
                       /\ cond = "Synced")

\* LateInitialize's promise ("will initialize the optional fields which were not
\* provided by the k8s user but were defaulted by the AWS service"): thumbprints that
\* the user does not give are those of the provider in the end.
ThumbprintsInitialized ==
    <>[](cr.here /\ ~cr.deleting => cr.spec.thumbprints # None)
=============================================================================
