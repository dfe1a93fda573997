--------------------------- MODULE FoundByIdProofs ---------------------------
(***************************************************************************)
(* Proofs about the kinds whose object is found by what AWS has answered   *)
(* to its creation, if that is on record: OpenIDConnectProvider and        *)
(* ServiceLinkedRole, for all specs and budgets and whatever they are      *)
(* made of.                                                                *)
(*                                                                         *)
(* Of a provider: its types, that an update leaves all the old client ids  *)
(* or all the new ones, and that its life is one that Lifecycle allows.    *)
(* Of a role: its types, and that one which can be found loses its CR only *)
(* once AWS was asked to delete it.                                        *)
(***************************************************************************)
EXTENDS OpenIDConnectProvider, ServiceLinkedRole, ReconcilerProofs

-----------------------------------------------------------------------------
(* OpenIDConnectProvider.                                                  *)

SoundProvider == Sound(Content, Places, CallsOfUpdate)

Shape ==
    /\ SoundProvider
    /\ (todo # {}) = (pc = "update")
    /\ pc \in {"readTags", "update", "patch"} => latest \in Content

\* Old client ids go when all the new ones are there.
ClientsProgress ==
    /\ \A c \in latest.clients :
           c \in object.clients \/ \A d \in Clients : <<"AddClientID", d>> \notin todo
    /\ \A c \in desired.clients : c \in object.clients \/ <<"AddClientID", c>> \in todo
    /\ \A c \in Clients : <<"RemoveClientID", c>> \in todo => c \notin desired.clients

\* What has been read is what is there, and an update leads from it to the spec.
Progress ==
    ~drift =>
        /\ pc = "readTags" => exists /\ latest.clients = object.clients
        /\ pc = "update" => exists /\ ClientsProgress

Inv == Shape /\ Progress

LEMMA ContentTypes ==
  ASSUME NEW o \in Content
  PROVE  /\ o.thumbprints \in Maybe(Thumbprints) /\ o.clients \subseteq Clients
         /\ o.tags \in [TagKeys -> Maybe(TagValues)] /\ o # None
  BY OpenIDConnectProviderAssumption DEF Content

LEMMA MirrorTypes ==
  ASSUME NEW d \in Content, NEW l \in Content
  PROVE  MirrorAWSTags(d, l) \in Content /\ MirrorAWSTags(d, l).clients = d.clients
<1> DEFINE tags == [k \in TagKeys |->
                        IF k \in SystemKeys /\ l.tags[k] # None THEN l.tags[k] ELSE d.tags[k]]
<1>1. tags \in [TagKeys -> Maybe(TagValues)]
  BY ContentTypes
<1>2. MirrorAWSTags(d, l) = [d EXCEPT !.tags = tags]
  BY DEF MirrorAWSTags
<1> HIDE DEF tags
<1> QED
  BY <1>1, <1>2 DEF Content

\* The calls of an update are well formed, and of those about client ids there are just
\* the ones for the differences.
LEMMA ChangesAre ==
  ASSUME NEW d \in Content, NEW l \in Content
  PROVE  /\ Changes(d, l) \subseteq CallsOfUpdate
         /\ \A c \in Clients :
               /\ <<"AddClientID", c>> \in Changes(d, l) <=> c \in d.clients \ l.clients
               /\ <<"RemoveClientID", c>> \in Changes(d, l) <=> c \in l.clients \ d.clients
<1>1. d.clients \subseteq Clients /\ l.clients \subseteq Clients
      /\ d.thumbprints \in Maybe(Thumbprints)
  BY ContentTypes
<1>2. Changes(d, l) \subseteq CallsOfUpdate
  BY <1>1 DEF Changes, When, CallsOfUpdate
<1>3. ASSUME NEW c \in Clients
      PROVE  /\ <<"AddClientID", c>> \in Changes(d, l) <=> c \in d.clients \ l.clients
             /\ <<"RemoveClientID", c>> \in Changes(d, l) <=> c \in l.clients \ d.clients
  BY <1>1, <1>3 DEF Changes, When
<1> QED
  BY <1>2, <1>3

\* No client id is removed while another is to be added.
LEMMA AddFirst ==
  ASSUME NEW c \in Clients, Due(<<"RemoveClientID", c>>), NEW d \in Clients
  PROVE  <<"AddClientID", d>> \notin todo
<1>1. /\ DOMAIN Order = 1..6 /\ Order[1] = "UpdateThumbprint" /\ Order[2] = "AddClientID"
      /\ Order[3] = "RemoveClientID" /\ Order[4] = "ListTags" /\ Order[5] = "Tag"
      /\ Order[6] = "Untag"
  BY DEF Order
<1>2. \A i \in DOMAIN Order : /\ Order[i] = "AddClientID" <=> i = 2
                              /\ Order[i] = "RemoveClientID" <=> i = 3
  BY <1>1
<1>3. 2 \in DOMAIN Order /\ 3 \in DOMAIN Order
  BY <1>1
<1>4. (CHOOSE i \in DOMAIN Order : Order[i] = "AddClientID") = 2
  BY <1>2, <1>3
<1>5. (CHOOSE i \in DOMAIN Order : Order[i] = "RemoveClientID") = 3
  BY <1>2, <1>3
<1>6. Rank(<<"AddClientID", d>>) = 2 /\ Rank(<<"RemoveClientID", c>>) = 3
  BY <1>4, <1>5 DEF Rank
<1> QED
  BY <1>6 DEF Due

-----------------------------------------------------------------------------
\* A reconcile that is over leaves nothing behind.
LEMMA EndInv ==
  ASSUME SoundProvider', pc' = "idle", todo' = {}
  PROVE  Inv'
  BY DEF Inv, Shape, Progress

LEMMA RefusedInv ==
  ASSUME Inv, (\E o \in Outcomes : Refused(o)) \/ CallFails
  PROVE  Inv'
  BY RefusedSound, EndInv DEF Inv, Shape, SoundProvider

LEMMA CodeOutcome ==
  /\ \A code : terminalAWSError(code) \in Outcomes
  /\ {"Recoverable", "Synced"} \subseteq Outcomes
  BY DEF terminalAWSError, Outcomes

\* A step to a place where nothing is promised.
LEMMA GoesOnInv ==
  ASSUME SoundProvider', pc' \notin {"readTags", "update"}, todo' = {},
         pc' = "patch" => latest' \in Content
  PROVE  Inv'
  BY DEF Inv, Shape, Progress

LEMMA GetInv ==
  ASSUME Inv, GetOpenIDConnectProvider
  PROVE  Inv'
<1>1. /\ SoundProvider /\ pc = "read" /\ todo = {} /\ object \in Content \cup {None}
      /\ desired \in Content /\ op \in {"sync", "create", "delete"} /\ id \in BOOLEAN
  BY DEF Inv, Shape, SoundProvider, Sound, CommonTypes, GetOpenIDConnectProvider
<1>2. ASSUME exists, latest' = object, Goto("readTags"), UNCHANGED <<object, op, id, desired, todo>>
      PROVE  Inv'
  <2>1. object \in Content /\ "readTags" \in Places
    BY <1>1, <1>2 DEF exists, Places
  <2>2. SoundProvider'
    BY <1>1, <1>2, <2>1, GotoSound DEF SoundProvider
  <2>3. pc' = "readTags" /\ todo' = {} /\ latest' = object /\ object' = object
    BY <1>1, <1>2 DEF Goto
  <2> QED
    BY <1>2, <2>1, <2>2, <2>3 DEF Inv, Shape, Progress, exists
<1>3. CASE NotFound
  <2>1. SoundProvider' /\ pc' \in {"manage", "unmanage"} /\ UNCHANGED copies
    BY <1>1, <1>3, NotFoundSound DEF SoundProvider
  <2> QED
    BY <1>1, <2>1, GoesOnInv DEF copies
<1> QED
  BY <1>2, <1>3, RefusedInv DEF GetOpenIDConnectProvider

LEMMA ListTagsInv ==
  ASSUME Inv, ListTags
  PROVE  Inv'
<1>1. /\ SoundProvider /\ pc = "readTags" /\ todo = {} /\ object \in Content \cup {None}
      /\ latest \in Content /\ desired \in Content /\ op \in {"sync", "create", "delete"}
      /\ id \in BOOLEAN
  BY DEF Inv, Shape, SoundProvider, Sound, CommonTypes, ListTags
<1> DEFINE l == [latest EXCEPT !.tags = object.tags]
           goal == IF op = "delete" THEN desired ELSE MirrorAWSTags(desired, l)
           calls == IF op = "delete" THEN {} ELSE Changes(goal, l)
<1>2. ASSUME exists, latest' = l, desired' = goal, todo' = calls, Goto(After(calls)),
             UNCHANGED <<object, op, id>>
      PROVE  Inv'
  <2>1. object \in Content
    BY <1>1, <1>2 DEF exists
  <2>2. l \in Content /\ l.clients = latest.clients
    BY <1>1, <2>1, ContentTypes DEF Content
  <2> HIDE DEF l
  <2>3. goal \in Content
    BY <1>1, <2>2, MirrorTypes
  <2> HIDE DEF goal
  <2>4. calls \subseteq CallsOfUpdate
    BY <2>2, <2>3, ChangesAre
  <2>5. /\ After(calls) \in {"update", "delete", "lateInit"}
        /\ After(calls) \in Places \cup SharedPlaces
        /\ (calls # {}) = (After(calls) = "update")
    BY DEF After, Places, SharedPlaces
  <2>6. calls # {} => calls = Changes(goal, l)
    OBVIOUS
  <2> HIDE DEF calls
  <2>7. SoundProvider'
    BY <1>1, <1>2, <2>2, <2>3, <2>4, <2>5, GotoSound DEF SoundProvider
  <2>8. pc' = After(calls) /\ drift' = drift /\ object' = object
    BY <1>2 DEF Goto
  <2>9. Shape'
    BY <1>2, <2>2, <2>5, <2>7, <2>8 DEF Shape
  <2>10. ASSUME ~drift, calls # {}
         PROVE  ClientsProgress'
    <3>1. object.clients = l.clients
      BY <1>1, <2>2, <2>10 DEF Inv, Progress
    <3>2. \A c \in Clients :
              /\ <<"AddClientID", c>> \in calls <=> c \in goal.clients \ l.clients
              /\ <<"RemoveClientID", c>> \in calls <=> c \in l.clients \ goal.clients
      <4>1. calls = Changes(goal, l)
        BY <2>6, <2>10
      <4> QED
        BY <2>2, <2>3, <4>1, ChangesAre
    <3>3. goal.clients \subseteq Clients
      BY <2>3, ContentTypes
    <3>4. /\ object'.clients = l.clients /\ latest'.clients = l.clients
          /\ desired'.clients = goal.clients /\ todo' = calls
      BY <1>2, <2>8, <3>1
    <3> QED
      BY <3>2, <3>3, <3>4 DEF ClientsProgress
  <2> QED
    BY <1>2, <2>5, <2>8, <2>9, <2>10 DEF Inv, Progress, exists
<1> QED
  BY <1>2, RefusedInv, CodeOutcome DEF ListTags

-----------------------------------------------------------------------------
\* What the provider and its copies hold during an update.
LEMMA UpdateTypes ==
  ASSUME Inv, pc = "update", exists
  PROVE  /\ object \in Content /\ desired \in Content /\ latest \in Content
         /\ todo \subseteq CallsOfUpdate
         /\ ~drift => ClientsProgress
  BY DEF Inv, Shape, Progress, SoundProvider, Sound, CommonTypes, exists

\* A call of the update is answered.
LEMMA DoneInv ==
  ASSUME Inv, pc = "update", exists, NEW o \in Content, NEW calls \in SUBSET CallsOfUpdate,
         Done(o, calls), ~drift => ClientsProgress'
  PROVE  Inv'
<1>1. /\ SoundProvider /\ desired \in Content /\ latest \in Content
      /\ op \in {"sync", "create", "delete"} /\ id \in BOOLEAN
  BY UpdateTypes DEF Inv, Shape, SoundProvider, Sound, CommonTypes
<1>2. /\ object' = o /\ todo' = calls /\ Goto(After(calls)) /\ op' = op /\ id' = id
      /\ desired' = desired /\ latest' = latest
  BY DEF Done
<1>3. /\ After(calls) \in {"update", "delete", "lateInit"}
      /\ After(calls) \in Places \cup SharedPlaces
      /\ (calls # {}) = (After(calls) = "update")
  BY DEF After, Places, SharedPlaces
<1>4. SoundProvider'
  BY <1>1, <1>2, <1>3, GotoSound DEF SoundProvider
<1>5. pc' = After(calls) /\ drift' = drift /\ exists'
  BY <1>2, ContentTypes DEF Goto, exists
<1> QED
  BY <1>1, <1>2, <1>3, <1>4, <1>5 DEF Inv, Shape, Progress

\* It leaves the client ids, and the calls about them, as they are.
LEMMA OtherDone ==
  ASSUME Inv, pc = "update", exists, NEW o \in Content, NEW calls \in SUBSET CallsOfUpdate,
         Done(o, calls), o.clients = object.clients,
         \A c \in Clients :
             /\ <<"AddClientID", c>> \in calls <=> <<"AddClientID", c>> \in todo
             /\ <<"RemoveClientID", c>> \in calls <=> <<"RemoveClientID", c>> \in todo
  PROVE  Inv'
<1>1. object' = o /\ todo' = calls /\ desired' = desired /\ latest' = latest
  BY DEF Done
<1>2. desired.clients \subseteq Clients
  BY UpdateTypes, ContentTypes
<1>3. ~drift => ClientsProgress'
  BY <1>1, <1>2, UpdateTypes DEF ClientsProgress
<1> QED
  BY <1>3, DoneInv

LEMMA AttemptInv ==
  ASSUME Inv, NEW call, NEW condition, NEW o, NEW code, Attempt(call, condition, o, code),
         /\ pc = "update" /\ exists /\ condition /\ Due(call) /\ Done(o, todo \ {call})
         /\ todo \ {call} \in SUBSET CallsOfUpdate
         => Inv'
  PROVE  Inv'
<1>1. exists => todo \ {call} \in SUBSET CallsOfUpdate
  BY UpdateTypes DEF Attempt
<1> QED
  BY <1>1, RefusedInv, CodeOutcome DEF Attempt

LEMMA UpdateThumbprintInv ==
  ASSUME Inv, UpdateThumbprint
  PROVE  Inv'
<1>1. PICK t \in Maybe(Thumbprints) :
          Attempt(<<"UpdateThumbprint", t>>, t # None,
                  [object EXCEPT !.thumbprints = t], "ParamRequired")
  BY DEF UpdateThumbprint
<1> DEFINE call == <<"UpdateThumbprint", t>>
           o == [object EXCEPT !.thumbprints = t]
<1>2. ASSUME pc = "update", exists
      PROVE  o \in Content /\ o.clients = object.clients
  BY <1>2, UpdateTypes DEF Content
<1>3. \A c : call # <<"AddClientID", c>> /\ call # <<"RemoveClientID", c>>
  OBVIOUS
<1>4. Attempt(call, t # None, o, "ParamRequired")
  BY <1>1
<1> HIDE DEF call, o
<1> QED
  BY <1>2, <1>3, <1>4, OtherDone, AttemptInv

LEMMA AddClientInv ==
  ASSUME Inv, AddClientID
  PROVE  Inv'
<1>1. PICK c \in Clients :
          Attempt(<<"AddClientID", c>>, c \notin BadClients,
                  [object EXCEPT !.clients = @ \cup {c}],
                  IF exists THEN "InvalidInput" ELSE "NoSuchEntity")
  BY DEF AddClientID
<1> DEFINE call == <<"AddClientID", c>>
           o == [object EXCEPT !.clients = object.clients \cup {c}]
<1>2. ASSUME pc = "update", exists
      PROVE  o \in Content /\ o.clients = object.clients \cup {c}
  BY <1>2, UpdateTypes DEF Content
<1>3. ASSUME pc = "update", exists, Done(o, todo \ {call}), ~drift
      PROVE  ClientsProgress'
  <2>1. /\ object'.clients = object.clients \cup {c} /\ todo' = todo \ {<<"AddClientID", c>>}
        /\ desired' = desired /\ latest' = latest
    BY <1>2, <1>3 DEF Done
  <2> QED
    BY <1>3, <2>1, UpdateTypes DEF ClientsProgress
<1>4. \E code : Attempt(call, c \notin BadClients, o, code)
  BY <1>1
<1> HIDE DEF call, o
<1> QED
  BY <1>2, <1>3, <1>4, DoneInv, AttemptInv

LEMMA RemoveClientInv ==
  ASSUME Inv, RemoveClientID
  PROVE  Inv'
<1>1. PICK c \in Clients :
          Attempt(<<"RemoveClientID", c>>, TRUE,
                  [object EXCEPT !.clients = @ \ {c}], "NoSuchEntity")
  BY DEF RemoveClientID
<1> DEFINE call == <<"RemoveClientID", c>>
           o == [object EXCEPT !.clients = object.clients \ {c}]
<1>2. ASSUME pc = "update", exists
      PROVE  o \in Content /\ o.clients = object.clients \ {c}
  BY <1>2, UpdateTypes DEF Content
<1>3. ASSUME pc = "update", exists, Due(call), Done(o, todo \ {call}), ~drift
      PROVE  ClientsProgress'
  <2>1. /\ object'.clients = object.clients \ {c} /\ todo' = todo \ {<<"RemoveClientID", c>>}
        /\ desired' = desired /\ latest' = latest
    BY <1>2, <1>3 DEF Done
  <2>2. /\ \A d \in Clients : <<"AddClientID", d>> \notin todo
        /\ <<"RemoveClientID", c>> \in todo
    BY <1>3, AddFirst DEF Due
  <2> QED
    BY <1>3, <2>1, <2>2, UpdateTypes DEF ClientsProgress
<1>4. Attempt(call, TRUE, o, "NoSuchEntity")
  BY <1>1
<1> HIDE DEF call, o
<1> QED
  BY <1>2, <1>3, <1>4, DoneInv, AttemptInv

LEMMA ListTagsAgainInv ==
  ASSUME Inv, ListTagsAgain
  PROVE  Inv'
<1> DEFINE add == ToAdd(desired, object.tags)
           remove == ToRemove(desired, object.tags)
           calls == (todo \ {<<"ListTags", None>>})
                        \cup When(<<"Tag", add>>, add # {})
                        \cup When(<<"Untag", remove>>, remove # {})
<1>1. pc = "update"
  BY DEF ListTagsAgain
<1>2. add \subseteq TagKeys /\ remove \subseteq TagKeys
  BY DEF ToAdd, ToRemove
<1>3. ASSUME exists, Done(object, calls)
      PROVE  Inv'
  <2>1. calls \in SUBSET CallsOfUpdate
    BY <1>1, <1>2, <1>3, UpdateTypes DEF When, CallsOfUpdate
  <2>2. \A c \in Clients :
            /\ <<"AddClientID", c>> \in calls <=> <<"AddClientID", c>> \in todo
            /\ <<"RemoveClientID", c>> \in calls <=> <<"RemoveClientID", c>> \in todo
    BY DEF When
  <2> HIDE DEF calls
  <2> QED
    BY <1>1, <1>3, <2>1, <2>2, UpdateTypes, OtherDone
<1> QED
  BY <1>3, RefusedInv, CodeOutcome DEF ListTagsAgain

LEMMA TagInv ==
  ASSUME Inv, AddTags \/ RemoveTags
  PROVE  Inv'
<1>1. ASSUME NEW name \in {"Tag", "Untag"}, NEW keys, NEW condition, NEW tags, NEW code,
             Attempt(<<name, keys>>, condition, [object EXCEPT !.tags = tags], code),
             pc = "update" /\ exists => tags \in [TagKeys -> Maybe(TagValues)]
      PROVE  Inv'
  <2> DEFINE call == <<name, keys>>
             o == [object EXCEPT !.tags = tags]
  <2>1. ASSUME pc = "update", exists
        PROVE  o \in Content /\ o.clients = object.clients
    BY <1>1, <2>1, UpdateTypes DEF Content
  <2>2. \A c : call # <<"AddClientID", c>> /\ call # <<"RemoveClientID", c>>
    OBVIOUS
  <2>3. Attempt(call, condition, o, code)
    BY <1>1
  <2> HIDE DEF call, o
  <2> QED
    BY <2>1, <2>2, <2>3, OtherDone, AttemptInv
<1>2. CASE AddTags
  <2>1. PICK add \in SUBSET TagKeys :
            Attempt(<<"Tag", add>>, TRUE,
                    [object EXCEPT !.tags = [k \in TagKeys |-> IF k \in add THEN desired.tags[k]
                                                               ELSE object.tags[k]]],
                    "NoSuchEntity")
    BY <1>2 DEF AddTags
  <2>2. pc = "update" /\ exists =>
            [k \in TagKeys |-> IF k \in add THEN desired.tags[k] ELSE object.tags[k]]
                \in [TagKeys -> Maybe(TagValues)]
    BY UpdateTypes, ContentTypes
  <2> QED
    BY <1>1, <2>1, <2>2
<1>3. CASE RemoveTags
  <2>1. PICK remove \in SUBSET TagKeys, code \in {"InvalidInput", "AccessDenied"} :
            Attempt(<<"Untag", remove>>, remove \cap SystemKeys = {},
                    [object EXCEPT !.tags = [k \in TagKeys |-> IF k \in remove THEN None
                                                               ELSE object.tags[k]]], code)
    BY <1>3 DEF RemoveTags
  <2>2. pc = "update" /\ exists =>
            [k \in TagKeys |-> IF k \in remove THEN None ELSE object.tags[k]]
                \in [TagKeys -> Maybe(TagValues)]
    BY UpdateTypes, ContentTypes DEF Maybe
  <2> QED
    BY <1>1, <2>1, <2>2
<1> QED
  BY <1>2, <1>3

-----------------------------------------------------------------------------
LEMMA CreateInv ==
  ASSUME Inv, CreateOpenIDConnectProvider
  PROVE  Inv'
<1>1. /\ SoundProvider /\ pc = "create" /\ todo = {} /\ desired \in Content
      /\ latest \in Content \cup {None}
  BY DEF Inv, Shape, SoundProvider, Sound, CommonTypes, CreateOpenIDConnectProvider
<1>2. ASSUME object' = [desired EXCEPT !.thumbprints = IF @ = None THEN Retrieved ELSE @],
             op' = "create", id' = TRUE, Goto("lateInit"), UNCHANGED <<desired, latest, todo>>
      PROVE  Inv'
  <2>1. object' \in Content
    BY <1>1, <1>2, OpenIDConnectProviderAssumption DEF Content, Maybe
  <2>2. SoundProvider' /\ pc' = "lateInit"
    BY <1>1, <1>2, <2>1, GotoSound DEF SoundProvider, SharedPlaces, Goto
  <2> QED
    BY <1>1, <1>2, <2>2, GoesOnInv
<1> QED
  BY <1>2, RefusedInv, CodeOutcome DEF CreateOpenIDConnectProvider

LEMMA LateInitializeInv ==
  ASSUME Inv, LateInitialize
  PROVE  Inv'
<1>1. /\ SoundProvider /\ pc = "lateInit" /\ todo = {} /\ object \in Content \cup {None}
      /\ desired \in Content /\ op \in {"sync", "create", "delete"} /\ id \in BOOLEAN
  BY DEF Inv, Shape, SoundProvider, Sound, CommonTypes, LateInitialize
<1>2. ASSUME exists, latest' = object, Goto("patch"), UNCHANGED <<object, op, id, desired, todo>>
      PROVE  Inv'
  <2>1. object \in Content
    BY <1>1, <1>2 DEF exists
  <2>2. SoundProvider' /\ pc' = "patch"
    BY <1>1, <1>2, <2>1, GotoSound DEF SoundProvider, SharedPlaces, Goto
  <2> QED
    BY <1>1, <1>2, <2>1, <2>2, GoesOnInv
<1> QED
  BY <1>2, RefusedInv, CodeOutcome DEF LateInitialize

\* The spec that is patched has the late-initialized thumbprints.
LEMMA PatchTypes ==
  ASSUME Inv, PatchCR
  PROVE  \E s \in Content : Patch("Synced", s)
<1>1. latest \in Content /\ cr.spec \in Content
  BY DEF Inv, Shape, SoundProvider, Sound, CommonTypes, PatchCR, Patch
<1>2. [cr.spec EXCEPT !.thumbprints = latest.thumbprints] \in Content
  BY <1>1 DEF Content
<1> QED
  BY <1>1, <1>2 DEF PatchCR

LEMMA EndsInv ==
  ASSUME Inv, PatchCR \/ Crash \/ MarkUnmanaged
  PROVE  Inv'
<1>1. SoundProvider
  BY DEF Inv, Shape
<1>2. SoundProvider' /\ pc' = "idle" /\ todo' = {}
  BY <1>1, PatchTypes, CodeOutcome, PatchSound, CrashSound, MarkUnmanagedSound DEF SoundProvider
<1> QED
  BY <1>2, EndInv

LEMMA DeleteInv ==
  ASSUME Inv, DeleteOpenIDConnectProvider
  PROVE  Inv'
<1>1. SoundProvider /\ pc = "delete" /\ todo = {}
  BY DEF Inv, Shape, DeleteOpenIDConnectProvider
<1>2. CASE Answered(None, "unmanage")
  <2>1. SoundProvider' /\ UNCHANGED copies /\ pc' = "unmanage"
    BY <1>1, <1>2, AnsweredSound DEF SoundProvider, SharedPlaces
  <2> QED
    BY <1>1, <2>1, GoesOnInv DEF copies
<1> QED
  BY <1>2, RefusedInv DEF DeleteOpenIDConnectProvider

LEMMA AroundInv ==
  ASSUME Inv, Reconcile \/ Resync \/ MarkManaged \/ EditSpec(Specs) \/ DeleteCR
  PROVE  Inv'
<1>1. SoundProvider /\ "read" \in Places
  BY DEF Inv, Shape, Places
<1>2. CASE Reconcile
  <2>1. SoundProvider' /\ todo' = todo /\ pc' \in {"idle", "read"} /\ pc = "idle"
    BY <1>1, <1>2, ReconcileSound DEF SoundProvider, Reconcile
  <2> QED
    BY <2>1, GoesOnInv DEF Inv, Shape
<1>3. CASE MarkManaged
  <2>1. /\ SoundProvider' /\ pc = "manage"
        /\ (pc' = "create" /\ UNCHANGED copies) \/ (pc' = "idle" /\ todo' = {})
    BY <1>1, <1>3, MarkManagedSound DEF SoundProvider, MarkManaged
  <2> QED
    BY <2>1, GoesOnInv DEF Inv, Shape, copies
<1>4. CASE Resync \/ EditSpec(Specs) \/ DeleteCR
  <2>1. SoundProvider'
    BY <1>1, <1>4, ResyncSound, UserSound, OpenIDConnectProviderAssumption DEF SoundProvider
  <2>2. /\ object' = object /\ pc' = pc /\ drift' = drift /\ desired' = desired
        /\ latest' = latest /\ todo' = todo
    BY <1>4 DEF Resync, EditSpec, DeleteCR, copies
  <2> QED
    BY <2>1, <2>2 DEF Inv, Shape, Progress, ClientsProgress, exists
<1> QED
  BY <1>2, <1>3, <1>4

LEMMA DriftInv ==
  ASSUME Inv, Drift
  PROVE  Inv'
<1>1. SoundProvider /\ object \in Content /\ exists
  BY DEF Inv, Shape, SoundProvider, Sound, CommonTypes, Drift, Drifts, exists
<1>2. ASSUME NEW o \in Content \cup {None}, Drifts(o)
      PROVE  Inv'
  <2>1. SoundProvider' /\ drift' = TRUE /\ pc' = pc /\ latest' = latest /\ todo' = todo
    BY <1>1, <1>2, DriftsSound DEF SoundProvider, copies
  <2> QED
    BY <2>1 DEF Inv, Shape, Progress
<1>3. /\ \A t \in Thumbprints : [object EXCEPT !.thumbprints = t] \in Content
      /\ \A c \in SUBSET (Clients \ BadClients) : [object EXCEPT !.clients = c] \in Content
  BY <1>1 DEF Content, Maybe
<1>4. ASSUME NEW k \in SystemKeys, NEW v \in TagValues
      PROVE  [object EXCEPT !.tags[k] = v] \in Content
  <2>1. [object.tags EXCEPT ![k] = v] \in [TagKeys -> Maybe(TagValues)]
    BY <1>1, ContentTypes DEF Maybe
  <2> QED
    BY <1>1, <2>1 DEF Content
<1> QED
  BY <1>2, <1>3, <1>4 DEF Drift

LEMMA InvInit ==
  ASSUME Init(Specs)
  PROVE  Inv
<1>1. SoundProvider
  BY InitSound, OpenIDConnectProviderAssumption DEF SoundProvider
<1> QED
  BY <1>1 DEF Init, Inv, Shape, Progress

LEMMA InvNext ==
  ASSUME Inv, [Next]_vars
  PROVE  Inv'
<1>1. CASE UNCHANGED vars
  <2>1. /\ cr' = cr /\ cond' = cond /\ queued' = queued /\ object' = object /\ pc' = pc
        /\ op' = op /\ id' = id /\ desired' = desired /\ latest' = latest /\ todo' = todo
        /\ drift' = drift /\ budget' = budget
    BY <1>1 DEF vars
  <2> QED
    BY <2>1 DEF Inv, Shape, SoundProvider, Sound, CommonTypes, Progress, ClientsProgress, exists
<1> QED
  BY <1>1, GetInv, ListTagsInv, UpdateThumbprintInv, AddClientInv, RemoveClientInv,
     ListTagsAgainInv, TagInv, CreateInv, LateInitializeInv, EndsInv, DeleteInv, AroundInv, DriftInv
     DEF Next, Controller, Update, Environment

LEMMA Invariant == Spec => []Inv
<1> QED
  BY InvInit, InvNext, PTL DEF Spec

\* The variables keep their types, and there are calls left to make exactly while an update
\* is under way.
THEOREM TypeCorrect == Spec => []TypeOK
<1>1. Inv => TypeOK
  BY DEF Inv, Shape, SoundProvider, Sound, TypeOK
<1> QED
  BY <1>1, Invariant, PTL

\* No update takes a client id away before all that the new spec gives are there (the two
\* loops over client ids of customUpdateOpenIDConnectProvider).
THEOREM ClientsKept == Spec => []ClientsNeverDip
<1>1. Inv => ClientsNeverDip
  <2> SUFFICES ASSUME Inv, pc = "update", exists, ~drift
               PROVE  latest.clients \subseteq object.clients
                      \/ desired.clients \subseteq object.clients
    BY DEF ClientsNeverDip
  <2>1. ClientsProgress /\ desired.clients \subseteq Clients
    BY UpdateTypes, ContentTypes
  <2> QED
    BY <2>1 DEF ClientsProgress
<1> QED
  BY <1>1, Invariant, PTL

-----------------------------------------------------------------------------
(* OpenIDConnectProvider implements Lifecycle, for the providers whose ARN *)
(* is on record.                                                           *)

\* Where the provider and its ARN stand to the CR and to the reconcile.
IdLifeInv ==
    /\ pc = "idle" => ~id
    /\ pc # "idle" /\ cr.id => id
    /\ id => cr.id \/ (cr.here /\ cr.managed)
    /\ known => cr.here /\ cr.managed
    /\ cr.here /\ cr.deleting => cr.managed
    /\ pc # "idle" /\ op = "delete" => cr.here /\ cr.deleting /\ (id => cr.id)
    /\ pc \in {"manage", "create", "unmanage"} => ~known /\ (id => cr.id)
    /\ pc = "create" => cr.here /\ cr.managed
    /\ pc \in {"delete", "unmanage"} => op = "delete"
    /\ pc \in {"manage", "create"} => op # "delete"
    /\ pc \in {"read", "readTags"} => (id => cr.id)

InvLife == Inv /\ IdLifeInv

LEMMA LifeTypes ==
  ASSUME InvLife
  PROVE  /\ IdLifeInv /\ cr \in CRType(Content) /\ cr.here \in BOOLEAN /\ cr.managed \in BOOLEAN
         /\ cr.deleting \in BOOLEAN /\ cr.id \in BOOLEAN /\ id \in BOOLEAN
         /\ object \in Content \cup {None}
  BY DEF InvLife, Inv, Shape, SoundProvider, Sound, CommonTypes, CRType

\* A reconcile ends.  What it has learnt to find the provider by is put on record, or not.
LEMMA EndsLife ==
  ASSUME InvLife, Idle, object' = object, cr'.here = cr.here, cr'.managed = cr.managed,
         cr'.deleting = cr.deleting, cr'.id = cr.id \/ cr'.id = (cr.id \/ id)
  PROVE  IdLifeInv' /\ Mapped
<1>1. pc' = "idle" /\ id' = FALSE
  BY ReconcilerAssumption, OpenIDConnectProviderAssumption DEF Idle
<1>2. cr'.id => cr.id \/ (cr.here /\ cr.managed)
  BY LifeTypes DEF IdLifeInv
<1>3. cr.id => cr'.id
  BY LifeTypes
<1>4. IdLifeInv'
  BY <1>1, <1>2, LifeTypes DEF IdLifeInv, known, exists
<1>5. CASE known' = known
  BY <1>4, <1>5 DEF Mapped, LifeVars
<1>6. CASE known' # known
  <2>1. ~known /\ known' = TRUE /\ cr.here /\ cr.managed
    BY <1>2, <1>3, <1>6, LifeTypes DEF known, exists, IdLifeInv
  <2> QED
    BY <1>4, <2>1 DEF Mapped, L!Next, L!Create
<1> QED
  BY <1>5, <1>6

LEMMA FinishLifeId ==
  ASSUME InvLife, NEW o, NEW s, FinishWith(o, cr) \/ FinishWith(o, [cr EXCEPT !.spec = s]),
         object' = object
  PROVE  IdLifeInv' /\ Mapped
<1>1. Idle /\ (cr' = [cr EXCEPT !.id = @ \/ id]
               \/ cr' = [[cr EXCEPT !.spec = s] EXCEPT !.id = @ \/ id])
  BY DEF FinishWith
<1>2. cr'.here = cr.here /\ cr'.managed = cr.managed /\ cr'.deleting = cr.deleting
      /\ cr'.id = (cr.id \/ id)
  BY <1>1, LifeTypes DEF CRType
<1> QED
  BY <1>1, <1>2, EndsLife

LEMMA RefusedLife ==
  ASSUME InvLife, CallFails \/ \E o : Refused(o)
  PROVE  IdLifeInv' /\ Mapped
  BY FinishLifeId DEF CallFails, Refused, Finish

\* A reconcile goes on, and the provider is there, or not, as before.
LEMMA GoesOnLifeId ==
  ASSUME InvLife, pc # "idle", NEW q, Goto(q), UNCHANGED <<op, id>>, exists' = exists,
         q \notin {"idle", "manage", "create", "unmanage"},
         q = "delete" => op = "delete",
         q \in {"read", "readTags"} => pc \in {"read", "readTags"}
  PROVE  IdLifeInv' /\ Mapped
<1>1. cr' = cr /\ pc' = q /\ op' = op /\ id' = id /\ known' = known
  BY DEF Goto, known
<1>2. IdLifeInv'
  BY <1>1, LifeTypes DEF IdLifeInv
<1> QED
  BY <1>1, <1>2 DEF Mapped, LifeVars

LEMMA AfterIs ==
  ASSUME NEW calls
  PROVE  /\ After(calls) \in {"update", "delete", "lateInit"}
         /\ After(calls) = "delete" => op = "delete"
  BY DEF After

LEMMA ReadLife ==
  ASSUME InvLife, GetOpenIDConnectProvider \/ ListTags
  PROVE  IdLifeInv' /\ Mapped
<1>1. CASE GetOpenIDConnectProvider
  <2>1. CASE ~(id /\ exists) /\ NotFound
    <3>1. /\ cr' = cr /\ object' = object /\ op' = op /\ id' = id /\ pc = "read"
          /\ pc' = IF op = "delete" THEN "unmanage" ELSE "manage"
      BY <1>1, <2>1 DEF GetOpenIDConnectProvider, NotFound, Goto, copies
    <3>2. ~known /\ (id => cr.id)
      BY <2>1, <3>1, LifeTypes DEF IdLifeInv, known
    <3>3. IdLifeInv'
      BY <3>1, <3>2, LifeTypes DEF IdLifeInv, known, exists
    <3> QED
      BY <3>1, <3>3 DEF Mapped, LifeVars, known, exists
  <2>2. CASE exists /\ Goto("readTags") /\ UNCHANGED <<object, op, id>>
    BY <1>1, <2>2, GoesOnLifeId DEF GetOpenIDConnectProvider, exists
  <2> QED
    BY <1>1, <2>1, <2>2, RefusedLife DEF GetOpenIDConnectProvider
<1>2. CASE ListTags
  <2>1. ASSUME NEW calls, Goto(After(calls)), UNCHANGED <<object, op, id>>
        PROVE  IdLifeInv' /\ Mapped
    BY <1>2, <2>1, AfterIs, GoesOnLifeId DEF ListTags, exists
  <2> QED
    BY <1>2, <2>1, RefusedLife DEF ListTags
<1> QED
  BY <1>1, <1>2

\* No call of an update makes a provider come or go.
LEMMA DoneLife ==
  ASSUME InvLife, pc = "update", exists, NEW o \in Content, NEW calls, Done(o, calls)
  PROVE  IdLifeInv' /\ Mapped
<1>1. exists' = exists
  BY ContentTypes DEF Done, exists
<1> QED
  BY <1>1, AfterIs, GoesOnLifeId DEF Done

LEMMA AttemptLife ==
  ASSUME InvLife, NEW call, NEW condition, NEW o, NEW code, Attempt(call, condition, o, code),
         pc = "update" /\ exists => o \in Content
  PROVE  IdLifeInv' /\ Mapped
  BY DoneLife, RefusedLife DEF Attempt

LEMMA UpdateLife ==
  ASSUME InvLife, Update
  PROVE  IdLifeInv' /\ Mapped
<1>1. ASSUME pc = "update", exists
      PROVE  /\ object \in Content /\ desired \in Content
             /\ object.tags \in [TagKeys -> Maybe(TagValues)]
             /\ desired.tags \in [TagKeys -> Maybe(TagValues)]
             /\ \A t \in Maybe(Thumbprints) : [object EXCEPT !.thumbprints = t] \in Content
             /\ \A C \in SUBSET Clients : [object EXCEPT !.clients = C] \in Content
             /\ \A tags \in [TagKeys -> Maybe(TagValues)] :
                    [object EXCEPT !.tags = tags] \in Content
  <2>1. object \in Content /\ desired \in Content
    BY <1>1, UpdateTypes DEF InvLife
  <2> QED
    BY <2>1, ContentTypes DEF Content
<1>2. CASE UpdateThumbprint
  BY <1>1, <1>2, AttemptLife DEF UpdateThumbprint
<1>3. CASE AddClientID
  <2>1. PICK c \in Clients :
            Attempt(<<"AddClientID", c>>, c \notin BadClients,
                    [object EXCEPT !.clients = object.clients \cup {c}],
                    IF exists THEN "InvalidInput" ELSE "NoSuchEntity")
    BY <1>3 DEF AddClientID
  <2>2. pc = "update" /\ exists => object.clients \cup {c} \in SUBSET Clients
    BY <1>1, ContentTypes
  <2> QED
    BY <1>1, <2>1, <2>2, AttemptLife
<1>4. CASE RemoveClientID
  <2>1. PICK c \in Clients :
            Attempt(<<"RemoveClientID", c>>, TRUE,
                    [object EXCEPT !.clients = object.clients \ {c}], "NoSuchEntity")
    BY <1>4 DEF RemoveClientID
  <2>2. pc = "update" /\ exists => object.clients \ {c} \in SUBSET Clients
    BY <1>1, ContentTypes
  <2> QED
    BY <1>1, <2>1, <2>2, AttemptLife
<1>5. CASE ListTagsAgain
  BY <1>1, <1>5, DoneLife, RefusedLife DEF ListTagsAgain
<1>6. CASE AddTags
  <2>1. PICK add \in SUBSET TagKeys :
            Attempt(<<"Tag", add>>, TRUE,
                    [object EXCEPT !.tags = [k \in TagKeys |-> IF k \in add THEN desired.tags[k]
                                                               ELSE object.tags[k]]],
                    "NoSuchEntity")
    BY <1>6 DEF AddTags
  <2>2. pc = "update" /\ exists =>
            [k \in TagKeys |-> IF k \in add THEN desired.tags[k] ELSE object.tags[k]]
                \in [TagKeys -> Maybe(TagValues)]
    BY <1>1
  <2> QED
    BY <1>1, <2>1, <2>2, AttemptLife
<1>7. CASE RemoveTags
  <2>1. PICK remove \in SUBSET TagKeys, code \in {"InvalidInput", "AccessDenied"} :
            Attempt(<<"Untag", remove>>, remove \cap SystemKeys = {},
                    [object EXCEPT !.tags = [k \in TagKeys |-> IF k \in remove THEN None
                                                               ELSE object.tags[k]]], code)
    BY <1>7 DEF RemoveTags
  <2>2. pc = "update" /\ exists =>
            [k \in TagKeys |-> IF k \in remove THEN None ELSE object.tags[k]]
                \in [TagKeys -> Maybe(TagValues)]
    BY <1>1 DEF Maybe
  <2> QED
    BY <1>1, <2>1, <2>2, AttemptLife
<1> QED
  BY <1>2, <1>3, <1>4, <1>5, <1>6, <1>7 DEF Update

LEMMA OtherCallsLife ==
  ASSUME InvLife, \/ CreateOpenIDConnectProvider \/ LateInitialize \/ PatchCR
                  \/ DeleteOpenIDConnectProvider
  PROVE  IdLifeInv' /\ Mapped
<1>1. CASE CreateOpenIDConnectProvider
  <2>1. CASE /\ ~exists
             /\ object' = [desired EXCEPT !.thumbprints = IF @ = None THEN Retrieved ELSE @]
             /\ op' = "create" /\ id' = TRUE /\ Goto("lateInit")
    <3>1. pc = "create" /\ desired \in Content /\ cr.here = TRUE /\ cr.managed = TRUE /\ ~known
      BY <1>1, LifeTypes
         DEF CreateOpenIDConnectProvider, InvLife, Inv, Shape, SoundProvider, Sound, IdLifeInv
    <3>2. object' \in Content
      BY <2>1, <3>1, OpenIDConnectProviderAssumption DEF Content, Maybe
    <3>3. cr' = cr /\ pc' = "lateInit" /\ object' # None
      BY <2>1, <3>2, ContentTypes DEF Goto
    <3>4. IdLifeInv'
      BY <2>1, <3>1, <3>3, LifeTypes DEF IdLifeInv
    <3>5. known' = cr.id
      BY <3>3, LifeTypes DEF known, exists
    <3>6. CASE cr.id
      BY <3>1, <3>3, <3>4, <3>5, <3>6, LifeTypes DEF Mapped, L!Next, L!Create
    <3>7. CASE ~cr.id
      BY <3>1, <3>3, <3>4, <3>5, <3>7, LifeTypes DEF Mapped, LifeVars, known
    <3> QED
      BY <3>6, <3>7
  <2> QED
    BY <1>1, <2>1, RefusedLife DEF CreateOpenIDConnectProvider
<1>2. CASE LateInitialize
  <2>1. CASE Goto("patch") /\ UNCHANGED <<object, op, id>>
    BY <1>2, <2>1, GoesOnLifeId DEF LateInitialize, exists
  <2> QED
    BY <1>2, <2>1, RefusedLife DEF LateInitialize
<1>3. CASE PatchCR
  <2>1. PICK s \in Content : Patch("Synced", s)
    BY <1>3, PatchTypes DEF InvLife
  <2> QED
    BY <2>1, FinishLifeId, EndsLife DEF Patch
<1>4. CASE DeleteOpenIDConnectProvider
  <2>1. CASE Answered(None, "unmanage")
    <3>1. /\ cr' = cr /\ pc' = "unmanage" /\ op' = op /\ id' = id /\ object' = None
          /\ pc = "delete" /\ ~known'
      BY <1>4, <2>1 DEF DeleteOpenIDConnectProvider, Answered, Goto, copies, known, exists
    <3>2. IdLifeInv'
      BY <3>1, LifeTypes DEF IdLifeInv
    <3>3. CASE known
      BY <3>1, <3>2, <3>3 DEF Mapped, L!Next, L!Destroy, known
    <3>4. CASE ~known
      BY <3>1, <3>2, <3>4 DEF Mapped, LifeVars, known
    <3> QED
      BY <3>3, <3>4
  <2> QED
    BY <1>4, <2>1, RefusedLife DEF DeleteOpenIDConnectProvider
<1> QED
  BY <1>1, <1>2, <1>3, <1>4

LEMMA FinalizerLifeId ==
  ASSUME InvLife, MarkManaged \/ MarkUnmanaged
  PROVE  IdLifeInv' /\ Mapped
<1>1. CASE MarkManaged /\ cr.here
  <2>1. /\ cr' = [cr EXCEPT !.managed = TRUE] /\ pc = "manage" /\ pc' = "create"
        /\ op' = op /\ id' = id /\ object' = object
    BY <1>1 DEF MarkManaged, copies
  <2>2. /\ cr'.here = cr.here /\ cr'.managed = TRUE /\ cr'.deleting = cr.deleting
        /\ cr'.id = cr.id
    BY <2>1, LifeTypes DEF CRType
  <2>3. IdLifeInv' /\ known' = known
    BY <1>1, <2>1, <2>2, LifeTypes DEF IdLifeInv, known, exists
  <2>4. CASE cr.managed
    BY <2>2, <2>3, <2>4, LifeTypes DEF Mapped, LifeVars
  <2>5. CASE ~cr.managed
    <3>1. ~cr.deleting
      BY <1>1, <2>5, LifeTypes DEF IdLifeInv
    <3> QED
      BY <1>1, <2>2, <2>3, <2>5, <3>1, LifeTypes DEF Mapped, L!Next, L!Claim
  <2> QED
    BY <2>4, <2>5
<1>2. CASE MarkManaged /\ ~cr.here
  BY <1>2, RefusedLife DEF MarkManaged, Refused
<1>3. CASE MarkUnmanaged
  <2>1. /\ cr' = [cr EXCEPT !.managed = FALSE, !.here = FALSE] /\ pc = "unmanage" /\ Idle
        /\ object' = object
    BY <1>3 DEF MarkUnmanaged
  <2>2. pc' = "idle" /\ id' = FALSE
    BY <2>1, ReconcilerAssumption, OpenIDConnectProviderAssumption DEF Idle
  <2>3. cr'.here = FALSE /\ cr'.managed = FALSE /\ cr'.deleting = cr.deleting /\ cr'.id = cr.id
    BY <2>1, LifeTypes DEF CRType
  <2>4. ~known /\ cr.here /\ cr.deleting /\ cr.managed
    BY <2>1, LifeTypes DEF IdLifeInv
  <2>5. known' = known /\ ~known'
    BY <2>1, <2>3, <2>4 DEF known, exists
  <2>6. IdLifeInv'
    BY <2>2, <2>3, <2>5 DEF IdLifeInv
  <2> QED
    BY <2>3, <2>4, <2>5, <2>6, LifeTypes DEF Mapped, L!Next, L!Release
<1> QED
  BY <1>1, <1>2, <1>3

LEMMA AroundLifeId ==
  ASSUME InvLife, Reconcile \/ Resync \/ Crash \/ EditSpec(Specs) \/ DeleteCR
  PROVE  IdLifeInv' /\ Mapped
<1>1. CASE Reconcile /\ cr.here
  <2>1. /\ cr' = cr /\ object' = object /\ pc = "idle" /\ pc' = "read" /\ id' = cr.id
        /\ op' = IF cr.deleting THEN "delete" ELSE "sync"
    BY <1>1 DEF Reconcile
  <2> QED
    BY <1>1, <2>1, LifeTypes DEF IdLifeInv, Mapped, LifeVars, known, exists
<1>2. CASE (Reconcile /\ ~cr.here) \/ Resync
  <2>1. cr' = cr /\ object' = object /\ pc' = pc /\ id' = id /\ op' = op
    BY <1>2 DEF Reconcile, Resync, copies
  <2> QED
    BY <2>1, LifeTypes DEF IdLifeInv, Mapped, LifeVars, known, exists
<1>3. CASE Crash
  BY <1>3, EndsLife DEF Crash
<1>4. CASE EditSpec(Specs)
  <2>1. /\ cr'.here = cr.here /\ cr'.managed = cr.managed /\ cr'.deleting = cr.deleting
        /\ cr'.id = cr.id /\ pc' = pc /\ op' = op /\ id' = id /\ object' = object
    BY <1>4, LifeTypes DEF EditSpec, CRType, copies
  <2> QED
    BY <2>1, LifeTypes DEF IdLifeInv, Mapped, LifeVars, known, exists
<1>5. CASE DeleteCR
  <2>1. /\ cr.here /\ ~cr.deleting /\ cr' = [cr EXCEPT !.deleting = cr.managed, !.here = cr.managed]
        /\ pc' = pc /\ op' = op /\ id' = id /\ object' = object
    BY <1>5 DEF DeleteCR, copies
  <2>2. /\ cr'.here = cr.managed /\ cr'.managed = cr.managed /\ cr'.deleting = cr.managed
        /\ cr'.id = cr.id
    BY <2>1, LifeTypes DEF CRType
  <2>3. IdLifeInv' /\ known' = known
    BY <2>1, <2>2, LifeTypes DEF IdLifeInv, known, exists
  <2> QED
    BY <2>1, <2>2, <2>3, LifeTypes DEF Mapped, L!Next, L!AskDelete
<1> QED
  BY <1>1, <1>2, <1>3, <1>4, <1>5

LEMMA DriftLifeId ==
  ASSUME InvLife, NEW o, Drifts(o)
  PROVE  IdLifeInv' /\ Mapped
<1>1. cr' = cr /\ pc' = pc /\ id' = id /\ op' = op /\ exists
  BY DEF Drifts, copies
<1>2. IdLifeInv'
  BY <1>1, LifeTypes DEF IdLifeInv, known
<1>3. CASE known' = known
  BY <1>1, <1>2, <1>3 DEF Mapped, LifeVars
<1>4. CASE known' # known
  <2>1. known /\ known' = FALSE
    BY <1>1, <1>4, LifeTypes DEF known, exists
  <2> QED
    BY <1>1, <1>2, <2>1 DEF Mapped, L!Next, L!Destroy
<1> QED
  BY <1>3, <1>4

LEMMA StepLife == InvLife /\ [Next]_vars => InvLife' /\ Mapped
<1> SUFFICES ASSUME InvLife, [Next]_vars
             PROVE  IdLifeInv' /\ Mapped
  BY InvNext DEF InvLife
<1>1. CASE Drift
  BY <1>1, DriftLifeId DEF Drift
<1>2. CASE UNCHANGED vars
  <2>1. /\ cr' = cr /\ pc' = pc /\ id' = id /\ op' = op /\ object' = object
    BY <1>2 DEF vars
  <2> QED
    BY <2>1, LifeTypes DEF IdLifeInv, Mapped, LifeVars, known, exists
<1> QED
  BY <1>1, <1>2, ReadLife, UpdateLife, OtherCallsLife, FinalizerLifeId, AroundLifeId
     DEF Next, Controller, Environment

LEMMA LifeInit ==
  ASSUME Init(Specs)
  PROVE  IdLifeInv /\ L!Init
<1>1. PICK s \in Specs : cr = [here |-> TRUE, deleting |-> FALSE, managed |-> FALSE,
                             id |-> ByName, spec |-> s]
  BY DEF Init
<1>2. object = None /\ pc = "idle" /\ id = FALSE
  BY ReconcilerAssumption, OpenIDConnectProviderAssumption DEF Init
<1>3. cr.here = TRUE /\ cr.managed = FALSE /\ cr.deleting = FALSE
  BY <1>1
<1> QED
  BY <1>2, <1>3 DEF IdLifeInv, exists, known, L!Init

\* The detailed manager implements the abstract life cycle, from the moment on that the ARN
\* is on record: a provider comes to be known only for a CR with the finalizer, which goes
\* only after the provider.  (What is lost before the ARN is on record, nobody deletes.)
THEOREM ProviderImplementsLifecycle == Spec => ImplementsLifecycle
<1>1. Init(Specs) => InvLife /\ L!Init
  BY InvInit, LifeInit DEF InvLife
<1>2. InvLife /\ [Next]_vars => InvLife' /\ [L!Next]_(L!vars)
  BY StepLife DEF Mapped, LifeVars, L!vars
<1> QED
  BY <1>1, <1>2, PTL DEF Spec, ImplementsLifecycle, L!Spec

-----------------------------------------------------------------------------
(* ServiceLinkedRole.                                                      *)

SoundRole == Sound(SLRContent, SLRPlaces, {})

\* SLRAfter a creation there is an answer for the patch of the spec.
SLRShape ==
    /\ SoundRole /\ pc # "lateInit"
    /\ op = "create" => latest \in SLRContent

Held == cr.here /\ cr.managed

\* AWS was asked to delete the role, or there is no name left to find it by.
Asked == exists => object.task # "none" \/ (~cr.id /\ ~id)

\* A reconcile that does not create works with the name on record; it creates with the
\* finalizer on, and takes it off when AWS was asked.
SLRNameInv ==
    /\ pc # "idle" /\ op # "create" => id = cr.id
    /\ pc \in {"read", "manage", "update", "delete"} => op # "create"
    /\ pc = "create" => Held
    /\ pc = "unmanage" => Asked
    /\ Held \/ Asked

SLRInv == SLRShape /\ SLRNameInv

-----------------------------------------------------------------------------
\* A reconcile that is over has put the name it knows on record, or forgotten it: what
\* was promised of the role then still holds.
LEMMA SLREndInv ==
  ASSUME SLRInv, SoundRole', Idle, object' = object,
         cr'.here = cr.here, cr'.managed = cr.managed, cr'.id => cr.id \/ id
  PROVE  SLRInv'
<1>1. pc' = "idle" /\ op' = "sync" /\ ~id'
  BY ServiceLinkedRoleAssumption DEF Idle
<1>2. (Held \/ Asked)'
  BY <1>1 DEF SLRInv, SLRNameInv, Held, Asked, exists
<1> QED
  BY <1>1, <1>2 DEF SLRInv, SLRShape, SLRNameInv

LEMMA SLRFinishInv ==
  ASSUME SLRInv, NEW o \in Outcomes, NEW s \in SLRContent,
         FinishWith(o, cr) \/ FinishWith(o, [cr EXCEPT !.spec = s]),
         object' = object, budget' \in [Misfortunes -> Nat]
  PROVE  SLRInv'
<1>1. cr \in CRType(SLRContent) /\ SoundRole /\ id \in BOOLEAN /\ object \in SLRContent \cup {None}
  BY DEF SLRInv, SLRShape, SoundRole, Sound, CommonTypes, CRType
<1>2. PICK c \in {cr, [cr EXCEPT !.spec = s]} : FinishWith(o, c)
  OBVIOUS
<1>3. c \in CRType(SLRContent) /\ c.here = cr.here /\ c.managed = cr.managed /\ c.id = cr.id
  BY <1>1, <1>2 DEF CRType
<1>4. SoundRole'
  BY <1>1, <1>2, <1>3, FinishSound DEF SoundRole
<1>5. cr' = [c EXCEPT !.id = c.id \/ id] /\ Idle
  BY <1>2 DEF FinishWith
<1>6. cr'.here = cr.here /\ cr'.managed = cr.managed /\ (cr'.id => cr.id \/ id)
  BY <1>1, <1>3, <1>5 DEF CRType
<1> QED
  BY <1>4, <1>5, <1>6, SLREndInv

LEMMA SLRRefusedInv ==
  ASSUME SLRInv, (\E o \in Outcomes : Refused(o)) \/ CallFails
  PROVE  SLRInv'
<1>1. cr.spec \in SLRContent /\ budget \in [Misfortunes -> Nat] /\ SoundRole
  BY DEF SLRInv, SLRShape, SoundRole, Sound, CommonTypes
<1>2. ASSUME NEW o \in Outcomes, Refused(o)
      PROVE  SLRInv'
  BY <1>1, <1>2, SLRFinishInv DEF Refused, Finish
<1>3. CASE CallFails
  <2>1. "Recoverable" \in Outcomes /\ "fault" \in Misfortunes
    BY DEF Outcomes, Misfortunes
  <2>2. budget' \in [Misfortunes -> Nat]
    BY <1>1, <1>3, <2>1, SpendSound DEF CallFails, SoundRole
  <2> QED
    BY <1>1, <1>3, <2>1, <2>2, SLRFinishInv DEF CallFails, Finish
<1> QED
  BY <1>2, <1>3

\* A step of a reconcile that leaves the CR, the role and the reconcile's id alone.
LEMMA SLRGoesOn ==
  ASSUME SLRInv, SoundRole', UNCHANGED <<cr, object, op, id>>, pc # "idle", pc # "create",
         pc' \in {"read", "manage", "update", "patch", "delete", "unmanage"},
         op # "create",
         pc' = "unmanage" => Asked
  PROVE  SLRInv'
<1>1. cr' = cr /\ object' = object /\ op' = op /\ id' = id
  OBVIOUS
<1>2. (Asked <=> Asked') /\ (Held <=> Held')
  BY <1>1 DEF Asked, Held, exists
<1> QED
  BY <1>1, <1>2 DEF SLRInv, SLRShape, SLRNameInv

LEMMA SLRFoundInv ==
  ASSUME SLRInv, pc = "read", RoleFound
  PROVE  SLRInv'
<1>1. /\ SoundRole /\ op # "create" /\ id \in BOOLEAN /\ todo \subseteq {}
      /\ object \in SLRContent /\ desired \in SLRContent /\ op \in {"sync", "create", "delete"}
  BY DEF SLRInv, SLRShape, SLRNameInv, SoundRole, Sound, CommonTypes, RoleFound, exists
<1>2. SLRAfter(object.description) \in {"delete", "update", "patch"}
  BY DEF SLRAfter
<1>3. /\ latest' = object /\ Goto(SLRAfter(object.description)) /\ object' = object /\ op' = op
      /\ id' = id /\ desired' = desired /\ todo' = todo /\ cr' = cr
      /\ pc' = SLRAfter(object.description)
  BY DEF RoleFound, Goto
<1>4. SoundRole'
  BY <1>1, <1>2, <1>3, GotoSound DEF SoundRole, SLRPlaces, SharedPlaces
<1> QED
  BY <1>1, <1>2, <1>3, <1>4, SLRGoesOn

LEMMA GetRoleInv ==
  ASSUME SLRInv, GetRole
  PROVE  SLRInv'
<1>1. SoundRole /\ pc = "read" /\ op # "create" /\ id = cr.id
  BY DEF SLRInv, SLRShape, SLRNameInv, GetRole
<1>2. CASE ~(id /\ exists) /\ NotFound
  <2>1. SoundRole' /\ UNCHANGED copies /\ pc' \in {"manage", "unmanage"}
    BY <1>1, <1>2, NotFoundSound DEF SoundRole
  <2>2. cr' = cr /\ object' = object /\ op' = op /\ id' = id
    BY <1>2, <2>1 DEF NotFound, Goto, copies
  <2>3. Asked
    BY <1>1, <1>2 DEF Asked
  <2> QED
    BY <1>1, <2>1, <2>2, <2>3, SLRGoesOn
<1> QED
  BY <1>1, <1>2, SLRFoundInv, SLRRefusedInv DEF GetRole

LEMMA SLRCreateInv ==
  ASSUME SLRInv, CreateServiceLinkedRole
  PROVE  SLRInv'
<1>1. SoundRole /\ pc = "create" /\ Held
  BY DEF SLRInv, SLRShape, SLRNameInv, CreateServiceLinkedRole
<1>2. ASSUME NEW d \in Maybe(Descriptions), object' = [desired EXCEPT !.description = d],
             latest' = object', op' = "create", id' = TRUE, Goto("patch"),
             desired' = desired, todo' = todo
      PROVE  SLRInv'
  <2>1. desired \in SLRContent /\ todo \subseteq {}
    BY <1>1 DEF SoundRole, Sound, CommonTypes
  <2>2. object' \in SLRContent
    BY <1>2, <2>1 DEF SLRContent
  <2>3. SoundRole'
    BY <1>1, <1>2, <2>1, <2>2, GotoSound DEF SoundRole, SharedPlaces
  <2>4. cr' = cr /\ pc' = "patch" /\ latest' \in SLRContent
    BY <1>2, <2>2 DEF Goto
  <2> QED
    BY <1>1, <1>2, <2>3, <2>4 DEF SLRInv, SLRShape, SLRNameInv, Held
<1>3. CASE \E o \in Outcomes : Refused(o)
  BY <1>3, SLRRefusedInv
<1>4. SLRterminalAWSError("InvalidInput") \in Outcomes
  BY DEF SLRterminalAWSError, Outcomes
<1> QED
  BY <1>2, <1>3, <1>4, SLRRefusedInv DEF CreateServiceLinkedRole

\* A call on the role's way is answered, and the role's task has at most been begun.
LEMMA SLRAnsweredInv ==
  ASSUME SLRInv, NEW o \in SLRContent, exists, o.task # "none" \/ o.task = object.task,
         pc = "update" \/ pc = "delete",
         Answered(o, IF pc = "update" THEN "patch" ELSE "unmanage"),
         pc = "delete" => o.task # "none"
  PROVE  SLRInv'
<1>1. SoundRole /\ pc # "idle" /\ op # "create"
  BY DEF SLRInv, SLRShape, SLRNameInv
<1>2. SoundRole' /\ UNCHANGED copies
      /\ pc' = IF pc = "update" THEN "patch" ELSE "unmanage"
  BY <1>1, AnsweredSound DEF SoundRole, SharedPlaces
<1>3. cr' = cr /\ object' = o /\ op' = op /\ id' = id
  BY <1>2 DEF Answered, Goto, copies
<1>4. Held' <=> Held
  BY <1>3 DEF Held
<1>5. Asked => Asked'
  BY <1>3 DEF Asked, exists
<1>6. pc = "delete" => Asked'
  BY <1>3 DEF Asked
<1> QED
  BY <1>1, <1>2, <1>3, <1>4, <1>5, <1>6 DEF SLRInv, SLRShape, SLRNameInv

LEMMA SLRUpdateDeleteInv ==
  ASSUME SLRInv, UpdateRole \/ DeleteServiceLinkedRole
  PROVE  SLRInv'
<1>1. object \in SLRContent \cup {None} /\ desired \in SLRContent \cup {None}
  BY DEF SLRInv, SLRShape, SoundRole, Sound, CommonTypes
<1>2. SLRterminalAWSError("NoSuchEntity") \in Outcomes
  BY DEF SLRterminalAWSError, Outcomes
<1>3. CASE UpdateRole
  <2>1. ASSUME NEW d \in Maybe(Descriptions), exists, pc = "update",
               Answered([object EXCEPT !.description = d], "patch")
        PROVE  SLRInv'
    <3>1. object \in SLRContent
      BY <1>1, <2>1 DEF exists
    <3>2. [object EXCEPT !.description = d] \in SLRContent
          /\ [object EXCEPT !.description = d].task = object.task
      BY <3>1 DEF SLRContent
    <3> QED
      BY <2>1, <3>2, SLRAnsweredInv
  <2>2. ASSUME exists, pc = "update"
        PROVE  (IF desired.description # None THEN {desired.description}
                ELSE {None, object.description}) \subseteq Maybe(Descriptions)
    <3>1. object \in SLRContent /\ desired \in SLRContent
      BY <1>1, <2>2 DEF exists, SLRInv, SLRShape, SoundRole, Sound
    <3> QED
      BY <3>1 DEF SLRContent, Maybe
  <2>3. pc = "update"
    BY <1>3 DEF UpdateRole
  <2>4. CASE Refused(SLRterminalAWSError("NoSuchEntity")) \/ CallFails
    BY <1>2, <2>4, SLRRefusedInv
  <2> QED
    BY <1>3, <2>1, <2>2, <2>3, <2>4 DEF UpdateRole
<1>4. CASE DeleteServiceLinkedRole
  <2>1. ASSUME exists, pc = "delete", Answered([object EXCEPT !.task = "running"], "unmanage")
        PROVE  SLRInv'
    <3>1. object \in SLRContent
      BY <1>1, <2>1 DEF exists
    <3>2. [object EXCEPT !.task = "running"] \in SLRContent
          /\ [object EXCEPT !.task = "running"].task = "running"
      BY <3>1 DEF SLRContent
    <3> QED
      BY <2>1, <3>2, SLRAnsweredInv
  <2>2. CASE Refused(SLRterminalAWSError("NoSuchEntity")) \/ CallFails
    BY <1>2, <2>2, SLRRefusedInv
  <2> QED
    BY <1>4, <2>1, <2>2 DEF DeleteServiceLinkedRole
<1> QED
  BY <1>3, <1>4

LEMMA SLRFinalizerInv ==
  ASSUME SLRInv, MarkManaged \/ MarkUnmanaged
  PROVE  SLRInv'
<1>1. SoundRole /\ cr \in CRType(SLRContent) /\ cond \in Outcomes /\ budget \in [Misfortunes -> Nat]
  BY DEF SLRInv, SLRShape, SoundRole, Sound, CommonTypes, CRType
<1>2. CASE MarkManaged /\ cr.here
  <2>1. SoundRole'
    BY <1>1, <1>2, MarkManagedSound DEF SoundRole
  <2>2. /\ cr' = [cr EXCEPT !.managed = TRUE] /\ pc = "manage" /\ pc' = "create"
        /\ object' = object /\ op' = op /\ id' = id
    BY <1>2 DEF MarkManaged, copies
  <2>3. Held' /\ cr'.id = cr.id
    BY <1>1, <1>2, <2>2 DEF Held, CRType
  <2> QED
    BY <2>1, <2>2, <2>3 DEF SLRInv, SLRShape, SLRNameInv
<1>3. CASE MarkManaged /\ ~cr.here
  <2>1. FinishWith(cond, cr) /\ object' = object /\ budget' = budget /\ cr.spec \in SLRContent
    BY <1>1, <1>3 DEF MarkManaged, Finish, CRType
  <2> QED
    BY <1>1, <2>1, SLRFinishInv
<1>4. CASE MarkUnmanaged
  <2>1. SoundRole' /\ pc' = "idle" /\ op' = "sync"
    BY <1>1, <1>4, MarkUnmanagedSound DEF SoundRole, MarkUnmanaged, Idle
  <2>2. Asked /\ ~id' /\ object' = object /\ cr'.id = cr.id
    BY <1>1, <1>4, ServiceLinkedRoleAssumption
       DEF SLRInv, SLRNameInv, MarkUnmanaged, Idle, CRType
  <2>3. Asked'
    BY <2>2 DEF Asked, exists
  <2> QED
    BY <2>1, <2>3 DEF SLRInv, SLRShape, SLRNameInv
<1> QED
  BY <1>2, <1>3, <1>4

LEMMA SLRPatchInv ==
  ASSUME SLRInv, SLRPatchCR \/ Crash
  PROVE  SLRInv'
<1>1. /\ SoundRole /\ cr \in CRType(SLRContent) /\ latest \in SLRContent \cup {None}
      /\ "Synced" \in Outcomes
  BY DEF SLRInv, SLRShape, SoundRole, Sound, CommonTypes, CRType, Outcomes
<1>2. CASE Crash
  <2>1. SoundRole'
    BY <1>1, <1>2, CrashSound DEF SoundRole
  <2> QED
    BY <1>1, <1>2, <2>1, SLREndInv DEF Crash
<1>3. CASE SLRPatchCR
  <2> DEFINE s == IF op = "create" /\ latest.description # desired.description
                  THEN [cr.spec EXCEPT !.description = latest.description]
                  ELSE cr.spec
  <2>1. Patch("Synced", s)
    BY <1>3 DEF SLRPatchCR
  <2>2. s \in SLRContent
    <3>1. cr.spec \in SLRContent
      BY <1>1 DEF CRType
    <3>2. op = "create" => latest \in SLRContent
      BY DEF SLRInv, SLRShape
    <3> QED
      BY <3>1, <3>2 DEF SLRContent
  <2> HIDE DEF s
  <2>3. SoundRole' /\ UNCHANGED object
    BY <1>1, <2>1, <2>2, PatchSound DEF SoundRole
  <2>4. CASE FinishWith("Synced", [cr EXCEPT !.spec = s]) /\ UNCHANGED <<budget, object>>
    <3>1. budget' \in [Misfortunes -> Nat]
      BY <2>3 DEF SoundRole, Sound, CommonTypes
    <3> QED
      BY <1>1, <2>2, <2>4, <3>1, SLRFinishInv
  <2>5. CASE Idle /\ UNCHANGED <<cr, cond, object>>
    BY <2>3, <2>5, SLREndInv
  <2> QED
    BY <2>1, <2>4, <2>5 DEF Patch
<1> QED
  BY <1>2, <1>3

LEMMA SLRAroundInv ==
  ASSUME SLRInv, Reconcile \/ Resync \/ EditSpec(SLRSpecs) \/ DeleteCR
  PROVE  SLRInv'
<1>1. SoundRole /\ cr \in CRType(SLRContent)
  BY DEF SLRInv, SLRShape, SoundRole, Sound, CommonTypes, CRType
<1>2. CASE Reconcile /\ cr.here
  <2>1. SoundRole' /\ object' = object
    BY <1>1, <1>2, ReconcileSound DEF SoundRole, SLRPlaces
  <2>2. cr' = cr /\ id' = cr.id /\ pc' = "read" /\ op' \in {"sync", "delete"} /\ pc = "idle"
    BY <1>2 DEF Reconcile
  <2>3. Held' <=> Held
    BY <2>2 DEF Held
  <2>4. Asked => Asked'
    BY <2>1, <2>2 DEF Asked, exists
  <2> QED
    BY <2>1, <2>2, <2>3, <2>4 DEF SLRInv, SLRShape, SLRNameInv
<1>3. CASE (Reconcile /\ ~cr.here) \/ Resync
  <2>1. SoundRole'
    BY <1>1, <1>3, ReconcileSound, ResyncSound DEF SoundRole, SLRPlaces
  <2>2. cr' = cr /\ id' = id /\ pc' = pc /\ op' = op /\ object' = object /\ latest' = latest
    BY <1>3 DEF Reconcile, Resync, copies
  <2> QED
    BY <2>1, <2>2 DEF SLRInv, SLRShape, SLRNameInv, Held, Asked, exists
<1>4. CASE EditSpec(SLRSpecs) \/ DeleteCR
  <2>1. SLRSpecs \subseteq SLRContent
    BY ServiceLinkedRoleAssumption DEF SLRContent
  <2>2. SoundRole' /\ UNCHANGED <<object, pc, copies, drift>>
    BY <1>1, <1>4, <2>1, UserSound DEF SoundRole
  <2>3. id' = id /\ pc' = pc /\ op' = op /\ object' = object /\ latest' = latest
    BY <2>2 DEF copies
  <2>4. cr'.id = cr.id
    BY <1>1, <1>4 DEF EditSpec, DeleteCR, CRType
  <2>5. Held => Held'
    BY <1>1, <1>4 DEF EditSpec, DeleteCR, CRType, Held
  <2>6. Asked => Asked'
    BY <2>3, <2>4 DEF Asked, exists
  <2> QED
    BY <2>2, <2>3, <2>4, <2>5, <2>6 DEF SLRInv, SLRShape, SLRNameInv
<1> QED
  BY <1>2, <1>3, <1>4

LEMMA RoleChangesInv ==
  ASSUME SLRInv, TaskEnds \/ SLRDrift
  PROVE  SLRInv'
<1>1. /\ SoundRole /\ object \in SLRContent \cup {None} /\ exists
      /\ cr' = cr /\ id' = id /\ pc' = pc /\ op' = op /\ latest' = latest /\ desired' = desired
      /\ todo' = todo /\ cond' = cond /\ queued' = queued
  BY DEF SLRInv, SLRShape, SoundRole, Sound, CommonTypes, TaskEnds, SLRDrift, Drifts, copies
<1>2. object \in SLRContent
  BY <1>1 DEF exists
<1>3. ASSUME object' = None \/ (object' \in SLRContent /\ (object'.task = object.task
                                                         \/ object'.task # "none")),
             SoundRole'
      PROVE  SLRInv'
  <2>1. Asked => Asked'
    BY <1>1, <1>3 DEF Asked, exists
  <2>2. Held' <=> Held
    BY <1>1 DEF Held
  <2> QED
    BY <1>1, <1>3, <2>1, <2>2 DEF SLRInv, SLRShape, SLRNameInv
<1>4. CASE TaskEnds
  <2>1. object' = None \/ object' = [object EXCEPT !.task = "failed"]
    BY <1>4 DEF TaskEnds
  <2>2. object' \in SLRContent \cup {None} /\ (object' = None \/ object'.task = "failed")
    BY <1>2, <2>1 DEF SLRContent
  <2>3. SoundRole'
    BY <1>1, <1>4, <2>2 DEF SoundRole, Sound, CommonTypes, TaskEnds
  <2> QED
    BY <1>3, <2>1, <2>2, <2>3
<1>5. ASSUME NEW o \in SLRContent \cup {None}, o = None \/ o.task = object.task, Drifts(o)
      PROVE  SLRInv'
  <2>1. SoundRole' /\ object' = o
    BY <1>1, <1>5, DriftsSound DEF SoundRole, Drifts
  <2> QED
    BY <1>3, <1>5, <2>1
<1>6. CASE SLRDrift
  <2>1. ASSUME NEW d \in Descriptions
        PROVE  [object EXCEPT !.description = d] \in SLRContent
               /\ [object EXCEPT !.description = d].task = object.task
    BY <1>2 DEF SLRContent, Maybe
  <2>2. [object EXCEPT !.used = ~object.used] \in SLRContent
        /\ [object EXCEPT !.used = ~object.used].task = object.task
    BY <1>2 DEF SLRContent
  <2> QED
    BY <1>5, <1>6, <2>1, <2>2 DEF SLRDrift
<1> QED
  BY <1>4, <1>6

LEMMA SLRInvInit ==
  ASSUME Init(SLRSpecs)
  PROVE  SLRInv
<1>1. SoundRole
  BY InitSound, ServiceLinkedRoleAssumption DEF SoundRole, SLRContent
<1> QED
  BY <1>1 DEF Init, SLRInv, SLRShape, SLRNameInv, Asked, exists

LEMMA SLRInvNext ==
  ASSUME SLRInv, [SLRNext]_vars
  PROVE  SLRInv'
<1>1. CASE UNCHANGED vars
  <2>1. /\ cr' = cr /\ cond' = cond /\ queued' = queued /\ object' = object /\ pc' = pc
        /\ op' = op /\ id' = id /\ desired' = desired /\ latest' = latest /\ todo' = todo
        /\ drift' = drift /\ budget' = budget
    BY <1>1 DEF vars
  <2> QED
    BY <2>1 DEF SLRInv, SLRShape, SoundRole, Sound, CommonTypes, SLRNameInv, Held, Asked, exists
<1> QED
  BY <1>1, GetRoleInv, SLRCreateInv, SLRUpdateDeleteInv, SLRFinalizerInv, SLRPatchInv,
     SLRAroundInv, RoleChangesInv
     DEF SLRNext, SLRController, Environment

LEMMA SLRInvariant == SLRSpec => []SLRInv
<1> QED
  BY SLRInvInit, SLRInvNext, PTL DEF SLRSpec

\* The variables keep their types; no reconcile waits for a late initialization.
THEOREM SLRTypeCorrect == SLRSpec => []SLRTypeOK
<1>1. SLRInv => SLRTypeOK
  BY DEF SLRInv, SLRShape, SoundRole, Sound, SLRTypeOK
<1> QED
  BY <1>1, SLRInvariant, PTL

\* The finalizer goes only when AWS was asked to delete the role, as long as the role's
\* name, which AWS has picked, is on record.
THEOREM AskedFirst == SLRSpec => []DeletionAsked
<1>1. SLRInv => DeletionAsked
  BY DEF SLRInv, SLRNameInv, Held, Asked, DeletionAsked, known
<1> QED
  BY <1>1, SLRInvariant, PTL
=============================================================================
