------------------------ MODULE InstanceProfileProofs ------------------------
(***************************************************************************)
(* Proofs about InstanceProfile for all sets of roles, tags and specs and  *)
(* every budget: its types, that there is room for the role when it is     *)
(* attached, and that success means that everything was applied.           *)
(***************************************************************************)
EXTENDS InstanceProfile, ReconcilerProofs

SoundProfile == Sound(Content, Places, CallNames)

\* There are calls to make exactly while an update is under way, and it began with an
\* observation.
Shape ==
    /\ SoundProfile
    /\ (todo # {}) = (pc = "update")
    /\ pc = "update" => latest \in Content

\* An emptying only detaches, and what has just been created is not updated.
OpInv ==
    /\ pc \in {"read", "update"} => op # "create"
    /\ pc = "update" /\ op = "delete" => todo = {"RemoveRoleFromInstanceProfile"}

\* How far an update has come with the role ...
RoleProgress ==
    IF "RemoveRoleFromInstanceProfile" \in todo
    THEN /\ object.role = latest.role
         /\ desired.role = None \/ "AddRoleToInstanceProfile" \in todo
    ELSE object.role = IF "AddRoleToInstanceProfile" \in todo THEN None ELSE desired.role

\* ... and with the tags.
TagProgress ==
    IF "UntagInstanceProfile" \in todo
    THEN /\ object.tags = latest.tags
         /\ ToAdd(desired, latest) = {} \/ "TagInstanceProfile" \in todo
    ELSE object.tags = IF "TagInstanceProfile" \in todo
                       THEN [k \in TagKeys |->
                                IF k \in ToRemove(desired, latest) THEN None ELSE latest.tags[k]]
                       ELSE desired.tags

Updating == pc = "update" /\ op = "sync" /\ ~drift

Progress == Updating => exists /\ RoleProgress /\ TagProgress

Inv == Shape /\ OpInv /\ Progress /\ SuccessMeansApplied

-----------------------------------------------------------------------------
\* What is due has nothing before it.
LEMMA DueCalls ==
  ASSUME NEW name \in CallNames, Due(name)
  PROVE  /\ name \in todo
         /\ name = "TagInstanceProfile" => "UntagInstanceProfile" \notin todo
         /\ name = "AddRoleToInstanceProfile" => "RemoveRoleFromInstanceProfile" \notin todo
<1>1. name \in todo
  BY DEF Due
<1>2. PICK i \in DOMAIN Order : Order[i] = name /\ \A j \in 1..(i - 1) : Order[j] \notin todo
  BY DEF Due
<1>3. DOMAIN Order = 1..4 /\ Order[1] = "UntagInstanceProfile" /\ Order[2] = "TagInstanceProfile"
      /\ Order[3] = "RemoveRoleFromInstanceProfile" /\ Order[4] = "AddRoleToInstanceProfile"
  BY DEF Order
<1>4. name = "TagInstanceProfile" => i = 2
  BY <1>2, <1>3
<1>5. name = "AddRoleToInstanceProfile" => i = 4
  BY <1>2, <1>3
<1> QED
  BY <1>1, <1>2, <1>3, <1>4, <1>5

\* Nothing is claimed of a reconcile that is over, or has nothing to update.
LEMMA QuietInv ==
  ASSUME SoundProfile', todo' = {}, pc' \notin {"read", "update"},
         pc' \in {"lateInit", "patch"} => op' # "sync"
  PROVE  Inv'
  BY DEF Inv, Shape, OpInv, Progress, Updating, SuccessMeansApplied

\* The mirror of AWS's tags on a spec is a spec.
LEMMA MirrorType ==
  ASSUME NEW d \in Content, NEW l \in Content
  PROVE  MirrorAWSTags(d, l) \in Content
<1>1. d.tags \in [TagKeys -> Maybe(TagValues)] /\ l.tags \in [TagKeys -> Maybe(TagValues)]
  BY DEF Content
<1>2. [k \in TagKeys |-> IF k \in SystemKeys /\ l.tags[k] # None THEN l.tags[k] ELSE d.tags[k]]
         \in [TagKeys -> Maybe(TagValues)]
  BY <1>1
<1> QED
  BY <1>2 DEF MirrorAWSTags, Content

\* An update begins with the object as it was observed.
LEMMA ReadInv ==
  ASSUME Inv, GetInstanceProfile
  PROVE  Inv'
<1>1. SoundProfile /\ pc = "read" /\ pc # "idle" /\ todo = {} /\ op \in {"sync", "delete"}
  BY DEF Inv, Shape, OpInv, GetInstanceProfile, SoundProfile, Sound, CommonTypes
<1>2. CASE NotFound
  <2>1. SoundProfile' /\ UNCHANGED copies /\ pc' \in {"manage", "unmanage"}
    BY <1>1, <1>2, NotFoundSound DEF SoundProfile
  <2> QED
    BY <1>1, <2>1, QuietInv DEF copies
<1>3. CASE CallFails
  BY <1>1, <1>3, RefusedSound, QuietInv DEF SoundProfile
<1>4. ASSUME NEW goal \in Content, NEW calls \in SUBSET CallNames, exists,
             latest' = object, desired' = goal, todo' = calls, object' = object, op' = op, id' = id,
             Goto(After(calls)),
             op = "delete" => calls = Emptying(object),
             op = "sync" => calls = SyncTags(goal, object) \cup SyncRole(goal, object)
      PROVE  Inv'
  <2>1. object \in Content /\ id \in BOOLEAN
    BY <1>1, <1>4 DEF SoundProfile, Sound, CommonTypes, exists
  <2>2. After(calls) \in Places \cup SharedPlaces /\ pc' = After(calls) /\ drift' = drift
    BY <1>4 DEF After, Places, SharedPlaces, Goto
  <2>3. SoundProfile'
    BY <1>1, <1>4, <2>1, <2>2, GotoSound DEF SoundProfile
  <2>4. (calls # {}) = (pc' = "update") /\ pc' # "read"
    BY <2>2 DEF After
  <2>5. Shape'
    BY <1>4, <2>1, <2>3, <2>4 DEF Shape
  <2>6. OpInv'
    BY <1>1, <1>4, <2>2, <2>4 DEF OpInv, Emptying, When
  <2>7. ASSUME op = "sync"
        PROVE  (exists /\ RoleProgress /\ TagProgress)'
    <3>1. exists'
      BY <1>4 DEF exists
    <3>2. RoleProgress'
      BY <1>4, <2>7 DEF RoleProgress, SyncRole, SyncTags, When
    <3>3. object.tags \in [TagKeys -> Maybe(TagValues)] /\ goal.tags \in [TagKeys -> Maybe(TagValues)]
      BY <2>1 DEF Content
    <3>4. "UntagInstanceProfile" \in calls <=> ToRemove(goal, object) # {}
      BY <1>4, <2>7 DEF SyncRole, SyncTags, When
    <3>5. "TagInstanceProfile" \in calls <=> ToAdd(goal, object) # {}
      BY <1>4, <2>7 DEF SyncRole, SyncTags, When
    <3>6. CASE ToRemove(goal, object) # {}
      <4>1. todo' = calls /\ object'.tags = latest'.tags
        BY <1>4
      <4>2. ToAdd(desired', latest') = {} \/ "TagInstanceProfile" \in todo'
        BY <1>4, <3>5
      <4>3. "UntagInstanceProfile" \in todo'
        BY <3>4, <3>6, <4>1
      <4>4. TagProgress'
        BY <4>1, <4>2, <4>3 DEF TagProgress, ToAdd
      <4> QED
        BY <3>1, <3>2, <4>4
    <3>7. CASE ToRemove(goal, object) = {} /\ ToAdd(goal, object) # {}
      <4>1. object.tags = [k \in TagKeys |->
                              IF k \in ToRemove(goal, object) THEN None ELSE object.tags[k]]
        BY <3>3, <3>7
      <4> QED
        BY <1>4, <3>1, <3>2, <3>4, <3>5, <3>7, <4>1 DEF TagProgress
    <3>8. CASE ToRemove(goal, object) = {} /\ ToAdd(goal, object) = {}
      <4>1. object.tags = goal.tags
        BY <3>3, <3>8 DEF ToRemove, ToAdd
      <4> QED
        BY <1>4, <3>1, <3>2, <3>4, <3>5, <3>8, <4>1 DEF TagProgress
    <3> QED
      BY <3>1, <3>2, <3>6, <3>7, <3>8
  <2>8. Progress'
    BY <1>4, <2>7 DEF Progress, Updating
  <2>9. SuccessMeansApplied'
    <3>1. ASSUME op = "sync", calls = {}
          PROVE  object = goal
      <4>1. object.role = goal.role /\ object.tags = goal.tags
        BY <1>4, <2>7, <3>1 DEF RoleProgress, TagProgress
      <4> QED
        BY <2>1, <4>1 DEF Content
    <3>2. After(calls) \in {"lateInit", "patch"} /\ op = "sync" => calls = {}
      BY DEF After
    <3> QED
      BY <1>4, <2>2, <3>1, <3>2 DEF SuccessMeansApplied, exists
  <2> QED
    BY <2>5, <2>6, <2>8, <2>9 DEF Inv
<1>5. ASSUME exists, ~NotFound, ~CallFails
      PROVE  Inv'
  <2> DEFINE goal == IF op = "delete" THEN desired ELSE MirrorAWSTags(desired, object)
             calls == IF op = "delete" THEN Emptying(object)
                      ELSE SyncTags(goal, object) \cup SyncRole(goal, object)
  <2>1. desired \in Content /\ object \in Content
    BY <1>1, <1>5 DEF SoundProfile, Sound, CommonTypes, exists
  <2>2. goal \in Content
    BY <2>1, MirrorType
  <2>3. calls \in SUBSET CallNames
    BY DEF Emptying, SyncTags, SyncRole, When, CallNames
  <2>4. latest' = object /\ desired' = goal /\ todo' = calls /\ Goto(After(calls))
        /\ object' = object /\ op' = op /\ id' = id
    BY <1>5 DEF GetInstanceProfile
  <2>5. (op = "delete" => calls = Emptying(object))
        /\ (op = "sync" => calls = SyncTags(goal, object) \cup SyncRole(goal, object))
    OBVIOUS
  <2> HIDE DEF goal, calls
  <2> QED
    BY <1>4, <1>5, <2>2, <2>3, <2>4, <2>5
<1> QED
  BY <1>2, <1>3, <1>5 DEF GetInstanceProfile

\* A call of the update is answered, and what is left of it is less by that call.
LEMMA DoneShape ==
  ASSUME Shape, pc = "update", NEW name \in CallNames, NEW o \in Content, Done(name, o)
  PROVE  /\ Shape'
         /\ object' = o /\ todo' = todo \ {name} /\ pc' = After(todo')
         /\ op' = op /\ desired' = desired /\ latest' = latest /\ drift' = drift
<1>1. /\ object' = o /\ todo' = todo \ {name} /\ pc' = After(todo \ {name})
      /\ op' = op /\ id' = id /\ desired' = desired /\ latest' = latest /\ drift' = drift
      /\ Goto(After(todo \ {name}))
  BY DEF Done, Goto
<1>2. After(todo \ {name}) \in Places \cup SharedPlaces
      /\ (todo \ {name} # {}) = (After(todo \ {name}) = "update")
  BY DEF After, Places, SharedPlaces
<1>3. SoundProfile /\ todo \subseteq CallNames /\ id \in BOOLEAN /\ desired \in Content
      /\ latest \in Content /\ op \in {"sync", "create", "delete"}
  BY DEF Shape, SoundProfile, Sound, CommonTypes
<1>4. SoundProfile'
  BY <1>1, <1>2, <1>3, GotoSound DEF SoundProfile
<1> QED
  BY <1>1, <1>2, <1>3, <1>4 DEF Shape

\* With every call made, the profile is what is desired.
LEMMA DoneInv ==
  ASSUME Inv, pc = "update", NEW name \in todo, NEW o \in Content, exists, Done(name, o),
         Updating => (RoleProgress /\ TagProgress)'
  PROVE  Inv'
<1>1. name \in CallNames /\ Shape
  BY DEF Inv, Shape, SoundProfile, Sound, CommonTypes
<1>2. /\ Shape'
      /\ object' = o /\ todo' = todo \ {name} /\ pc' = After(todo')
      /\ op' = op /\ desired' = desired /\ latest' = latest /\ drift' = drift
  BY <1>1, DoneShape
<1>3. exists' /\ op # "create" /\ op \in {"sync", "create", "delete"}
      /\ (op = "delete" => todo = {"RemoveRoleFromInstanceProfile"})
  BY <1>2, InstanceProfileAssumption DEF exists, Inv, OpInv, Shape, SoundProfile, Sound, CommonTypes
<1>4. pc' = IF todo' # {} THEN "update" ELSE IF op = "delete" THEN "deleteProfile" ELSE "lateInit"
  BY <1>2 DEF After
<1>5. OpInv'
  BY <1>2, <1>3, <1>4 DEF OpInv
<1>6. Progress'
  BY <1>2, <1>3 DEF Progress, Updating
<1>7. SuccessMeansApplied'
  <2> SUFFICES ASSUME todo' = {}, op = "sync", ~drift
               PROVE  object' = desired'
    BY <1>2, <1>3, <1>4 DEF SuccessMeansApplied
  <2>1. object'.role = desired'.role /\ object'.tags = desired'.tags
    BY <1>2 DEF Updating, RoleProgress, TagProgress
  <2>2. o \in Content /\ desired \in Content
    BY DEF Inv, Shape, SoundProfile, Sound
  <2> QED
    BY <1>2, <2>1, <2>2 DEF Content
<1> QED
  BY <1>2, <1>5, <1>6, <1>7 DEF Inv

\* The types of what an update works with.
LEMMA UpdateTypes ==
  ASSUME Inv, pc = "update", exists
  PROVE  /\ object \in Content /\ desired \in Content /\ latest \in Content
         /\ object.tags \in [TagKeys -> Maybe(TagValues)]
         /\ desired.tags \in [TagKeys -> Maybe(TagValues)]
         /\ latest.tags \in [TagKeys -> Maybe(TagValues)]
         /\ object.role \in Maybe(Roles) /\ desired.role \in Maybe(Roles)
         /\ SoundProfile /\ pc # "idle"
<1>1. object \in Content /\ desired \in Content /\ latest \in Content /\ SoundProfile
  BY DEF Inv, Shape, SoundProfile, Sound, CommonTypes, exists
<1> QED
  BY <1>1 DEF Content

LEMMA RemoveTagsInv ==
  ASSUME Inv, RemoveTags
  PROVE  Inv'
<1> DEFINE o == [object EXCEPT !.tags = [k \in TagKeys |->
                    IF k \in ToRemove(desired, latest) THEN None ELSE object.tags[k]]]
<1>1. pc = "update" /\ "UntagInstanceProfile" \in todo
  BY DueCalls DEF RemoveTags, CallNames
<1>2. ASSUME exists, Done("UntagInstanceProfile", o)
      PROVE  Inv'
  <2>1. /\ o \in Content /\ o.role = object.role
        /\ o.tags = [k \in TagKeys |->
                        IF k \in ToRemove(desired, latest) THEN None ELSE object.tags[k]]
    BY <1>1, <1>2, UpdateTypes DEF Content, Maybe
  <2>2. object' = o /\ todo' = todo \ {"UntagInstanceProfile"} /\ desired' = desired
        /\ latest' = latest
    BY <1>2 DEF Done
  <2>3. ASSUME Updating
        PROVE  (RoleProgress /\ TagProgress)'
    <3>1. RoleProgress /\ object.tags = latest.tags
          /\ (ToAdd(desired, latest) = {} \/ "TagInstanceProfile" \in todo)
      BY <1>1, <2>3 DEF Inv, Progress, TagProgress
    <3>2. RoleProgress'
      BY <2>1, <2>2, <3>1 DEF RoleProgress
    <3>3. CASE "TagInstanceProfile" \in todo
      BY <2>1, <2>2, <3>1, <3>2, <3>3 DEF TagProgress, ToRemove
    <3>4. CASE "TagInstanceProfile" \notin todo
      <4>1. \A k \in TagKeys : desired.tags[k] \in {None, latest.tags[k]}
        BY <3>1, <3>4 DEF ToAdd
      <4>2. \A k \in TagKeys :
                desired.tags[k] = IF k \in ToRemove(desired, latest) THEN None ELSE latest.tags[k]
        BY <4>1 DEF ToRemove
      <4>3. o.tags = desired.tags
        BY <1>1, <1>2, <2>1, <3>1, <4>2, UpdateTypes
      <4> QED
        BY <2>2, <3>2, <3>4, <4>3 DEF TagProgress
    <3> QED
      BY <3>3, <3>4
  <2> HIDE DEF o
  <2> QED
    BY <1>1, <1>2, <2>1, <2>3, DoneInv
<1>3. CASE Refused("Recoverable") \/ CallFails
  BY <1>1, <1>3, RefusedSound, QuietInv DEF Inv, Shape, SoundProfile, Outcomes
<1> QED
  BY <1>2, <1>3 DEF RemoveTags

LEMMA AddTagsInv ==
  ASSUME Inv, AddTags
  PROVE  Inv'
<1> DEFINE o == [object EXCEPT !.tags = [k \in TagKeys |->
                    IF k \in ToAdd(desired, latest) THEN desired.tags[k] ELSE object.tags[k]]]
<1>1. pc = "update" /\ "TagInstanceProfile" \in todo /\ "UntagInstanceProfile" \notin todo
  BY DueCalls DEF AddTags, CallNames
<1>2. ASSUME exists, Done("TagInstanceProfile", o)
      PROVE  Inv'
  <2>1. /\ o \in Content /\ o.role = object.role
        /\ o.tags = [k \in TagKeys |->
                        IF k \in ToAdd(desired, latest) THEN desired.tags[k] ELSE object.tags[k]]
    BY <1>1, <1>2, UpdateTypes DEF Content, Maybe
  <2>2. object' = o /\ todo' = todo \ {"TagInstanceProfile"} /\ desired' = desired
        /\ latest' = latest
    BY <1>2 DEF Done
  <2>3. ASSUME Updating
        PROVE  (RoleProgress /\ TagProgress)'
    <3>1. RoleProgress
          /\ object.tags = [k \in TagKeys |->
                               IF k \in ToRemove(desired, latest) THEN None ELSE latest.tags[k]]
      BY <1>1, <2>3 DEF Inv, Progress, TagProgress
    <3>2. RoleProgress'
      BY <2>1, <2>2, <3>1 DEF RoleProgress
    <3>3. \A k \in TagKeys : o.tags[k] = desired.tags[k]
      BY <2>1, <3>1 DEF ToAdd, ToRemove
    <3>4. o.tags = desired.tags
      BY <1>1, <1>2, <2>1, <3>3, UpdateTypes
    <3> QED
      BY <1>1, <2>2, <3>2, <3>4 DEF TagProgress
  <2> HIDE DEF o
  <2> QED
    BY <1>1, <1>2, <2>1, <2>3, DoneInv
<1>3. CASE Refused("Recoverable") \/ CallFails
  BY <1>1, <1>3, RefusedSound, QuietInv DEF Inv, Shape, SoundProfile, Outcomes
<1> QED
  BY <1>2, <1>3 DEF AddTags

\* Tags stand as they were when the role changes.
LEMMA RoleCallInv ==
  ASSUME Inv, exists, pc = "update",
         NEW name \in {"RemoveRoleFromInstanceProfile", "AddRoleToInstanceProfile"}, name \in todo,
         NEW r \in Maybe(Roles), Done(name, [object EXCEPT !.role = r]),
         Updating =>
            IF name = "RemoveRoleFromInstanceProfile"
            THEN r = IF "AddRoleToInstanceProfile" \in todo THEN None ELSE desired.role
            ELSE r = desired.role /\ "RemoveRoleFromInstanceProfile" \notin todo
  PROVE  Inv'
<1> DEFINE o == [object EXCEPT !.role = r]
<1>1. o \in Content /\ o.role = r /\ o.tags = object.tags
  BY UpdateTypes DEF Content
<1>2. object' = o /\ todo' = todo \ {name} /\ desired' = desired /\ latest' = latest
  BY DEF Done
<1>3. ASSUME Updating
      PROVE  (RoleProgress /\ TagProgress)'
  <2>1. TagProgress
    BY <1>3 DEF Inv, Progress
  <2>2. TagProgress'
    BY <1>1, <1>2, <2>1 DEF TagProgress, ToAdd, ToRemove
  <2>3. RoleProgress'
    BY <1>1, <1>2, <1>3 DEF RoleProgress
  <2> QED
    BY <2>2, <2>3
<1> HIDE DEF o
<1> QED
  BY <1>1, <1>3, DoneInv DEF o

LEMMA DetachRoleInv ==
  ASSUME Inv, DetachRole
  PROVE  Inv'
<1>1. pc = "update" /\ "RemoveRoleFromInstanceProfile" \in todo
  BY DueCalls DEF DetachRole, CallNames
<1>2. ASSUME exists, Done("RemoveRoleFromInstanceProfile", [object EXCEPT !.role = None])
      PROVE  Inv'
  <2>1. Updating => desired.role = None \/ "AddRoleToInstanceProfile" \in todo
    BY <1>1 DEF Inv, Progress, RoleProgress
  <2>2. None \in Maybe(Roles)
    BY DEF Maybe
  <2> QED
    BY <1>1, <1>2, <2>1, <2>2, RoleCallInv
<1>3. CASE Refused("Recoverable") \/ CallFails
  BY <1>1, <1>3, RefusedSound, QuietInv DEF Inv, Shape, SoundProfile, Outcomes
<1> QED
  BY <1>2, <1>3 DEF DetachRole

LEMMA AttachRoleInv ==
  ASSUME Inv, AttachRole
  PROVE  Inv'
<1>1. pc = "update" /\ "AddRoleToInstanceProfile" \in todo
      /\ "RemoveRoleFromInstanceProfile" \notin todo
  BY DueCalls DEF AttachRole, CallNames
<1>2. ASSUME exists, Done("AddRoleToInstanceProfile", [object EXCEPT !.role = desired.role])
      PROVE  Inv'
  BY <1>1, <1>2, UpdateTypes, RoleCallInv
<1>3. CASE Refused("Recoverable") \/ CallFails
  BY <1>1, <1>3, RefusedSound, QuietInv DEF Inv, Shape, SoundProfile, Outcomes
<1> QED
  BY <1>2, <1>3 DEF AttachRole

\* The steps outside of an update.
LEMMA OtherCallsInv ==
  ASSUME Inv,
         CreateInstanceProfile \/ LateInitialize \/ DeleteInstanceProfile \/ MarkManaged
            \/ PatchCR \/ MarkUnmanaged \/ Crash
  PROVE  Inv'
<1>1. SoundProfile
  BY DEF Inv, Shape
<1>2. pc # "update" => todo = {}
  BY DEF Inv, Shape
<1>3. CASE CallFails \/ Refused("Recoverable")
  BY <1>1, <1>3, RefusedSound, QuietInv DEF SoundProfile, Outcomes
<1>4. ASSUME pc = "create", object' = [role |-> None, tags |-> desired.tags], op' = "create",
             Goto("lateInit"), id' = id, desired' = desired, latest' = latest, todo' = todo
      PROVE  Inv'
  <2>1. desired \in Content /\ id \in BOOLEAN /\ latest \in Content \cup {None}
        /\ todo \subseteq CallNames
    BY <1>1, <1>4 DEF SoundProfile, Sound, CommonTypes
  <2>2. object' \in Content
    BY <1>4, <2>1 DEF Content, Maybe
  <2>3. SoundProfile'
    BY <1>1, <1>4, <2>1, <2>2, GotoSound DEF SoundProfile, SharedPlaces
  <2> QED
    BY <1>2, <1>4, <2>3, QuietInv DEF Goto
<1>5. ASSUME pc = "lateInit", exists, Answered(object, "patch")
      PROVE  Inv'
  <2>1. SoundProfile' /\ UNCHANGED copies /\ pc' = "patch"
    <3>1. object \in Content \cup {None} /\ pc # "idle" /\ "patch" \in SharedPlaces
      BY <1>1, <1>5 DEF SoundProfile, Sound, CommonTypes, SharedPlaces
    <3> QED
      BY <1>1, <1>5, <3>1, AnsweredSound DEF SoundProfile
  <2>2. object' = object /\ drift' = drift /\ op' = op /\ desired' = desired /\ todo' = {}
    BY <1>2, <1>5, <2>1 DEF Answered, Goto, copies
  <2>3. SuccessMeansApplied'
    BY <1>5, <2>2 DEF Inv, SuccessMeansApplied, exists
  <2> QED
    BY <2>1, <2>2, <2>3 DEF Inv, Shape, OpInv, Progress, Updating
<1>6. ASSUME pc = "deleteProfile", Answered(None, "unmanage")
      PROVE  Inv'
  <2>1. SoundProfile' /\ UNCHANGED copies /\ pc' = "unmanage"
    BY <1>1, <1>6, AnsweredSound DEF SoundProfile, SharedPlaces
  <2> QED
    BY <1>2, <1>6, <2>1, QuietInv DEF copies
<1>7. CASE MarkManaged
  <2>1. SoundProfile' /\ ((pc' = "create" /\ UNCHANGED copies) \/ (pc' = "idle" /\ todo' = {}))
    BY <1>1, <1>7, MarkManagedSound DEF SoundProfile
  <2>2. pc = "manage"
    BY <1>7 DEF MarkManaged
  <2> QED
    BY <1>2, <2>1, <2>2, QuietInv DEF copies
<1>8. CASE PatchCR
  <2>1. cr.spec \in Content /\ {"Unsynced", "Synced"} \subseteq Outcomes
    BY <1>1 DEF SoundProfile, Sound, CommonTypes, Outcomes
  <2>2. SoundProfile' /\ pc' = "idle" /\ todo' = {}
    BY <1>1, <1>8, <2>1, PatchSound DEF SoundProfile, PatchCR
  <2> QED
    BY <2>2, QuietInv
<1>9. CASE MarkUnmanaged \/ Crash
  BY <1>1, <1>9, MarkUnmanagedSound, CrashSound, QuietInv DEF SoundProfile
<1>10. CASE CreateInstanceProfile
  BY <1>3, <1>4, <1>10 DEF CreateInstanceProfile
<1>11. CASE LateInitialize
  BY <1>3, <1>5, <1>11 DEF LateInitialize
<1>12. CASE DeleteInstanceProfile
  BY <1>3, <1>6, <1>12 DEF DeleteInstanceProfile
<1> QED
  BY <1>7, <1>8, <1>9, <1>10, <1>11, <1>12

\* What happens around a reconcile.
LEMMA AroundInv ==
  ASSUME Inv, Reconcile \/ Resync \/ EditSpec(Specs) \/ DeleteCR \/ Drift
  PROVE  Inv'
<1>1. SoundProfile /\ (pc # "update" => todo = {})
  BY DEF Inv, Shape
<1>2. CASE Reconcile
  <2>1. SoundProfile' /\ UNCHANGED <<todo, object>> /\ pc' \in {"idle", "read"}
    BY <1>1, <1>2, ReconcileSound DEF SoundProfile, Places
  <2>2. pc = "idle" /\ (pc' = "read" => op' # "create")
    BY <1>2 DEF Reconcile
  <2> QED
    BY <1>1, <2>1, <2>2 DEF Inv, Shape, OpInv, Progress, Updating, SuccessMeansApplied
<1>3. CASE Resync
  <2>1. SoundProfile'
    BY <1>1, <1>3, ResyncSound DEF SoundProfile
  <2>2. pc = "idle" /\ pc' = pc /\ todo' = todo
    BY <1>3 DEF Resync, copies
  <2> QED
    BY <1>1, <2>1, <2>2, QuietInv
<1>4. CASE EditSpec(Specs) \/ DeleteCR
  <2>1. SoundProfile' /\ UNCHANGED <<object, pc, copies, drift>>
    BY <1>1, <1>4, UserSound, InstanceProfileAssumption DEF SoundProfile
  <2>2. /\ object' = object /\ pc' = pc /\ drift' = drift
        /\ op' = op /\ desired' = desired /\ latest' = latest /\ todo' = todo
    BY <2>1 DEF copies
  <2>3. Shape' /\ OpInv' /\ SuccessMeansApplied'
    BY <2>1, <2>2 DEF Inv, Shape, OpInv, SuccessMeansApplied, exists
  <2>4. Progress'
    BY <2>2 DEF Inv, Progress, Updating, RoleProgress, TagProgress, ToAdd, ToRemove, exists
  <2> QED
    BY <2>3, <2>4 DEF Inv
<1>5. ASSUME NEW o \in Content \cup {None}, Drifts(o)
      PROVE  Inv'
  <2>1. SoundProfile' /\ drift' = TRUE /\ UNCHANGED <<pc, copies>>
    BY <1>1, <1>5, DriftsSound DEF SoundProfile
  <2>2. pc' = pc /\ op' = op /\ desired' = desired /\ latest' = latest /\ todo' = todo
    BY <2>1 DEF copies
  <2>3. Shape' /\ OpInv'
    BY <2>1, <2>2 DEF Inv, Shape, OpInv
  <2> QED
    BY <2>1, <2>3 DEF Inv, Progress, Updating, SuccessMeansApplied
<1>6. CASE Drift
  <2>1. ASSUME NEW r \in Maybe(Roles), exists, Drifts([object EXCEPT !.role = r])
        PROVE  Inv'
    <3>1. [object EXCEPT !.role = r] \in Content
      BY <1>1, <2>1 DEF SoundProfile, Sound, CommonTypes, exists, Content
    <3> QED
      BY <1>5, <2>1, <3>1
  <2>2. ASSUME NEW k \in SystemKeys, NEW v \in TagValues, exists,
               Drifts([object EXCEPT !.tags[k] = v])
        PROVE  Inv'
    <3>1. object \in Content
      BY <1>1, <2>2 DEF SoundProfile, Sound, CommonTypes, exists
    <3>2. [object.tags EXCEPT ![k] = v] \in [TagKeys -> Maybe(TagValues)]
      BY <3>1, InstanceProfileAssumption DEF Content, Maybe
    <3>3. [object EXCEPT !.tags[k] = v] \in Content
      BY <3>1, <3>2 DEF Content
    <3> QED
      BY <1>5, <2>2, <3>3
  <2> QED
    BY <1>5, <1>6, <2>1, <2>2 DEF Drift
<1> QED
  BY <1>2, <1>3, <1>4, <1>6

LEMMA InvInit ==
  ASSUME Init(Specs)
  PROVE  Inv
<1>1. SoundProfile
  BY InitSound, InstanceProfileAssumption DEF SoundProfile
<1> QED
  BY <1>1 DEF Init, Inv, Shape, OpInv, Progress, Updating, SuccessMeansApplied

LEMMA InvNext ==
  ASSUME Inv, [Next]_vars
  PROVE  Inv'
<1>1. CASE UNCHANGED vars
  <2>1. /\ cr' = cr /\ cond' = cond /\ queued' = queued /\ object' = object /\ pc' = pc
        /\ op' = op /\ id' = id /\ desired' = desired /\ latest' = latest /\ todo' = todo
        /\ drift' = drift /\ budget' = budget
    BY <1>1 DEF vars
  <2> QED
    BY <2>1 DEF Inv, Shape, SoundProfile, Sound, CommonTypes, OpInv, Progress, Updating,
                RoleProgress, TagProgress, ToAdd, ToRemove, SuccessMeansApplied, exists
<1> QED
  BY <1>1, ReadInv, RemoveTagsInv, AddTagsInv, DetachRoleInv, AttachRoleInv, OtherCallsInv, AroundInv
     DEF Next, Controller, Update, Environment

LEMMA Invariant == Spec => []Inv
<1> QED
  BY InvInit, InvNext, PTL DEF Spec

\* The variables keep their types, and there are calls left to make exactly while an
\* update, or an emptying, is under way (customUpdateInstanceProfile, sdkDelete).
THEOREM TypeCorrect == Spec => []TypeOK
<1>1. Inv => TypeOK
  BY DEF Inv, Shape, SoundProfile, Sound, TypeOK
<1> QED
  BY <1>1, Invariant, PTL

\* AddRoleToInstanceProfile never meets a profile with a role, unless others have put one
\* there since the reconcile began: syncRole detaches first.
THEOREM RoomKept == Spec => []RoomForRole
<1>1. Inv => RoomForRole
  <2> SUFFICES ASSUME Inv, pc = "update", Due("AddRoleToInstanceProfile"), exists, ~drift
               PROVE  object.role = None
    BY DEF RoomForRole
  <2>1. "AddRoleToInstanceProfile" \in todo /\ "RemoveRoleFromInstanceProfile" \notin todo
    BY DueCalls DEF CallNames
  <2>2. op = "sync"
    BY <2>1 DEF Inv, OpInv, Shape, SoundProfile, Sound, CommonTypes
  <2> QED
    BY <2>1, <2>2 DEF Inv, Progress, Updating, RoleProgress
<1> QED
  BY <1>1, Invariant, PTL

\* An update that comes to its end has made the profile what it desires: the role and,
\* because syncTags removes before it adds, each tag.
THEOREM AppliedOnSuccess == Spec => []SuccessMeansApplied
<1>1. Inv => SuccessMeansApplied
  BY DEF Inv
<1> QED
  BY <1>1, Invariant, PTL

-----------------------------------------------------------------------------
(* InstanceProfile implements Lifecycle.                                   *)

InvLife == Inv /\ LifeInv("deleteProfile")

LEMMA CallsLife ==
  ASSUME InvLife, GetInstanceProfile \/ CreateInstanceProfile \/ Update \/ LateInitialize \/ PatchCR
                  \/ DeleteInstanceProfile
  PROVE  LifeInv("deleteProfile")' /\ Mapped
<1>1. LifeInv("deleteProfile") /\ cr \in CRType(Content) /\ cr.spec \in Content
      /\ {"Unsynced", "Synced", "Recoverable"} \subseteq Outcomes /\ ByName
  BY InstanceProfileAssumption DEF InvLife, Inv, Shape, SoundProfile, Sound, CommonTypes, CRType,
                                   Outcomes
<1>2. ASSUME CallFails \/ Refused("Recoverable") \/ PatchCR
      PROVE  LifeInv("deleteProfile")' /\ Mapped
  <2>1. "deleteProfile" # "idle"
    OBVIOUS
  <2> QED
    BY <1>1, <1>2, <2>1, FinishLife DEF PatchCR
<1>3. ASSUME NEW calls, pc # "idle", Goto(After(calls)), UNCHANGED <<op, id>>, exists' = exists
      PROVE  LifeInv("deleteProfile")' /\ Mapped
  <2> DEFINE q == After(calls)
  <2>1. q \notin {"manage", "create", "unmanage"} /\ (q = "deleteProfile" => op = "delete")
    BY DEF After
  <2> HIDE DEF q
  <2>2. Goto(q)
    BY <1>3 DEF q
  <2> QED
    BY <1>1, <1>3, <2>1, <2>2, GoesOnLife
<1>4. CASE GetInstanceProfile
  <2>1. CASE NotFound /\ ~exists
    BY <1>1, <1>4, <2>1, NotFoundLife DEF GetInstanceProfile
  <2>2. CASE \E calls : Goto(After(calls)) /\ UNCHANGED <<object, op, id>>
    BY <1>3, <1>4, <2>2 DEF GetInstanceProfile, exists
  <2> QED
    BY <1>2, <1>4, <2>1, <2>2 DEF GetInstanceProfile
<1>5. CASE CreateInstanceProfile
  <2>1. CASE /\ object' = [role |-> None, tags |-> desired.tags] /\ op' = "create"
             /\ Goto("lateInit") /\ id' = id
    <3>1. desired \in Content /\ pc = "create"
      BY <1>5 DEF CreateInstanceProfile, InvLife, Inv, Shape, SoundProfile, Sound
    <3>2. object' \in Content
      BY <2>1, <3>1 DEF Content, Maybe
    <3>3. object' # None
      BY <3>2, InstanceProfileAssumption
    <3> QED
      BY <1>1, <2>1, <3>1, <3>3, CreateLife DEF exists
  <2> QED
    BY <1>2, <1>5, <2>1 DEF CreateInstanceProfile
<1>6. CASE Update
  <2>1. ASSUME NEW name, NEW o \in Content, exists, pc = "update", Done(name, o)
        PROVE  LifeInv("deleteProfile")' /\ Mapped
    <3>1. object' # None /\ exists /\ object' = o
      BY <2>1, InstanceProfileAssumption DEF Done
    <3> QED
      BY <1>3, <2>1, <3>1 DEF Done, exists
  <2>2. exists => object \in Content
    BY DEF exists, InvLife, Inv, Shape, SoundProfile, Sound, CommonTypes
  <2>3. pc = "update" => desired \in Content
    BY DEF InvLife, Inv, Shape, SoundProfile, Sound
  <2>4. pc = "update" /\ exists =>
           /\ [object EXCEPT !.tags = [k \in TagKeys |->
                 IF k \in ToRemove(desired, latest) THEN None ELSE object.tags[k]]] \in Content
           /\ [object EXCEPT !.tags = [k \in TagKeys |->
                 IF k \in ToAdd(desired, latest) THEN desired.tags[k] ELSE object.tags[k]]] \in Content
           /\ [object EXCEPT !.role = None] \in Content
           /\ [object EXCEPT !.role = desired.role] \in Content
    BY <2>2, <2>3 DEF Content, Maybe
  <2>5. pc = "update"
    BY <1>6 DEF Update, RemoveTags, AddTags, DetachRole, AttachRole
  <2> QED
    BY <1>2, <1>6, <2>1, <2>4, <2>5 DEF Update, RemoveTags, AddTags, DetachRole, AttachRole
<1>7. CASE LateInitialize
  <2>1. CASE Answered(object, "patch")
    <3>1. Goto("patch") /\ UNCHANGED <<op, id>> /\ exists' = exists /\ pc = "lateInit"
      BY <1>7, <2>1 DEF Answered, copies, exists, LateInitialize
    <3> QED
      BY <1>1, <3>1, GoesOnLife
  <2> QED
    BY <1>2, <1>7, <2>1 DEF LateInitialize
<1>8. CASE DeleteInstanceProfile
  <2>1. CASE exists /\ Answered(None, "unmanage")
    BY <1>1, <1>8, <2>1, DeleteLife DEF DeleteInstanceProfile
  <2> QED
    BY <1>2, <1>8, <2>1 DEF DeleteInstanceProfile
<1> QED
  BY <1>2, <1>4, <1>5, <1>6, <1>7, <1>8

LEMMA StepLife == InvLife /\ [Next]_vars => InvLife' /\ Mapped
<1> SUFFICES ASSUME InvLife, [Next]_vars
             PROVE  LifeInv("deleteProfile")' /\ Mapped
  BY InvNext DEF InvLife
<1>1. /\ LifeInv("deleteProfile") /\ cr \in CRType(Content) /\ cond \in Outcomes
      /\ cr.spec \in Content /\ ByName
      /\ "deleteProfile" \notin {"idle", "read", "create"}
  BY InstanceProfileAssumption DEF InvLife, Inv, Shape, SoundProfile, Sound, CommonTypes, CRType
<1>2. CASE Reconcile \/ Resync
  BY <1>1, <1>2, ReconcileLife
<1>3. CASE MarkManaged \/ MarkUnmanaged
  BY <1>1, <1>3, FinalizerLife
<1>4. CASE Crash
  BY <1>1, <1>4, FinishLife
<1>5. CASE EditSpec(Specs) \/ DeleteCR
  BY <1>1, <1>5, UserLife
<1>6. CASE Drift
  BY <1>1, <1>6, DriftsLife DEF Drift
<1>7. CASE UNCHANGED vars
  <2>1. /\ cr' = cr /\ pc' = pc /\ id' = id /\ op' = op /\ object' = object
    BY <1>7 DEF vars
  <2> QED
    BY <1>1, <2>1 DEF LifeInv, Mapped, LifeVars, known, exists
<1> QED
  BY <1>2, <1>3, <1>4, <1>5, <1>6, <1>7, CallsLife DEF Next, Controller, Environment

\* The detailed manager implements the abstract life cycle: a profile is created only for a CR
\* with the finalizer, which goes only after the profile.
THEOREM ProfileImplementsLifecycle == Spec => ImplementsLifecycle
<1>1. Init(Specs) => InvLife /\ L!Init
  BY InvInit, InitLife, InstanceProfileAssumption DEF InvLife
<1>2. InvLife /\ [Next]_vars => InvLife' /\ [L!Next]_(L!vars)
  BY StepLife DEF Mapped, LifeVars, L!vars
<1> QED
  BY <1>1, <1>2, PTL DEF Spec, ImplementsLifecycle, L!Spec
=============================================================================
