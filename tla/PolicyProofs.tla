---------------------------- MODULE PolicyProofs ----------------------------
(***************************************************************************)
(* Proofs about Policy for all specs, documents, tags and descriptions,    *)
(* every limit from two on and every budget: its types, the limit of the   *)
(* versions included; that there is room for the version an update makes;  *)
(* that history is given up only for that; that success means that         *)
(* everything was applied; and that Policy implements Lifecycle.           *)
(***************************************************************************)
EXTENDS Policy, FiniteSetTheorems, TLAPS

\* The types of what Kubernetes and the reconcile hold ...
FlowOK ==
    /\ cr \in [here : BOOLEAN, deleting : BOOLEAN, managed : BOOLEAN, arn : BOOLEAN, spec : Content]
    /\ cond \in {"None", "Synced", "Recoverable", "Terminal"}
    /\ queued \in BOOLEAN /\ arn \in BOOLEAN /\ drift \in BOOLEAN
    /\ pc \in Places
    /\ op \in {"sync", "delete"}
    /\ desired \in Content /\ latest \in Content
    /\ seen \subseteq Version
    /\ budget \in [Misfortunes -> Nat]
    /\ pc \in {"delete", "deleteVersions"} => op = "delete"

\* ... and of what IAM holds.
IamOK ==
    /\ exists \in BOOLEAN
    /\ versions \subseteq Version /\ IsFiniteSet(versions) /\ Cardinality(versions) <= Limit
    /\ \A v \in versions : v.id < nextId
    /\ \A v, w \in versions : v.id = w.id => v = w
    /\ exists => \E v \in versions : v.id = default
    /\ ~exists => versions = {}
    /\ nextId \in Nat
    /\ attrs \in [tags : [TagKeys -> TagValues \cup {None}], desc : Descriptions \cup {None}]
    /\ IF exists THEN attrs.desc # None ELSE attrs = Absent

DefaultIs(doc) == \A v \in DefaultVersion : v.doc = doc

\* How far an update that nobody disturbs has come: first the tags, then the document.
TagProgress ==
    /\ pc \in {"getVersion", "untag"} => attrs.tags = latest.tags
    /\ pc = "tag" => attrs.tags = [k \in TagKeys |->
                         IF k \in ToRemove(desired, latest) THEN None ELSE latest.tags[k]]
    /\ pc \in {"listVersions", "makeRoom", "createVersion", "lateInit", "patch"} =>
           attrs.tags = desired.tags

VersionProgress ==
    /\ pc = "getVersion" => seen = DefaultVersion
    /\ pc \in {"untag", "tag"} => DefaultIs(latest.doc)
    /\ pc = "makeRoom" => seen = versions \ DefaultVersion /\ Cardinality(versions) = Limit
    /\ pc = "createVersion" => Cardinality(versions) < Limit
    /\ pc \in {"lateInit", "patch"} => DefaultIs(desired.doc)

UpdatePlaces ==
    {"getVersion", "untag", "tag", "listVersions", "makeRoom", "createVersion", "lateInit", "patch"}

Progress ==
    ~drift /\ pc \in UpdatePlaces => exists /\ TagProgress /\ VersionProgress

Inv == FlowOK /\ IamOK /\ Progress

-----------------------------------------------------------------------------
LEMMA UnreadType == Unread \in Content
  BY ConstantsAssumption DEF Unread

\* A reconcile that is over: what it leaves in IAM is all that matters.
LEMMA EndInv ==
  ASSUME Inv, IamOK', Idle,
         cr' \in [here : BOOLEAN, deleting : BOOLEAN, managed : BOOLEAN, arn : BOOLEAN, spec : Content],
         cond' \in {"None", "Synced", "Recoverable", "Terminal"}, queued' \in BOOLEAN,
         budget' \in [Misfortunes -> Nat]
  PROVE  Inv'
<1>1. /\ pc' = "idle" /\ op' = "sync" /\ arn' = FALSE /\ desired' = Unread /\ latest' = Unread
      /\ seen' = {} /\ drift' = drift
  BY DEF Idle
<1>2. FlowOK'
  BY <1>1, UnreadType DEF Inv, FlowOK, Places
<1>3. Progress'
  BY <1>1 DEF Progress, UpdatePlaces
<1> QED
  BY <1>2, <1>3 DEF Inv

LEMMA IamSame ==
  ASSUME IamOK, UNCHANGED iamVars
  PROVE  IamOK'
<1>1. exists' = exists /\ versions' = versions /\ default' = default /\ nextId' = nextId
      /\ attrs' = attrs
  BY DEF iamVars
<1> QED
  BY <1>1 DEF IamOK

LEMMA SpendType ==
  ASSUME Inv, NEW w \in Misfortunes, Spend(w)
  PROVE  budget' \in [Misfortunes -> Nat]
  BY DEF Inv, FlowOK, Spend

LEMMA FinishInv ==
  ASSUME Inv, NEW o \in {"None", "Synced", "Recoverable", "Terminal"}, Finish(o),
         UNCHANGED iamVars, budget' \in [Misfortunes -> Nat]
  PROVE  Inv'
<1>1. cr' \in [here : BOOLEAN, deleting : BOOLEAN, managed : BOOLEAN, arn : BOOLEAN, spec : Content]
  BY DEF Inv, FlowOK, Finish
<1>2. cond' = o /\ queued' \in BOOLEAN /\ Idle
  BY DEF Inv, FlowOK, Finish
<1>3. IamOK'
  BY IamSame DEF Inv
<1> QED
  BY <1>1, <1>2, <1>3, EndInv

\* The ways in which a call does not come off.
LEMMA FailedInv ==
  ASSUME Inv,
         \/ CallFails
         \/ \E gone \in BOOLEAN : Vanished(gone)
         \/ Finish("Recoverable") /\ UNCHANGED <<iamVars, budget>>
         \/ Finish("Terminal") /\ UNCHANGED <<iamVars, budget>>
  PROVE  Inv'
<1>1. budget \in [Misfortunes -> Nat] /\ "fault" \in Misfortunes
  BY DEF Inv, FlowOK, Misfortunes
<1>2. CASE CallFails
  <2>1. budget' \in [Misfortunes -> Nat]
    BY <1>1, <1>2, SpendType DEF CallFails
  <2> QED
    BY <1>2, <2>1, FinishInv DEF CallFails
<1>3. ASSUME NEW o \in {"Recoverable", "Terminal"}, Finish(o), UNCHANGED <<iamVars, budget>>
      PROVE  Inv'
  <2>1. UNCHANGED iamVars /\ budget' = budget
    BY <1>3
  <2> QED
    BY <1>1, <1>3, <2>1, FinishInv
<1> QED
  BY <1>2, <1>3 DEF Vanished

\* A step between two calls.
LEMMA GotoOK ==
  ASSUME FlowOK, NEW q \in Places, Goto(q), op' \in {"sync", "delete"}, arn' \in BOOLEAN,
         desired' \in Content, latest' \in Content, seen' \subseteq Version,
         q \in {"delete", "deleteVersions"} => op' = "delete"
  PROVE  FlowOK'
  BY DEF FlowOK, Goto

LEMMA FlowTypes ==
  ASSUME FlowOK
  PROVE  op \in {"sync", "delete"} /\ arn \in BOOLEAN /\ desired \in Content /\ latest \in Content
         /\ seen \subseteq Version
  BY DEF FlowOK

\* A step that goes on with the same copies.
LEMMA GoesOnOK ==
  ASSUME FlowOK, NEW q \in Places, q \notin {"delete", "deleteVersions"}, Goto(q),
         UNCHANGED copies
  PROVE  /\ FlowOK' /\ pc' = q /\ drift' = drift
         /\ op' = op /\ desired' = desired /\ latest' = latest /\ seen' = seen
<1>1. op' = op /\ arn' = arn /\ desired' = desired /\ latest' = latest /\ seen' = seen
  BY DEF copies
<1>2. FlowOK'
  BY <1>1, FlowTypes, GotoOK
<1> QED
  BY <1>1, <1>2 DEF Goto

LEMMA ContentTypes ==
  ASSUME NEW s \in Content
  PROVE  s.doc \in Docs /\ s.tags \in [TagKeys -> TagValues \cup {None}] /\ s.desc \in Descriptions
  BY DEF Content

LEMMA AttrsType ==
  ASSUME IamOK
  PROVE  attrs.tags \in [TagKeys -> TagValues \cup {None}]
         /\ (exists => attrs.desc \in Descriptions)
  BY DEF IamOK

-----------------------------------------------------------------------------
(* ReadOne.                                                                *)

LEMMA NotFoundInv ==
  ASSUME Inv, pc = "getPolicy", NotFound
  PROVE  Inv'
<1> DEFINE q == IF op = "delete" THEN "unmanage" ELSE "manage"
<1>1. q \in Places /\ q \notin {"delete", "deleteVersions"} \cup UpdatePlaces /\ Goto(q)
      /\ UNCHANGED iamVars /\ UNCHANGED copies
  BY DEF Places, UpdatePlaces, NotFound
<1> HIDE DEF q
<1>2. FlowOK' /\ pc' = q
  BY <1>1, GoesOnOK DEF Inv
<1>3. IamOK'
  BY <1>1, IamSame DEF Inv
<1> QED
  BY <1>1, <1>2, <1>3 DEF Inv, Progress

LEMMA GetPolicyInv ==
  ASSUME Inv, GetPolicy
  PROVE  Inv'
<1>1. pc = "getPolicy" /\ FlowOK /\ IamOK
  BY DEF GetPolicy, Inv
<1>2. ASSUME exists, latest' = [latest EXCEPT !.tags = attrs.tags, !.desc = attrs.desc],
             seen' = DefaultVersion, Goto("getVersion"), UNCHANGED <<iamVars, op, arn, desired>>
      PROVE  Inv'
  <2>1. attrs.tags \in [TagKeys -> TagValues \cup {None}] /\ attrs.desc \in Descriptions
    BY <1>1, <1>2, AttrsType
  <2>2. latest' \in Content /\ latest'.tags = attrs.tags
    BY <1>1, <1>2, <2>1 DEF FlowOK, Content
  <2>3. DefaultVersion \subseteq Version
    BY <1>1 DEF IamOK, DefaultVersion
  <2>4. /\ op' = op /\ arn' = arn /\ desired' = desired /\ exists' = exists /\ versions' = versions
        /\ default' = default /\ attrs' = attrs /\ pc' = "getVersion" /\ UNCHANGED iamVars
    BY <1>2 DEF iamVars, Goto
  <2>5. FlowOK'
    BY <1>1, <1>2, <2>2, <2>3, <2>4, FlowTypes, GotoOK DEF Places
  <2>6. IamOK'
    BY <1>1, <2>4, IamSame
  <2>7. TagProgress' /\ VersionProgress'
    BY <1>2, <2>2, <2>4 DEF TagProgress, VersionProgress, DefaultVersion
  <2> QED
    BY <1>2, <2>4, <2>5, <2>6, <2>7 DEF Inv, Progress
<1> QED
  BY <1>1, <1>2, NotFoundInv, FailedInv DEF GetPolicy

\* What the order of the calls leaves to be done when the others are skipped.
LEMMA SkippedTags ==
  ASSUME NEW d \in Content, NEW l \in Content
  PROVE  /\ ToRemove(d, l) = {} => l.tags = [k \in TagKeys |->
                                       IF k \in ToRemove(d, l) THEN None ELSE l.tags[k]]
         /\ ToAdd(d, l) = {} => d.tags = [k \in TagKeys |->
                                       IF k \in ToRemove(d, l) THEN None ELSE l.tags[k]]
<1>1. d.tags \in [TagKeys -> TagValues \cup {None}] /\ l.tags \in [TagKeys -> TagValues \cup {None}]
  BY ContentTypes
<1>2. ASSUME ToRemove(d, l) = {}
      PROVE  l.tags = [k \in TagKeys |-> IF k \in ToRemove(d, l) THEN None ELSE l.tags[k]]
  BY <1>1, <1>2
<1>3. ASSUME ToAdd(d, l) = {}
      PROVE  d.tags = [k \in TagKeys |-> IF k \in ToRemove(d, l) THEN None ELSE l.tags[k]]
  <2>1. \A k \in TagKeys : d.tags[k] \in {None, l.tags[k]}
    BY <1>3 DEF ToAdd
  <2>2. \A k \in TagKeys : d.tags[k] = IF k \in ToRemove(d, l) THEN None ELSE l.tags[k]
    BY <2>1 DEF ToRemove
  <2> QED
    BY <1>1, <2>2
<1> QED
  BY <1>2, <1>3

\* Where an update goes on, when the policy is as far as that.
LEMMA NextCall ==
  ASSUME NEW d \in Content, NEW l \in Content
  PROVE  /\ AfterTags(d, l) \in {"listVersions", "lateInit"}
         /\ AfterTags(d, l) = "lateInit" => d.doc = l.doc
         /\ AfterRemoval(d, l) \in {"tag", "listVersions", "lateInit"}
         /\ AfterRemoval(d, l) = "lateInit" => d.doc = l.doc
         /\ AfterRemoval(d, l) # "tag" => ToAdd(d, l) = {}
         /\ AfterRead(d, l) \in {"untag", "tag", "listVersions", "lateInit"}
         /\ AfterRead(d, l) = "lateInit" => d.doc = l.doc
         /\ AfterRead(d, l) # "untag" => ToRemove(d, l) = {}
         /\ AfterRead(d, l) \notin {"untag", "tag"} => ToAdd(d, l) = {}
  BY DEF AfterTags, AfterRemoval, AfterRead

LEMMA GetPolicyVersionInv ==
  ASSUME Inv, GetPolicyVersion
  PROVE  Inv'
<1>1. pc = "getVersion" /\ FlowOK /\ IamOK
  BY DEF GetPolicyVersion, Inv
<1>2. ASSUME NEW v \in seen, v \in versions, latest' = [latest EXCEPT !.doc = v.doc], seen' = {},
             Goto(IF op = "delete" THEN "delete" ELSE AfterRead(desired, latest')),
             UNCHANGED <<iamVars, op, arn, desired>>
      PROVE  Inv'
  <2> DEFINE q == IF op = "delete" THEN "delete" ELSE AfterRead(desired, latest')
  <2>1. /\ op' = op /\ arn' = arn /\ desired' = desired /\ exists' = exists /\ versions' = versions
        /\ default' = default /\ attrs' = attrs /\ pc' = q /\ UNCHANGED iamVars /\ drift' = drift
    BY <1>2 DEF iamVars, Goto
  <2>2. v.doc \in Docs
    BY <1>1, <1>2 DEF IamOK, Version
  <2>3. latest' \in Content /\ latest'.tags = latest.tags /\ latest'.doc = v.doc
        /\ desired \in Content
    BY <1>1, <1>2, <2>2 DEF FlowOK, Content
  <2>4. q = "delete" \/ q = AfterRead(desired, latest')
    OBVIOUS
  <2>5. /\ q \in Places /\ q \notin {"deleteVersions", "getVersion", "makeRoom", "createVersion"}
        /\ q = "delete" => op = "delete"
    BY <2>3, <2>4, NextCall DEF Places
  <2> HIDE DEF q
  <2>6. FlowOK'
    <3>1. Goto(q)
      BY <1>2 DEF q
    <3> QED
      BY <1>1, <1>2, <2>1, <2>3, <2>5, <3>1, FlowTypes, GotoOK
  <2>7. IamOK'
    BY <1>1, <2>1, IamSame
  <2>8. ASSUME ~drift, q # "delete"
        PROVE  exists /\ TagProgress' /\ VersionProgress'
    <3>1. exists /\ attrs.tags = latest.tags /\ seen = DefaultVersion
      BY <1>1, <2>8 DEF Inv, Progress, UpdatePlaces, TagProgress, VersionProgress
    <3>2. DefaultVersion' = DefaultVersion /\ \A w \in DefaultVersion : w = v
      BY <1>1, <1>2, <2>1, <3>1 DEF IamOK, DefaultVersion
    <3>3. VersionProgress'
      BY <2>1, <2>3, <2>4, <2>5, <2>8, <3>2, NextCall DEF VersionProgress, DefaultIs
    <3>4. q = AfterRead(desired, latest')
      BY <2>4, <2>8
    <3>5. /\ q = "untag" => attrs'.tags = latest'.tags
          /\ q = "tag" => attrs'.tags = [k \in TagKeys |->
                             IF k \in ToRemove(desired', latest') THEN None ELSE latest'.tags[k]]
          /\ q \in {"listVersions", "lateInit"} => attrs'.tags = desired'.tags
      BY <2>1, <2>3, <3>1, <3>4, NextCall, SkippedTags
    <3>6. TagProgress'
      BY <2>1, <2>5, <2>3, <3>4, <3>5, NextCall DEF TagProgress, ToRemove
    <3> QED
      BY <3>1, <3>3, <3>6
  <2>9. q = "delete" => q \notin UpdatePlaces
    BY DEF UpdatePlaces
  <2> QED
    BY <2>1, <2>6, <2>7, <2>8, <2>9 DEF Inv, Progress
<1> QED
  BY <1>2, FailedInv DEF GetPolicyVersion

-----------------------------------------------------------------------------
(* Create and Update.                                                      *)

LEMMA MarkManagedInv ==
  ASSUME Inv, MarkManaged
  PROVE  Inv'
<1>1. CASE cr.here
  <2>1. /\ cr' = [cr EXCEPT !.managed = TRUE] /\ pc' = "create" /\ cond' = cond /\ queued' = queued
        /\ drift' = drift /\ budget' = budget /\ op' = op /\ arn' = arn /\ desired' = desired
        /\ latest' = latest /\ seen' = seen /\ UNCHANGED iamVars
    BY <1>1 DEF MarkManaged, copies
  <2>2. FlowOK'
    BY <2>1 DEF Inv, FlowOK, Places
  <2>3. IamOK'
    BY <2>1, IamSame DEF Inv
  <2> QED
    BY <2>1, <2>2, <2>3 DEF Inv, Progress, UpdatePlaces
<1>2. CASE ~cr.here
  <2>1. Finish(cond) /\ UNCHANGED iamVars /\ budget' = budget
    BY <1>2 DEF MarkManaged
  <2>2. cond \in {"None", "Synced", "Recoverable", "Terminal"} /\ budget \in [Misfortunes -> Nat]
    BY DEF Inv, FlowOK
  <2> QED
    BY <2>1, <2>2, FinishInv
<1> QED
  BY <1>1, <1>2

LEMMA CreatePolicyInv ==
  ASSUME Inv, CreatePolicy
  PROVE  Inv'
<1>1. pc = "create" /\ FlowOK /\ IamOK
  BY DEF CreatePolicy, Inv
<1>2. ASSUME exists' = TRUE, versions' = {[id |-> 1, doc |-> desired.doc]}, default' = 1, nextId' = 2,
             attrs' = [tags |-> desired.tags, desc |-> desired.desc], arn' = TRUE, Goto("lateInit"),
             UNCHANGED <<op, desired, latest, seen>>
      PROVE  Inv'
  <2>1. desired.doc \in Docs /\ desired.tags \in [TagKeys -> TagValues \cup {None}]
        /\ desired.desc \in Descriptions
    BY <1>1, FlowTypes, ContentTypes
  <2>2. IsFiniteSet(versions') /\ Cardinality(versions') = 1
    BY <1>2, FS_Singleton
  <2>3. IamOK'
    BY <1>2, <2>1, <2>2, ConstantsAssumption DEF IamOK, Version
  <2>4. FlowOK'
    BY <1>1, <1>2, FlowTypes, GotoOK DEF Places
  <2>5. pc' = "lateInit" /\ desired' = desired
    BY <1>2 DEF Goto
  <2>6. TagProgress' /\ VersionProgress'
    BY <1>2, <2>5 DEF TagProgress, VersionProgress, DefaultIs, DefaultVersion
  <2> QED
    BY <1>2, <2>3, <2>4, <2>6 DEF Inv, Progress
<1>3. CASE \/ Finish("Recoverable") /\ UNCHANGED <<iamVars, budget>>
           \/ Finish("Terminal") /\ UNCHANGED <<iamVars, budget>>
           \/ CallFails
  BY <1>3, FailedInv
<1> QED
  BY <1>2, <1>3 DEF CreatePolicy

\* A call on the tags is answered.
LEMMA TagCallInv ==
  ASSUME Inv, exists, NEW t \in [TagKeys -> TagValues \cup {None}],
         attrs' = [attrs EXCEPT !.tags = t], pc \in {"untag", "tag"},
         NEW q \in {"tag", "listVersions", "lateInit"}, Goto(q),
         UNCHANGED <<exists, versions, default, nextId, copies>>,
         q = "lateInit" => desired.doc = latest.doc,
         ~drift => /\ q = "tag" => t = [k \in TagKeys |->
                             IF k \in ToRemove(desired, latest) THEN None ELSE latest.tags[k]]
                   /\ q # "tag" => t = desired.tags
  PROVE  Inv'
<1>1. FlowOK /\ IamOK
  BY DEF Inv
<1>2. FlowOK' /\ pc' = q /\ drift' = drift /\ op' = op /\ desired' = desired /\ latest' = latest
      /\ seen' = seen
  BY <1>1, GoesOnOK DEF Places
<1>3. attrs'.tags = t /\ attrs'.desc = attrs.desc
      /\ attrs' \in [tags : [TagKeys -> TagValues \cup {None}], desc : Descriptions \cup {None}]
  BY <1>1 DEF IamOK
<1>4. exists' = exists /\ versions' = versions /\ default' = default /\ nextId' = nextId
  OBVIOUS
<1>5. IamOK'
  BY <1>1, <1>3, <1>4 DEF IamOK
<1>6. ASSUME ~drift
      PROVE  TagProgress' /\ VersionProgress'
  <2>1. DefaultIs(latest.doc)
    BY <1>6 DEF Inv, Progress, UpdatePlaces, VersionProgress
  <2>2. TagProgress'
    BY <1>2, <1>3, <1>6 DEF TagProgress, ToRemove
  <2>3. VersionProgress'
    BY <1>2, <1>4, <2>1 DEF VersionProgress, DefaultIs, DefaultVersion
  <2> QED
    BY <2>2, <2>3
<1> QED
  BY <1>2, <1>4, <1>5, <1>6 DEF Inv, Progress

LEMMA UntagPolicyInv ==
  ASSUME Inv, UntagPolicy
  PROVE  Inv'
<1> DEFINE t == [k \in TagKeys |->
                    IF k \in ToRemove(desired, latest) THEN None ELSE attrs.tags[k]]
<1>1. pc = "untag" /\ FlowOK /\ IamOK
  BY DEF UntagPolicy, Inv
<1>2. CASE exists /\ attrs' = [attrs EXCEPT !.tags = t] /\ Goto(AfterRemoval(desired, latest))
           /\ UNCHANGED <<exists, versions, default, nextId, copies>>
  <2>1. desired \in Content /\ latest \in Content
    BY <1>1, FlowTypes
  <2>2. t \in [TagKeys -> TagValues \cup {None}]
    BY <1>1, AttrsType
  <2>3. ~drift => t = [k \in TagKeys |->
                          IF k \in ToRemove(desired, latest) THEN None ELSE latest.tags[k]]
    BY <1>1 DEF Inv, Progress, UpdatePlaces, TagProgress
  <2>4. ToAdd(desired, latest) = {} /\ ~drift => t = desired.tags
    BY <2>1, <2>3, SkippedTags
  <2> HIDE DEF t
  <2> QED
    BY <1>1, <1>2, <2>1, <2>2, <2>3, <2>4, NextCall, TagCallInv
<1> QED
  BY <1>2, FailedInv DEF UntagPolicy

LEMMA TagPolicyInv ==
  ASSUME Inv, TagPolicy
  PROVE  Inv'
<1> DEFINE t == [k \in TagKeys |->
                    IF k \in ToAdd(desired, latest) THEN desired.tags[k] ELSE attrs.tags[k]]
<1>1. pc = "tag" /\ FlowOK /\ IamOK
  BY DEF TagPolicy, Inv
<1>2. CASE exists /\ attrs' = [attrs EXCEPT !.tags = t] /\ Goto(AfterTags(desired, latest))
           /\ UNCHANGED <<exists, versions, default, nextId, copies>>
  <2>1. desired \in Content /\ latest \in Content
    BY <1>1, FlowTypes
  <2>2. t \in [TagKeys -> TagValues \cup {None}]
    BY <1>1, <2>1, AttrsType, ContentTypes
  <2>3. ASSUME ~drift
        PROVE  t = desired.tags
    <3>1. attrs.tags = [k \in TagKeys |->
                           IF k \in ToRemove(desired, latest) THEN None ELSE latest.tags[k]]
      BY <1>1, <2>3 DEF Inv, Progress, UpdatePlaces, TagProgress
    <3>2. \A k \in TagKeys : t[k] = desired.tags[k]
      BY <3>1 DEF ToAdd, ToRemove
    <3> QED
      BY <2>1, <2>2, <3>2, ContentTypes
  <2> HIDE DEF t
  <2> QED
    BY <1>1, <1>2, <2>1, <2>2, <2>3, NextCall, TagCallInv
<1> QED
  BY <1>2, FailedInv DEF TagPolicy

LEMMA ListVersionsInv ==
  ASSUME Inv, ListPolicyVersions
  PROVE  Inv'
<1>1. pc = "listVersions" /\ FlowOK /\ IamOK
  BY DEF ListPolicyVersions, Inv
<1>2. ASSUME exists, seen' = versions \ DefaultVersion,
             Goto(IF LimitReached(versions) THEN "makeRoom" ELSE "createVersion"),
             UNCHANGED <<iamVars, op, arn, desired, latest>>
      PROVE  Inv'
  <2>1. /\ op' = op /\ arn' = arn /\ desired' = desired /\ latest' = latest /\ exists' = exists
        /\ versions' = versions /\ default' = default /\ attrs' = attrs /\ drift' = drift
        /\ UNCHANGED iamVars
        /\ pc' = IF LimitReached(versions) THEN "makeRoom" ELSE "createVersion"
    BY <1>2 DEF iamVars, Goto
  <2>2. seen' \subseteq Version
    BY <1>1, <1>2 DEF IamOK
  <2>3. FlowOK'
    BY <1>1, <1>2, <2>1, <2>2, FlowTypes, GotoOK DEF Places
  <2>4. IamOK'
    BY <1>1, <2>1, IamSame
  <2>5. Cardinality(versions) \in Nat /\ Cardinality(versions) <= Limit /\ Limit \in Nat
    BY <1>1, ConstantsAssumption, FS_CardinalityType DEF IamOK
  <2>6. ~drift => TagProgress'
    BY <1>1, <2>1 DEF Inv, Progress, UpdatePlaces, TagProgress
  <2>7. VersionProgress'
    BY <1>2, <2>1, <2>5 DEF VersionProgress, LimitReached, DefaultVersion
  <2> QED
    BY <1>2, <2>1, <2>3, <2>4, <2>6, <2>7 DEF Inv, Progress
<1> QED
  BY <1>2, FailedInv DEF ListPolicyVersions

\* A version that is not the default one is deleted.
LEMMA DeleteVersionOK ==
  ASSUME Inv, NEW v \in seen, NEW q \in Places, v \in versions, v.id # default,
         versions' = versions \ {v}, seen' = seen \ {v}, Goto(q),
         q \in {"delete", "deleteVersions"} => op = "delete",
         UNCHANGED <<exists, default, nextId, attrs, op, arn, desired, latest>>
  PROVE  FlowOK' /\ IamOK' /\ Cardinality(versions') < Limit
<1>1. FlowOK /\ IamOK
  BY DEF Inv
<1>2. FlowOK'
  BY <1>1, FlowTypes, GotoOK
<1>3. IsFiniteSet(versions') /\ Cardinality(versions') = Cardinality(versions) - 1
  BY <1>1, FS_RemoveElement DEF IamOK
<1>4. Cardinality(versions) \in Nat /\ Cardinality(versions) <= Limit /\ Limit \in Nat
  BY <1>1, ConstantsAssumption, FS_CardinalityType DEF IamOK
<1>5. exists' = exists /\ default' = default /\ nextId' = nextId /\ attrs' = attrs
  OBVIOUS
<1>6. exists => \E w \in versions' : w.id = default
  BY <1>1 DEF IamOK
<1>7. /\ exists \in BOOLEAN
      /\ versions' \subseteq Version
      /\ \A w \in versions' : w.id < nextId
      /\ \A w, u \in versions' : w.id = u.id => w = u
      /\ ~exists => versions' = {}
  BY <1>1 DEF IamOK
<1>8. /\ nextId \in Nat
      /\ attrs \in [tags : [TagKeys -> TagValues \cup {None}], desc : Descriptions \cup {None}]
      /\ IF exists THEN attrs.desc # None ELSE attrs = Absent
  BY <1>1 DEF IamOK
<1>9. IamOK'
  BY <1>3, <1>4, <1>5, <1>6, <1>7, <1>8 DEF IamOK
<1> QED
  BY <1>2, <1>3, <1>4, <1>9

LEMMA MakeRoomInv ==
  ASSUME Inv, EnsureVersionsLimitNotExceeded
  PROVE  Inv'
<1>1. PICK v \in seen : DeleteVersion(v, "createVersion")
  BY DEF EnsureVersionsLimitNotExceeded, Oldest
<1>2. pc = "makeRoom" /\ "createVersion" \in Places
  BY DEF EnsureVersionsLimitNotExceeded, Places
<1>3. CASE /\ v \in versions /\ v.id # default
           /\ versions' = versions \ {v} /\ seen' = seen \ {v} /\ Goto("createVersion")
           /\ UNCHANGED <<exists, default, nextId, attrs, op, arn, desired, latest>>
  <2>1. FlowOK' /\ IamOK' /\ Cardinality(versions') < Limit
    BY <1>2, <1>3, DeleteVersionOK
  <2>2. /\ pc' = "createVersion" /\ drift' = drift /\ exists' = exists /\ attrs' = attrs
        /\ desired' = desired
    BY <1>3 DEF Goto
  <2>3. ~drift => exists' /\ TagProgress' /\ VersionProgress'
    BY <1>2, <2>1, <2>2 DEF Inv, Progress, UpdatePlaces, TagProgress, VersionProgress
  <2> QED
    BY <2>1, <2>2, <2>3 DEF Inv, Progress
<1> QED
  BY <1>1, <1>3, FailedInv DEF DeleteVersion

\* There is one more version, with the next id.
LEMMA MoreVersions ==
  ASSUME IamOK, exists, NEW doc \in Docs, Cardinality(versions) < Limit,
         versions' = versions \cup {[id |-> nextId, doc |-> doc]}, nextId' = nextId + 1,
         default' \in {default, nextId}, UNCHANGED <<exists, attrs>>
  PROVE  IamOK'
<1> DEFINE new == [id |-> nextId, doc |-> doc]
<1>1. new \notin versions /\ new \in Version /\ new.id = nextId
  BY DEF IamOK, Version
<1>2. IsFiniteSet(versions') /\ Cardinality(versions') = Cardinality(versions) + 1
  BY <1>1, FS_AddElement DEF IamOK
<1>3. Cardinality(versions') <= Limit
  <2>1. Cardinality(versions) \in Nat /\ Limit \in Nat
    BY ConstantsAssumption, FS_CardinalityType DEF IamOK
  <2> QED
    BY <1>2, <2>1
<1>4. versions' = versions \cup {new} /\ exists' = exists /\ attrs' = attrs
  OBVIOUS
<1> HIDE DEF new
<1>5. \A v \in versions' : v \in Version /\ v.id < nextId'
  BY <1>1, <1>4 DEF IamOK, Version
<1>6. \A v, w \in versions' : v.id = w.id => v = w
  BY <1>1, <1>4 DEF IamOK, Version
<1>7. \E v \in versions' : v.id = default'
  BY <1>1, <1>4 DEF IamOK
<1> QED
  BY <1>2, <1>3, <1>4, <1>5, <1>6, <1>7 DEF IamOK

LEMMA CreateVersionInv ==
  ASSUME Inv, CreatePolicyVersion
  PROVE  Inv'
<1>1. pc = "createVersion" /\ FlowOK /\ IamOK
  BY DEF CreatePolicyVersion, Inv
<1>2. ASSUME exists, Cardinality(versions) < Limit, desired.doc \notin BadDocs,
             versions' = versions \cup {[id |-> nextId, doc |-> desired.doc]},
             default' = nextId, nextId' = nextId + 1, Goto("lateInit"),
             UNCHANGED <<exists, attrs, copies>>
      PROVE  Inv'
  <2>1. FlowOK' /\ pc' = "lateInit" /\ drift' = drift /\ desired' = desired
    BY <1>1, <1>2, GoesOnOK DEF Places
  <2>2. IamOK'
    BY <1>1, <1>2, FlowTypes, ContentTypes, MoreVersions
  <2>3. \A v \in versions : v.id # nextId
    BY <1>1 DEF IamOK, Version
  <2>4. VersionProgress'
    BY <1>2, <2>1, <2>3 DEF VersionProgress, DefaultIs, DefaultVersion
  <2>5. ~drift => TagProgress' /\ exists'
    BY <1>1, <1>2, <2>1 DEF Inv, Progress, UpdatePlaces, TagProgress
  <2> QED
    BY <2>1, <2>2, <2>4, <2>5 DEF Inv, Progress
<1> QED
  BY <1>2, FailedInv DEF CreatePolicyVersion

LEMMA LateInitializeInv ==
  ASSUME Inv, LateInitialize
  PROVE  Inv'
<1>1. pc = "lateInit" /\ FlowOK /\ IamOK
  BY DEF LateInitialize, Inv
<1>2. ASSUME exists, Goto("patch"), UNCHANGED <<iamVars, copies>>
      PROVE  Inv'
  <2>1. FlowOK' /\ pc' = "patch" /\ drift' = drift /\ desired' = desired
    BY <1>1, <1>2, GoesOnOK DEF Places
  <2>2. exists' = exists /\ versions' = versions /\ default' = default /\ attrs' = attrs
    BY <1>2 DEF iamVars
  <2>3. IamOK'
    BY <1>1, <1>2, IamSame
  <2>4. ~drift => TagProgress' /\ VersionProgress'
    BY <1>1, <2>1, <2>2 DEF Inv, Progress, UpdatePlaces, TagProgress, VersionProgress, DefaultIs,
                            DefaultVersion
  <2> QED
    BY <1>2, <2>1, <2>2, <2>3, <2>4 DEF Inv, Progress
<1> QED
  BY <1>2, FailedInv DEF LateInitialize

LEMMA PatchInv ==
  ASSUME Inv, Patch
  PROVE  Inv'
<1>1. budget \in [Misfortunes -> Nat] /\ "patch" \in Misfortunes /\ FlowOK /\ UNCHANGED iamVars
  BY DEF Inv, FlowOK, Misfortunes, Patch
<1>2. CASE Finish("Synced") /\ budget' = budget
  BY <1>1, <1>2, FinishInv
<1>3. CASE Spend("patch") /\ queued' = TRUE /\ cr' = cr /\ cond' = cond /\ Idle
  <2>1. budget' \in [Misfortunes -> Nat]
    BY <1>1, <1>3, SpendType
  <2>2. IamOK'
    BY <1>1, IamSame DEF Inv
  <2> QED
    BY <1>1, <1>3, <2>1, <2>2, EndInv DEF FlowOK
<1> QED
  BY <1>2, <1>3 DEF Patch

-----------------------------------------------------------------------------
(* Delete.                                                                 *)

LEMMA ListForDeletionInv ==
  ASSUME Inv, ListForDeletion
  PROVE  Inv'
<1>1. pc = "delete" /\ op = "delete" /\ FlowOK /\ IamOK
  BY DEF ListForDeletion, Inv, FlowOK
<1>2. ASSUME seen' = versions \ DefaultVersion, Goto("deleteVersions"),
             UNCHANGED <<iamVars, op, arn, desired, latest>>
      PROVE  Inv'
  <2>1. seen' \subseteq Version
    BY <1>1, <1>2 DEF IamOK
  <2>2. FlowOK'
    BY <1>1, <1>2, <2>1, FlowTypes, GotoOK DEF Places
  <2>3. IamOK' /\ pc' = "deleteVersions"
    BY <1>1, <1>2, IamSame DEF Goto
  <2> QED
    BY <2>2, <2>3 DEF Inv, Progress, UpdatePlaces
<1> QED
  BY <1>2, FailedInv DEF ListForDeletion

LEMMA DeleteVersionsInv ==
  ASSUME Inv, DeleteNonDefaultPolicyVersions
  PROVE  Inv'
<1>1. PICK v \in seen : DeleteVersion(v, "deleteVersions")
  BY DEF DeleteNonDefaultPolicyVersions, Oldest
<1>2. op = "delete" /\ "deleteVersions" \in Places
  BY DEF DeleteNonDefaultPolicyVersions, Inv, FlowOK, Places
<1>3. CASE /\ v \in versions /\ v.id # default
           /\ versions' = versions \ {v} /\ seen' = seen \ {v} /\ Goto("deleteVersions")
           /\ UNCHANGED <<exists, default, nextId, attrs, op, arn, desired, latest>>
  <2>1. FlowOK' /\ IamOK' /\ pc' = "deleteVersions"
    BY <1>2, <1>3, DeleteVersionOK DEF Goto
  <2> QED
    BY <2>1 DEF Inv, Progress, UpdatePlaces
<1> QED
  BY <1>1, <1>3, FailedInv DEF DeleteVersion

\* The policy is gone.
LEMMA GoneOK ==
  ASSUME exists' = FALSE, versions' = {}, default' = 0, nextId' = 1, attrs' = Absent
  PROVE  IamOK'
<1>1. IsFiniteSet({}) /\ Cardinality({}) = 0
  BY FS_EmptySet
<1>2. Absent \in [tags : [TagKeys -> TagValues \cup {None}], desc : Descriptions \cup {None}]
  BY DEF Absent, NoTags
<1>3. Limit \in Nat /\ Limit >= 2
  BY ConstantsAssumption
<1>4. /\ exists' \in BOOLEAN /\ nextId' \in Nat /\ versions' \subseteq Version
      /\ IsFiniteSet(versions') /\ Cardinality(versions') <= Limit
  <2>1. versions' = {}
    OBVIOUS
  <2>2. versions' \subseteq Version
    BY <2>1
  <2>3. IsFiniteSet(versions') /\ Cardinality(versions') = 0
    BY <1>1, <2>1
  <2>4. Cardinality(versions') <= Limit
    BY <1>3, <2>3
  <2>5. exists' \in BOOLEAN
    BY Zenon
  <2>6. nextId' \in Nat
    OBVIOUS
  <2> QED
    BY <2>2, <2>3, <2>4, <2>5, <2>6, Zenon
<1>5. /\ attrs' \in [tags : [TagKeys -> TagValues \cup {None}], desc : Descriptions \cup {None}]
      /\ (IF exists' THEN attrs'.desc # None ELSE attrs' = Absent)
  BY <1>2
<1> QED
  BY <1>4, <1>5 DEF IamOK, Absent, NoTags

LEMMA DeletePolicyInv ==
  ASSUME Inv, DeletePolicy
  PROVE  Inv'
<1>1. pc = "deleteVersions" /\ FlowOK
  BY DEF DeletePolicy, Inv
<1>2. CASE /\ exists' = FALSE /\ versions' = {} /\ default' = 0 /\ nextId' = 1 /\ attrs' = Absent
           /\ Goto("unmanage") /\ UNCHANGED copies
  <2>1. FlowOK' /\ pc' = "unmanage"
    BY <1>1, <1>2, GoesOnOK DEF Places
  <2>2. IamOK'
    BY <1>2, GoneOK
  <2> QED
    BY <2>1, <2>2 DEF Inv, Progress, UpdatePlaces
<1>3. CASE Vanished(~exists \/ Cardinality(versions) > 1) \/ CallFails
  BY <1>3, FailedInv DEF Vanished
<1> QED
  BY <1>2, <1>3 DEF DeletePolicy

-----------------------------------------------------------------------------
(* What happens around a reconcile.                                        *)

LEMMA ReconcileInv ==
  ASSUME Inv, Reconcile \/ Resync \/ MarkUnmanaged \/ Crash
  PROVE  Inv'
<1>1. FlowOK /\ IamOK /\ "crash" \in Misfortunes /\ budget \in [Misfortunes -> Nat]
  BY DEF Inv, FlowOK, Misfortunes
<1>2. UNCHANGED iamVars
  BY DEF Reconcile, Resync, MarkUnmanaged, Crash
<1>3. IamOK'
  BY <1>1, <1>2, IamSame
<1>4. CASE Reconcile
  <2>1. pc = "idle" /\ pc' \in {"idle", "getPolicy"}
    BY <1>4 DEF Reconcile
  <2>2. FlowOK'
    <3>1. CASE cr.here
      BY <1>1, <1>4, <3>1 DEF Reconcile, FlowOK, Places
    <3>2. CASE ~cr.here
      BY <1>1, <1>4, <3>2 DEF Reconcile, FlowOK, Places
    <3> QED
      BY <3>1, <3>2
  <2> QED
    BY <1>3, <2>1, <2>2 DEF Inv, Progress, UpdatePlaces
<1>5. CASE Resync
  <2>1. FlowOK' /\ pc' = "idle"
    BY <1>1, <1>5 DEF Resync, FlowOK, copies
  <2> QED
    BY <1>3, <2>1 DEF Inv, Progress, UpdatePlaces
<1>6. CASE MarkUnmanaged
  <2>1. /\ cr' \in [here : BOOLEAN, deleting : BOOLEAN, managed : BOOLEAN, arn : BOOLEAN, spec : Content]
        /\ cond' = cond /\ queued' = queued /\ budget' = budget /\ Idle
    BY <1>1, <1>6 DEF MarkUnmanaged, FlowOK
  <2> QED
    BY <1>1, <1>3, <2>1, EndInv DEF FlowOK
<1>7. CASE Crash
  <2>1. budget' \in [Misfortunes -> Nat] /\ Idle /\ queued' = TRUE /\ cr' = cr /\ cond' = cond
    BY <1>1, <1>7, SpendType DEF Crash
  <2> QED
    BY <1>1, <1>3, <2>1, EndInv DEF FlowOK
<1> QED
  BY <1>4, <1>5, <1>6, <1>7

\* What does not interfere leaves an update as far as it is.
LEMMA AsFarAsBefore ==
  ASSUME Inv, FlowOK', UNCHANGED <<iamVars, pc, copies, drift>>
  PROVE  Inv'
<1>1. /\ exists' = exists /\ versions' = versions /\ default' = default /\ attrs' = attrs
      /\ pc' = pc /\ op' = op /\ desired' = desired /\ latest' = latest /\ seen' = seen
      /\ drift' = drift /\ UNCHANGED iamVars
  BY DEF iamVars, copies
<1>2. IamOK'
  BY <1>1, IamSame DEF Inv
<1>3. Progress'
  BY <1>1 DEF Inv, Progress, TagProgress, VersionProgress, DefaultIs, DefaultVersion, ToRemove
<1> QED
  BY <1>2, <1>3 DEF Inv

LEMMA UserInv ==
  ASSUME Inv, EditSpec \/ DeleteCR
  PROVE  Inv'
<1>1. FlowOK /\ "edit" \in Misfortunes /\ budget \in [Misfortunes -> Nat]
  BY DEF Inv, FlowOK, Misfortunes
<1>2. budget' \in [Misfortunes -> Nat]
  BY <1>1, SpendType DEF EditSpec, DeleteCR
<1>3. cr' \in [here : BOOLEAN, deleting : BOOLEAN, managed : BOOLEAN, arn : BOOLEAN, spec : Content]
  BY <1>1, ConstantsAssumption DEF EditSpec, DeleteCR, FlowOK
<1>4. queued' = TRUE /\ cond' = cond /\ UNCHANGED <<iamVars, pc, copies, drift>>
  BY DEF EditSpec, DeleteCR
<1>5. /\ pc' = pc /\ op' = op /\ arn' = arn /\ desired' = desired /\ latest' = latest
      /\ seen' = seen /\ drift' = drift
  BY <1>4 DEF copies
<1>6. FlowOK'
  BY <1>1, <1>2, <1>3, <1>4, <1>5 DEF FlowOK
<1> QED
  BY <1>4, <1>6, AsFarAsBefore

LEMMA DriftInv ==
  ASSUME Inv, Drift
  PROVE  Inv'
<1>1. FlowOK /\ IamOK /\ "drift" \in Misfortunes /\ exists
  BY DEF Inv, Misfortunes, Drift
<1>2. budget' \in [Misfortunes -> Nat]
  BY <1>1, SpendType DEF Drift
<1>3. /\ cr' = cr /\ cond' = cond /\ queued' = queued /\ pc' = pc /\ op' = op /\ arn' = arn
      /\ desired' = desired /\ latest' = latest /\ seen' = seen /\ drift' = TRUE
  BY DEF Drift, copies
<1>4. FlowOK'
  BY <1>1, <1>2, <1>3 DEF FlowOK
<1>5. ASSUME NEW d \in Docs, Cardinality(versions) < Limit,
             versions' = versions \cup {[id |-> nextId, doc |-> d]}, nextId' = nextId + 1,
             UNCHANGED <<exists, default, attrs>>
      PROVE  IamOK'
  BY <1>1, <1>5, MoreVersions
<1>6. ASSUME NEW v \in versions, default' = v.id, UNCHANGED <<exists, versions, nextId, attrs>>
      PROVE  IamOK'
  BY <1>1, <1>6 DEF IamOK
<1>7. ASSUME NEW v \in versions \ DefaultVersion, versions' = versions \ {v},
             UNCHANGED <<exists, default, nextId, attrs>>
      PROVE  IamOK'
  <2>1. IsFiniteSet(versions') /\ Cardinality(versions') = Cardinality(versions) - 1
    BY <1>1, <1>7, FS_RemoveElement DEF IamOK
  <2>2. Cardinality(versions) \in Nat /\ Limit \in Nat /\ Cardinality(versions) <= Limit
    BY <1>1, ConstantsAssumption, FS_CardinalityType DEF IamOK
  <2>3. \E w \in versions' : w.id = default
    BY <1>1, <1>7 DEF IamOK, DefaultVersion
  <2>4. exists' = exists /\ default' = default /\ nextId' = nextId /\ attrs' = attrs
    BY <1>7
  <2>5. /\ versions' \subseteq Version
        /\ \A w \in versions' : w.id < nextId
        /\ \A w, u \in versions' : w.id = u.id => w = u
    BY <1>1, <1>7 DEF IamOK
  <2>6. Cardinality(versions') <= Limit
    BY <2>1, <2>2
  <2> QED
    BY <1>1, <2>1, <2>3, <2>4, <2>5, <2>6 DEF IamOK
<1>8. ASSUME exists' = FALSE, versions' = {}, default' = 0, nextId' = 1, attrs' = Absent
      PROVE  IamOK'
  BY <1>8, GoneOK
<1>9. IamOK'
  <2>1. CASE /\ Cardinality(versions) < Limit
             /\ \E d \in Docs \ BadDocs : versions' = versions \cup {[id |-> nextId, doc |-> d]}
             /\ nextId' = nextId + 1
             /\ UNCHANGED <<exists, default, attrs>>
    BY <1>5, <2>1
  <2>2. CASE (\E v \in versions : default' = v.id) /\ UNCHANGED <<exists, versions, nextId, attrs>>
    BY <1>6, <2>2
  <2>3. CASE /\ \E v \in versions \ DefaultVersion : versions' = versions \ {v}
             /\ UNCHANGED <<exists, default, nextId, attrs>>
    BY <1>7, <2>3
  <2>4. \/ /\ Cardinality(versions) < Limit
           /\ \E d \in Docs \ BadDocs : versions' = versions \cup {[id |-> nextId, doc |-> d]}
           /\ nextId' = nextId + 1
           /\ UNCHANGED <<exists, default, attrs>>
        \/ (\E v \in versions : default' = v.id) /\ UNCHANGED <<exists, versions, nextId, attrs>>
        \/ /\ \E v \in versions \ DefaultVersion : versions' = versions \ {v}
           /\ UNCHANGED <<exists, default, nextId, attrs>>
        \/ exists' = FALSE /\ versions' = {} /\ default' = 0 /\ nextId' = 1 /\ attrs' = Absent
    BY Zenon DEF Drift
  <2> QED
    BY <1>8, <2>1, <2>2, <2>3, <2>4, Zenon
<1>10. Progress'
  BY <1>3 DEF Progress
<1> QED
  BY <1>4, <1>9, <1>10 DEF Inv

-----------------------------------------------------------------------------
LEMMA InvInit ==
  ASSUME Init
  PROVE  Inv
<1>1. IsFiniteSet({}) /\ Cardinality({}) = 0
  BY FS_EmptySet
<1>2. Absent \in [tags : [TagKeys -> TagValues \cup {None}], desc : Descriptions \cup {None}]
  BY DEF Absent, NoTags
<1>3. IamOK
  <2>1. exists = FALSE /\ versions = {} /\ default = 0 /\ nextId = 1 /\ attrs = Absent
    BY DEF Init
  <2>2. Limit \in Nat /\ Limit >= 2
    BY ConstantsAssumption
  <2>3. exists \in BOOLEAN /\ nextId \in Nat /\ versions \subseteq Version
        /\ IsFiniteSet(versions) /\ Cardinality(versions) <= Limit
    <3>1. versions \subseteq Version
      BY <2>1
    <3>2. IsFiniteSet(versions) /\ Cardinality(versions) = 0
      BY <1>1, <2>1
    <3>3. Cardinality(versions) <= Limit
      BY <2>2, <3>2
    <3>4. exists \in BOOLEAN
      BY <2>1, Zenon
    <3>5. nextId \in Nat
      BY <2>1
    <3> QED
      BY <3>1, <3>2, <3>3, <3>4, <3>5, Zenon
  <2>4. /\ attrs \in [tags : [TagKeys -> TagValues \cup {None}], desc : Descriptions \cup {None}]
        /\ (IF exists THEN attrs.desc # None ELSE attrs = Absent)
    BY <1>2, <2>1
  <2> QED
    BY <2>1, <2>3, <2>4 DEF IamOK
<1>4. FlowOK
  <2>1. PICK s \in Specs : cr = [here |-> TRUE, deleting |-> FALSE, managed |-> FALSE,
                                 arn |-> FALSE, spec |-> s]
    BY DEF Init
  <2>2. s \in Content /\ Budget \in [Misfortunes -> Nat]
    BY ConstantsAssumption
  <2>3. /\ cond = "None" /\ queued = TRUE /\ arn = FALSE /\ drift = FALSE /\ pc = "idle"
        /\ op = "sync" /\ desired = Unread /\ latest = Unread /\ seen = {} /\ budget = Budget
    BY DEF Init
  <2>4. cr \in [here : BOOLEAN, deleting : BOOLEAN, managed : BOOLEAN, arn : BOOLEAN, spec : Content]
    BY <2>1, <2>2
  <2> QED
    BY <2>2, <2>3, <2>4, UnreadType DEF FlowOK, Places
<1> QED
  BY <1>3, <1>4 DEF Inv, Init, Progress, UpdatePlaces

LEMMA InvNext ==
  ASSUME Inv, [Next]_vars
  PROVE  Inv'
<1>1. CASE Controller
  BY <1>1, ReconcileInv, GetPolicyInv, GetPolicyVersionInv, MarkManagedInv, CreatePolicyInv,
     UntagPolicyInv, TagPolicyInv, ListVersionsInv, MakeRoomInv, CreateVersionInv,
     LateInitializeInv, PatchInv, ListForDeletionInv, DeleteVersionsInv, DeletePolicyInv
     DEF Controller
<1>2. CASE Environment
  BY <1>2, ReconcileInv, UserInv, DriftInv DEF Environment
<1>3. CASE UNCHANGED vars
  <2>1. UNCHANGED <<iamVars, pc, copies, drift>> /\ cr' = cr /\ cond' = cond /\ queued' = queued
        /\ budget' = budget
    BY <1>3 DEF vars, iamVars, copies
  <2>2. /\ pc' = pc /\ op' = op /\ arn' = arn /\ desired' = desired /\ latest' = latest
        /\ seen' = seen /\ drift' = drift
    BY <2>1 DEF copies
  <2>3. FlowOK'
    BY <2>1, <2>2 DEF Inv, FlowOK
  <2> QED
    BY <2>1, <2>3, AsFarAsBefore
<1> QED
  BY <1>1, <1>2, <1>3 DEF Next

LEMMA Invariant == Spec => []Inv
<1>1. Init => Inv
  BY InvInit
<1>2. Inv /\ [Next]_vars => Inv'
  BY InvNext
<1> QED
  BY <1>1, <1>2, PTL DEF Spec

-----------------------------------------------------------------------------
(* The theorems.                                                           *)

\* The variables have the types of TypeOK: among them, that a policy always has its
\* default version and never more versions than IAM keeps.
THEOREM TypeCorrect == Spec => []TypeOK
<1>1. Inv => TypeOK
  BY DEF Inv, FlowOK, IamOK, TypeOK
<1> QED
  BY <1>1, Invariant, PTL

\* CreatePolicyVersion finds room for the version, whatever went wrong before.
THEOREM RoomKept == Spec => []RoomForVersion
<1>1. Inv => RoomForVersion
  BY DEF Inv, Progress, UpdatePlaces, VersionProgress, RoomForVersion
<1> QED
  BY <1>1, Invariant, PTL

\* An update that ends well has brought about the tags and the document of its copy.
THEOREM AppliedOnSuccess == Spec => []SuccessMeansApplied
<1>1. Inv => SuccessMeansApplied
  BY DEF Inv, Progress, UpdatePlaces, TagProgress, VersionProgress, DefaultIs, SuccessMeansApplied
<1> QED
  BY <1>1, Invariant, PTL

HistoryStep ==
    op = "sync" /\ exists' /\ ~drift' =>
        \A v \in versions \ versions' :
            /\ Cardinality(versions) = Limit
            /\ v.id # default
            /\ \A w \in versions : w.id < v.id => w.id = default

LEMMA NothingDeleted ==
  ASSUME versions \subseteq versions'
  PROVE  HistoryStep
  BY DEF HistoryStep

\* The one step of an update that deletes takes the oldest of a full policy.
LEMMA MakeRoomStep ==
  ASSUME Inv, EnsureVersionsLimitNotExceeded
  PROVE  HistoryStep
<1>1. pc = "makeRoom"
  BY DEF EnsureVersionsLimitNotExceeded
<1>2. PICK v \in Oldest(seen) : DeleteVersion(v, "createVersion")
  BY DEF EnsureVersionsLimitNotExceeded
<1>3. CASE v.id # default /\ versions' = versions \ {v} /\ Goto("createVersion")
  <2>1. drift' = drift /\ \A u \in versions \ versions' : u = v
    BY <1>3 DEF Goto
  <2>2. SUFFICES ASSUME ~drift
                 PROVE  /\ Cardinality(versions) = Limit
                        /\ \A w \in versions : w.id < v.id => w.id = default
    BY <1>3, <2>1 DEF HistoryStep
  <2>3. seen = versions \ DefaultVersion /\ Cardinality(versions) = Limit
    BY <1>1, <2>2 DEF Inv, Progress, UpdatePlaces, VersionProgress
  <2>4. v \in seen /\ \A w \in seen : v.id <= w.id
    BY <1>2 DEF Oldest
  <2>5. \A w \in versions : w.id \in Nat
    BY DEF Inv, IamOK, Version
  <2>6. ASSUME NEW w \in versions, w.id < v.id, w.id # default
        PROVE  FALSE
    <3>1. w \in seen
      BY <2>3, <2>6 DEF DefaultVersion
    <3>2. v.id \in Nat /\ w.id \in Nat
      BY <2>3, <2>4, <2>5
    <3> QED
      BY <2>4, <2>6, <3>1, <3>2
  <2> QED
    BY <2>3, <2>6
<1>4. CASE versions' = versions
  BY <1>4, NothingDeleted
<1> QED
  BY <1>2, <1>3, <1>4 DEF DeleteVersion, Vanished, CallFails, iamVars

\* An update gives history up only for room, whatever went wrong before.
THEOREM HistoryGivenUpOnlyForRoom == Spec => HistoryKept
<1>1. ASSUME Inv, [Next]_vars
      PROVE  HistoryStep
  <2>1. CASE \/ Reconcile \/ GetPolicy \/ GetPolicyVersion \/ MarkManaged \/ UntagPolicy \/ TagPolicy
             \/ ListPolicyVersions \/ LateInitialize \/ Patch \/ ListForDeletion \/ MarkUnmanaged
             \/ Resync \/ Crash \/ EditSpec \/ DeleteCR \/ UNCHANGED vars
    <3>1. versions' = versions
      BY <2>1 DEF Reconcile, GetPolicy, NotFound, GetPolicyVersion, MarkManaged, UntagPolicy,
         TagPolicy, ListPolicyVersions, LateInitialize, Patch, ListForDeletion, MarkUnmanaged,
         Resync, Crash, EditSpec, DeleteCR, CallFails, Vanished, iamVars, vars
    <3> QED
      BY <3>1, NothingDeleted
  <2>2. CASE CreatePolicy
    <3>1. versions = {} \/ versions' = versions
      BY <1>1, <2>2 DEF CreatePolicy, CallFails, iamVars, Inv, IamOK
    <3> QED
      BY <3>1, NothingDeleted
  <2>3. CASE CreatePolicyVersion
    <3>1. versions \subseteq versions'
      BY <2>3 DEF CreatePolicyVersion, CallFails, Vanished, iamVars
    <3> QED
      BY <3>1, NothingDeleted
  <2>4. CASE EnsureVersionsLimitNotExceeded
    BY <1>1, <2>4, MakeRoomStep
  <2>5. CASE DeleteNonDefaultPolicyVersions
    BY <1>1, <2>5 DEF DeleteNonDefaultPolicyVersions, Inv, FlowOK, HistoryStep
  <2>6. CASE DeletePolicy
    BY <1>1, <2>6 DEF DeletePolicy, Inv, FlowOK, HistoryStep
  <2>7. CASE Drift
    BY <2>7 DEF Drift, HistoryStep
  <2> QED
    BY <1>1, <2>1, <2>2, <2>3, <2>4, <2>5, <2>6, <2>7 DEF Next, Controller, Environment
<1>2. Inv /\ [Next]_vars => [HistoryStep]_vars
  BY <1>1
<1> QED
  BY <1>2, Invariant, PTL DEF Spec, HistoryKept, HistoryStep

-----------------------------------------------------------------------------
(* Policy implements Lifecycle, for a policy whose ARN is on record.       *)

CRType == [here : BOOLEAN, deleting : BOOLEAN, managed : BOOLEAN, arn : BOOLEAN, spec : Content]

known == exists /\ cr.arn

LifeVars == <<cr.here, cr.managed, cr.deleting, known>>

Mapped == L!Next \/ UNCHANGED LifeVars

\* Where the policy stands to the CR and to the reconcile, which may know an ARN that is not
\* on record yet, but never the other way round.
LifeInv ==
    /\ pc = "idle" => ~arn
    /\ pc # "idle" /\ cr.arn => arn
    /\ arn => cr.arn \/ (cr.here /\ cr.managed)
    /\ known => cr.here /\ cr.managed
    /\ cr.here /\ cr.deleting => cr.managed
    /\ pc # "idle" /\ op = "delete" => cr.here /\ cr.deleting /\ (arn => cr.arn)
    /\ pc \in {"manage", "create", "unmanage"} => ~known /\ (arn => cr.arn)
    /\ pc = "create" => cr.here /\ cr.managed
    /\ pc = "unmanage" => op = "delete"
    /\ pc \in {"manage", "create"} => op # "delete"
    /\ pc = "getPolicy" => (arn => cr.arn)

InvLife == Inv /\ LifeInv

LEMMA LifeTypes ==
  ASSUME Inv
  PROVE  cr \in CRType /\ exists \in BOOLEAN /\ arn \in BOOLEAN
         /\ cr.here \in BOOLEAN /\ cr.managed \in BOOLEAN /\ cr.deleting \in BOOLEAN
         /\ cr.arn \in BOOLEAN
  BY DEF Inv, FlowOK, IamOK, CRType

LEMMA InitLife == Init => InvLife /\ L!Init
<1> SUFFICES ASSUME Init PROVE LifeInv /\ L!Init
  BY InvInit DEF InvLife
<1>1. PICK s \in Specs : cr = [here |-> TRUE, deleting |-> FALSE, managed |-> FALSE,
                             arn |-> FALSE, spec |-> s]
  BY DEF Init
<1>2. exists = FALSE /\ pc = "idle" /\ arn = FALSE
  BY DEF Init
<1>3. cr.here = TRUE /\ cr.managed = FALSE /\ cr.deleting = FALSE /\ cr.arn = FALSE
  BY <1>1
<1> QED
  BY <1>2, <1>3 DEF LifeInv, known, L!Init

\* A reconcile is over.  If it has created the policy, this is when that comes to light.
LEMMA FinishLife ==
  ASSUME InvLife, NEW o, Finish(o), UNCHANGED iamVars
  PROVE  LifeInv' /\ Mapped
<1>1. cr' = [cr EXCEPT !.arn = cr.arn \/ arn] /\ pc' = "idle" /\ arn' = FALSE
  BY DEF Finish, Idle
<1>2. exists' = exists
  BY DEF iamVars
<1>3. /\ cr'.here = cr.here /\ cr'.managed = cr.managed /\ cr'.deleting = cr.deleting
      /\ cr'.arn = (cr.arn \/ arn)
  BY <1>1, LifeTypes DEF InvLife, CRType
<1>4. known' = (exists /\ (cr.arn \/ arn))
  BY <1>2, <1>3 DEF known
<1>5. known' => cr.here /\ cr.managed
  BY <1>4 DEF InvLife, LifeInv, known
<1>6. LifeInv'
  BY <1>1, <1>3, <1>5 DEF InvLife, LifeInv
<1>7. CASE known' = known
  BY <1>3, <1>6, <1>7 DEF Mapped, LifeVars
<1>8. CASE known' # known
  <2>1. known \in BOOLEAN /\ known' \in BOOLEAN
    BY <1>4, LifeTypes DEF InvLife, known
  <2>2. known => known'
    BY <1>4 DEF known
  <2>3. ~known /\ known' = TRUE
    BY <1>8, <2>1, <2>2
  <2> QED
    BY <1>3, <1>5, <1>6, <2>3 DEF Mapped, L!Next, L!Create, known
<1> QED
  BY <1>7, <1>8

LEMMA FailedLife ==
  ASSUME InvLife,
         \/ CallFails
         \/ \E gone \in BOOLEAN : Vanished(gone)
         \/ Finish("Recoverable") /\ UNCHANGED <<iamVars, budget>>
         \/ Finish("Terminal") /\ UNCHANGED <<iamVars, budget>>
  PROVE  LifeInv' /\ Mapped
<1>1. PICK o \in {"Recoverable", "Terminal"} : Finish(o) /\ UNCHANGED iamVars
  BY DEF CallFails, Vanished
<1> QED
  BY <1>1, FinishLife

\* A step that changes neither the CR nor whether there is a policy.
LEMMA GoesOnLife ==
  ASSUME InvLife, pc # "idle", NEW q, Goto(q), UNCHANGED <<exists, op, arn>>,
         q \notin {"idle", "getPolicy", "manage", "create", "unmanage"}
  PROVE  LifeInv' /\ Mapped
<1>1. cr' = cr /\ exists' = exists /\ arn' = arn /\ op' = op /\ pc' = q /\ known' = known
  BY DEF Goto, known
<1> QED
  BY <1>1 DEF InvLife, LifeInv, Mapped, LifeVars

\* An object that is in IAM for all that the CR knows is gone.
LEMMA GoneLife ==
  ASSUME InvLife, exists, exists' = FALSE, cr' = cr, arn' = arn, op' = op,
         pc' = pc \/ (pc # "idle" /\ pc' = "unmanage" /\ op = "delete")
  PROVE  LifeInv' /\ Mapped
<1>1. known' = FALSE
  BY DEF known
<1>2. LifeInv'
  BY <1>1 DEF InvLife, LifeInv
<1>3. CASE cr.arn
  BY <1>1, <1>2, <1>3 DEF Mapped, L!Next, L!Destroy, known
<1>4. CASE ~cr.arn
  <2>1. ~known
    BY <1>4 DEF known
  <2>2. known \in BOOLEAN
    BY LifeTypes DEF InvLife, known
  <2> QED
    BY <1>1, <1>2, <2>1, <2>2 DEF Mapped, LifeVars
<1> QED
  BY <1>3, <1>4

LEMMA ReadLife ==
  ASSUME InvLife, GetPolicy \/ GetPolicyVersion
  PROVE  LifeInv' /\ Mapped
<1>1. CASE GetPolicy
  <2>1. CASE (~arn \/ ~exists) /\ NotFound
    <3>1. /\ cr' = cr /\ exists' = exists /\ arn' = arn /\ op' = op /\ pc = "getPolicy"
          /\ pc' = IF op = "delete" THEN "unmanage" ELSE "manage"
      BY <1>1, <2>1 DEF GetPolicy, NotFound, Goto, iamVars, copies
    <3>2. ~known /\ known' = known
      BY <2>1, <3>1 DEF InvLife, LifeInv, known
    <3>3. arn => cr.arn
      BY LifeTypes, <3>1 DEF InvLife, LifeInv
    <3> QED
      BY <3>1, <3>2, <3>3 DEF InvLife, LifeInv, Mapped, LifeVars
  <2>2. CASE Goto("getVersion") /\ UNCHANGED <<iamVars, op, arn, desired>>
    BY <1>1, <2>2, GoesOnLife DEF GetPolicy, iamVars
  <2> QED
    BY <1>1, <2>1, <2>2, FailedLife DEF GetPolicy
<1>2. CASE GetPolicyVersion
  <2> DEFINE q == IF op = "delete" THEN "delete" ELSE AfterRead(desired, latest')
  <2>1. q \notin {"idle", "getPolicy", "manage", "create", "unmanage"}
    BY DEF AfterRead, AfterRemoval, AfterTags
  <2>2. PICK v \in seen :
          \/ Goto(q) /\ UNCHANGED <<iamVars, op, arn, desired>>
          \/ Vanished(v \notin versions)
          \/ CallFails
    BY <1>2 DEF GetPolicyVersion
  <2> HIDE DEF q
  <2>3. pc # "idle"
    BY <1>2 DEF GetPolicyVersion
  <2>4. CASE Goto(q) /\ UNCHANGED <<iamVars, op, arn, desired>>
    BY <2>1, <2>3, <2>4, GoesOnLife DEF iamVars
  <2>5. CASE Vanished(v \notin versions)
    <3>1. Vanished(TRUE)
      BY <2>5 DEF Vanished
    <3> QED
      BY <3>1, FailedLife
  <2>6. CASE CallFails
    BY <2>6, FailedLife
  <2> QED
    BY <2>2, <2>4, <2>5, <2>6
<1> QED
  BY <1>1, <1>2

\* The finalizer: Claim, or a reconcile that finds the CR gone; and Release.
LEMMA FinalizerLife ==
  ASSUME InvLife, MarkManaged \/ MarkUnmanaged
  PROVE  LifeInv' /\ Mapped
<1>1. CASE MarkManaged /\ cr.here
  <2>1. /\ cr' = [cr EXCEPT !.managed = TRUE] /\ pc = "manage" /\ pc' = "create"
        /\ op' = op /\ arn' = arn /\ exists' = exists
    BY <1>1 DEF MarkManaged, copies, iamVars
  <2>2. /\ cr'.here = cr.here /\ cr'.managed = TRUE /\ cr'.deleting = cr.deleting
        /\ cr'.arn = cr.arn /\ cr.here = TRUE /\ cr.managed \in BOOLEAN /\ cr.deleting \in BOOLEAN
    BY <1>1, <2>1, LifeTypes DEF CRType, InvLife
  <2>3. LifeInv' /\ known' = known
    BY <2>1, <2>2 DEF InvLife, LifeInv, known
  <2>4. CASE cr.managed
    BY <2>2, <2>3, <2>4 DEF Mapped, LifeVars
  <2>5. CASE ~cr.managed
    <3>1. ~cr.deleting
      BY <2>2, <2>5 DEF InvLife, LifeInv
    <3> QED
      BY <2>2, <2>3, <2>5, <3>1 DEF Mapped, L!Next, L!Claim, known
  <2> QED
    BY <2>3, <2>4, <2>5
<1>2. CASE MarkManaged /\ ~cr.here
  <2>1. Finish(cond) /\ UNCHANGED iamVars
    BY <1>2 DEF MarkManaged
  <2> QED
    BY <2>1, FinishLife
<1>3. CASE MarkUnmanaged
  <2>1. /\ cr' = [cr EXCEPT !.managed = FALSE, !.here = FALSE] /\ pc = "unmanage"
        /\ exists' = exists /\ pc' = "idle" /\ arn' = FALSE
    BY <1>3 DEF MarkUnmanaged, Idle, iamVars
  <2>2. /\ cr'.here = FALSE /\ cr'.managed = FALSE /\ cr'.deleting = cr.deleting
        /\ cr'.arn = cr.arn
    BY <2>1, LifeTypes DEF CRType, InvLife
  <2>3. ~known /\ known' = known /\ cr.here /\ cr.deleting /\ cr.managed
    BY <2>1, <2>2 DEF InvLife, LifeInv, known
  <2>4. LifeInv'
    BY <2>1, <2>2, <2>3 DEF InvLife, LifeInv
  <2> QED
    BY <2>2, <2>3, <2>4 DEF Mapped, L!Next, L!Release, known
<1> QED
  BY <1>1, <1>2, <1>3

\* Create if the ARN of a policy that was deleted meanwhile is still on record; otherwise
\* nobody knows of the policy before its reconcile has ended.
LEMMA CreateLife ==
  ASSUME InvLife, CreatePolicy
  PROVE  LifeInv' /\ Mapped
<1>1. CASE exists' = TRUE /\ arn' = TRUE /\ Goto("lateInit") /\ UNCHANGED <<op, desired, latest, seen>>
  <2>1. cr' = cr /\ pc = "create" /\ pc' = "lateInit" /\ op' = op /\ cr.here /\ cr.managed /\ ~known
    BY <1>1 DEF CreatePolicy, Goto, InvLife, LifeInv
  <2>2. known' = cr.arn /\ cr.arn \in BOOLEAN /\ op # "delete"
    BY <1>1, <2>1, LifeTypes DEF known, InvLife, LifeInv
  <2>3. LifeInv'
    BY <1>1, <2>1, <2>2 DEF InvLife, LifeInv
  <2>4. CASE cr.arn
    BY <1>1, <2>1, <2>2, <2>3, <2>4 DEF Mapped, L!Next, L!Create, known
  <2>5. CASE ~cr.arn
    <3>1. known' = known
      BY <2>1, <2>2, <2>5 DEF known
    <3> QED
      BY <2>1, <2>3, <3>1 DEF Mapped, LifeVars
  <2> QED
    BY <2>2, <2>4, <2>5
<1> QED
  BY <1>1, FailedLife DEF CreatePolicy

\* The calls of an update and those before the deletion.
LEMMA UpdateLife ==
  ASSUME InvLife,
         \/ UntagPolicy \/ TagPolicy \/ ListPolicyVersions \/ CreatePolicyVersion
         \/ LateInitialize \/ ListForDeletion
  PROVE  LifeInv' /\ Mapped
<1>1. \/ \E q \in {"tag", "listVersions", "lateInit", "makeRoom", "createVersion", "patch",
                   "deleteVersions"} :
           Goto(q) /\ UNCHANGED <<exists, op, arn>> /\ pc # "idle"
      \/ CallFails
      \/ \E gone \in BOOLEAN : Vanished(gone)
      \/ Finish("Terminal") /\ UNCHANGED <<iamVars, budget>>
  BY DEF UntagPolicy, TagPolicy, ListPolicyVersions, CreatePolicyVersion, LateInitialize,
     ListForDeletion, AfterRemoval, AfterTags, iamVars, copies
<1>2. ASSUME NEW q \in {"tag", "listVersions", "lateInit", "makeRoom", "createVersion", "patch",
                       "deleteVersions"},
             Goto(q), UNCHANGED <<exists, op, arn>>, pc # "idle"
      PROVE  LifeInv' /\ Mapped
  BY <1>2, GoesOnLife
<1> QED
  BY <1>1, <1>2, FailedLife

\* Versions are deleted one by one; the policy goes last.
LEMMA DeletionLife ==
  ASSUME InvLife,
         EnsureVersionsLimitNotExceeded \/ DeleteNonDefaultPolicyVersions \/ DeletePolicy
  PROVE  LifeInv' /\ Mapped
<1>1. ASSUME NEW v, NEW q \in {"createVersion", "deleteVersions"}, pc # "idle", DeleteVersion(v, q)
      PROVE  LifeInv' /\ Mapped
  <2>1. CASE Goto(q) /\ UNCHANGED <<exists, default, nextId, attrs, op, arn, desired, latest>>
    BY <1>1, <2>1, GoesOnLife
  <2>2. CASE Vanished(v \notin versions \/ v.id = default)
    <3>1. Vanished(TRUE)
      BY <2>2 DEF Vanished
    <3> QED
      BY <3>1, FailedLife
  <2>3. CASE CallFails
    BY <2>3, FailedLife
  <2> QED
    BY <1>1, <2>1, <2>2, <2>3 DEF DeleteVersion
<1>2. CASE EnsureVersionsLimitNotExceeded
  BY <1>1, <1>2 DEF EnsureVersionsLimitNotExceeded
<1>3. CASE DeleteNonDefaultPolicyVersions
  BY <1>1, <1>3 DEF DeleteNonDefaultPolicyVersions
<1>4. CASE DeletePolicy
  <2>1. op = "delete" /\ pc # "idle"
    BY <1>4 DEF DeletePolicy, InvLife, Inv, FlowOK
  <2>2. CASE exists /\ exists' = FALSE /\ Goto("unmanage") /\ UNCHANGED copies
    <3>1. cr' = cr /\ pc' = "unmanage" /\ op' = op /\ arn' = arn
      BY <2>2 DEF Goto, copies
    <3> QED
      BY <2>1, <2>2, <3>1, GoneLife
  <2>3. CASE Vanished(~exists \/ Cardinality(versions) > 1)
    <3>1. Vanished(TRUE)
      BY <2>3 DEF Vanished
    <3> QED
      BY <3>1, FailedLife
  <2> QED
    BY <1>4, <2>2, <2>3, FailedLife DEF DeletePolicy
<1> QED
  BY <1>2, <1>3, <1>4

\* Where a reconcile begins and ends.
LEMMA EndsLife ==
  ASSUME InvLife, Reconcile \/ Resync \/ Patch \/ Crash
  PROVE  LifeInv' /\ Mapped
<1>1. CASE Reconcile /\ cr.here
  <2>1. /\ cr' = cr /\ exists' = exists /\ pc' = "getPolicy" /\ arn' = cr.arn
        /\ op' = IF cr.deleting THEN "delete" ELSE "sync"
    BY <1>1 DEF Reconcile, iamVars
  <2> QED
    BY <1>1, <2>1 DEF InvLife, LifeInv, Mapped, LifeVars, known
<1>2. CASE (Reconcile /\ ~cr.here) \/ Resync
  <2>1. cr' = cr /\ exists' = exists /\ pc' = pc /\ arn' = arn /\ op' = op
    BY <1>2 DEF Reconcile, Resync, copies, iamVars
  <2> QED
    BY <2>1 DEF InvLife, LifeInv, Mapped, LifeVars, known
<1>3. CASE Idle /\ UNCHANGED <<cr, cond, iamVars>>
  <2>1. cr' = cr /\ exists' = exists /\ pc' = "idle" /\ arn' = FALSE
    BY <1>3 DEF Idle, iamVars
  <2> QED
    BY <2>1 DEF InvLife, LifeInv, Mapped, LifeVars, known
<1>4. CASE Finish("Synced") /\ UNCHANGED iamVars
  BY <1>4, FinishLife
<1> QED
  BY <1>1, <1>2, <1>3, <1>4 DEF Patch, Crash

\* What users and others do to the CR and to the policy.
LEMMA OthersLife ==
  ASSUME InvLife, EditSpec \/ DeleteCR \/ Drift
  PROVE  LifeInv' /\ Mapped
<1>1. CASE EditSpec
  <2>1. /\ cr'.here = cr.here /\ cr'.managed = cr.managed /\ cr'.deleting = cr.deleting
        /\ cr'.arn = cr.arn /\ pc' = pc /\ op' = op /\ arn' = arn /\ exists' = exists
    BY <1>1, LifeTypes DEF EditSpec, CRType, copies, iamVars, InvLife
  <2> QED
    BY <2>1 DEF InvLife, LifeInv, Mapped, LifeVars, known
<1>2. CASE DeleteCR
  <2>1. /\ cr' = [cr EXCEPT !.deleting = cr.managed, !.here = cr.managed]
        /\ pc' = pc /\ op' = op /\ arn' = arn /\ exists' = exists /\ cr.here /\ ~cr.deleting
    BY <1>2 DEF DeleteCR, copies, iamVars
  <2>2. /\ cr'.here = cr.managed /\ cr'.managed = cr.managed /\ cr'.deleting = cr.managed
        /\ cr'.arn = cr.arn
    BY <2>1, LifeTypes DEF CRType, InvLife
  <2>3. LifeInv' /\ known' = known
    BY <2>1, <2>2 DEF InvLife, LifeInv, known
  <2> QED
    BY <2>1, <2>2, <2>3 DEF Mapped, L!Next, L!AskDelete, known
<1>3. CASE Drift
  <2>1. cr' = cr /\ pc' = pc /\ op' = op /\ arn' = arn /\ exists
    BY <1>3 DEF Drift, copies
  <2>2. CASE exists' = FALSE
    BY <2>1, <2>2, GoneLife
  <2>3. CASE exists' = exists
    BY <2>1, <2>3 DEF InvLife, LifeInv, Mapped, LifeVars, known
  <2> QED
    BY <1>3, <2>2, <2>3 DEF Drift
<1> QED
  BY <1>1, <1>2, <1>3

\* One step of the policy is one of Lifecycle, or none.
LEMMA StepLife == InvLife /\ [Next]_vars => InvLife' /\ Mapped
<1> SUFFICES ASSUME InvLife, [Next]_vars
             PROVE  LifeInv' /\ Mapped
  BY InvNext DEF InvLife
<1>1. CASE UNCHANGED vars
  <2>1. cr' = cr /\ exists' = exists /\ pc' = pc /\ op' = op /\ arn' = arn
    BY <1>1 DEF vars
  <2> QED
    BY <2>1 DEF InvLife, LifeInv, Mapped, LifeVars, known
<1>2. CASE Controller
  BY <1>2, ReadLife, FinalizerLife, CreateLife, UpdateLife, DeletionLife, EndsLife DEF Controller
<1>3. CASE Environment
  BY <1>3, EndsLife, OthersLife DEF Environment
<1> QED
  BY <1>1, <1>2, <1>3 DEF Next

\* The life of a policy whose ARN is on record is one that Lifecycle allows, with crashes
\* between the creation and the patch, refused calls, drift and edits at any time.
THEOREM PolicyImplementsLifecycle == Spec => ImplementsLifecycle
<1>1. Init => InvLife /\ L!Init
  BY InitLife
<1>2. InvLife /\ [Next]_vars => InvLife' /\ [L!Next]_(L!vars)
  BY StepLife DEF Mapped, LifeVars, L!vars, known
<1> QED
  BY <1>1, <1>2, PTL DEF Spec, ImplementsLifecycle, L!Spec
=============================================================================
