----------------------------- MODULE RoleProofs -----------------------------
(***************************************************************************)
(* Proofs about Role for every value of its constants: it keeps its types, *)
(* leaves no role behind, implements Lifecycle, never takes off too much   *)
(* during an update, has applied what the code sends when one succeeds, and *)
(* leaves the tags of AWS services alone.                                  *)
(***************************************************************************)
EXTENDS Role, TLAPS

\* An empty role has the shape of a role.
LEMMA BlankContent == Blank \in Content /\ Blank.session = None
  BY DEF Blank, Content, Maybe

\* The specs users submit have the shape of a role.
LEMMA SpecsContent == Specs \subseteq Content
  BY ConstantsAssumption DEF ConstantsAssumption

\* Whatever the two copies are, sdkUpdate plans calls with arguments that fit them.
LEMMA PlanTyped ==
  ASSUME NEW d \in Content, NEW l \in Content
  PROVE  Plan(d, l) \subseteq [call : CallNames, arg : Args]
  BY DEF Plan, SyncManagedPolicies, SyncInlinePolicies, SyncTags, SyncRolePermissionsBoundary,
         SyncSettings, When, Calls, InlineToAdd, InlineToDelete, CallNames, Rank, Args, Content

\* The invariant of this part: the types, and a plan that stems from the two copies.
Shape == TypeOK /\ PlanInv

\* Init establishes it.
LEMMA InitShape == Init => Shape
<1> SUFFICES ASSUME Init PROVE Shape
    OBVIOUS
<1> USE DEF Init
<1>1. cr \in [here : BOOLEAN, deleting : BOOLEAN, managed : BOOLEAN, spec : Content]
  BY SpecsContent
<1>2. budget \in [Misfortunes -> Nat]
  BY ConstantsAssumption DEF ConstantsAssumption
<1>3. TypeOK
  BY <1>1, <1>2, BlankContent DEF TypeOK, Outcomes, Places
<1>4. PlanInv
  BY DEF PlanInv
<1> QED
  BY <1>3, <1>4 DEF Shape

\* A reconcile that ends leaves well-shaped copies.
LEMMA FinishShape ==
  ASSUME NEW o \in Outcomes, Finish(o), Shape,
         (cr' \in [here : BOOLEAN, deleting : BOOLEAN, managed : BOOLEAN, spec : Content]),
         exists' \in BOOLEAN, role' \in Content,
         IF exists' THEN role'.session # None /\ role'.path # None ELSE role' = Blank,
         budget' \in [Misfortunes -> Nat]
  PROVE  Shape'
<1>1. TypeOK'
  BY BlankContent DEF Finish, Shape, TypeOK, Outcomes, Places
<1>2. PlanInv'
  BY DEF Finish, PlanInv
<1> QED
  BY <1>1, <1>2 DEF Shape

\* A bounded misfortune leaves the budget a number.
LEMMA SpendTyped ==
  ASSUME NEW what \in Misfortunes, TypeOK, Spend(what)
  PROVE  budget' \in [Misfortunes -> Nat]
  BY DEF TypeOK, Spend

\* A call that IAM or the network fails keeps the shape.
LEMMA CallFailsShape == Shape /\ CallFails => Shape'
<1> SUFFICES ASSUME Shape, CallFails PROVE Shape'
    OBVIOUS
<1>1. budget' \in [Misfortunes -> Nat]
  BY SpendTyped DEF CallFails, Shape, Misfortunes
<1> QED
  BY <1>1, FinishShape DEF CallFails, iamVars, Shape, TypeOK, Outcomes

\* So does a call on a role that somebody has deleted.
LEMMA RoleVanishedShape == Shape /\ RoleVanished => Shape'
  BY FinishShape DEF RoleVanished, iamVars, Shape, TypeOK, Outcomes

\* The reconciler's own steps and the reads.
LEMMA ReadShape == Shape /\ (Reconcile \/ Resync \/ Read) => Shape'
<1> SUFFICES ASSUME Shape, Reconcile \/ Resync \/ Read PROVE Shape'
    OBVIOUS
<1> USE DEF Shape, iamVars, copies, work
<1>1. CASE Reconcile
  BY <1>1 DEF Reconcile, TypeOK, PlanInv, Places
<1>2. CASE Resync
  BY <1>2 DEF Resync, TypeOK, PlanInv, Places
<1>3. CASE GetRole
  <2>1. CASE NotFound
    BY <2>1, <1>3 DEF GetRole, NotFound, TypeOK, PlanInv, Places
  <2>2. CASE CallFails
    BY <2>2, CallFailsShape
  <2>3. CASE pc' = "listPolicies" /\ pc = "getRole"
             /\ latest' = [Blank EXCEPT !.boundary = role.boundary,
                                        !.assume = role.assume,
                                        !.session = role.session,
                                        !.path = role.path,
                                        !.description = role.description]
             /\ UNCHANGED <<cr, cond, queued, iamVars, op, desired, work, drift, budget>>
    <3>1. latest' \in Content
      BY <2>3, BlankContent DEF TypeOK, Content
    <3> QED
      BY <2>3, <3>1 DEF TypeOK, PlanInv, Places
  <2> QED
    BY <1>3, <2>1, <2>2, <2>3 DEF GetRole
<1>4. CASE ListAttachedRolePolicies
  <2>1. CASE RoleVanished \/ CallFails
    BY <2>1, CallFailsShape, RoleVanishedShape
  <2>2. CASE pc' = "listInline" /\ pc = "listPolicies"
             /\ latest' = [latest EXCEPT !.policies = role.policies]
             /\ UNCHANGED <<cr, cond, queued, iamVars, op, desired, work, drift, budget>>
    <3>1. latest' \in Content
      BY <2>2 DEF TypeOK, Content
    <3> QED
      BY <2>2, <3>1 DEF TypeOK, PlanInv, Places
  <2> QED
    BY <1>4, <2>1, <2>2 DEF ListAttachedRolePolicies
<1>5. CASE ListRolePolicies
  <2>1. CASE RoleVanished \/ CallFails
    BY <2>1, CallFailsShape, RoleVanishedShape
  <2>2. CASE pc' = "getInline" /\ pc = "listInline" /\ pending' \subseteq InlineNames
             /\ UNCHANGED <<cr, cond, queued, iamVars, copies, plan, drift, budget>>
    BY <2>2 DEF TypeOK, PlanInv, Places
  <2> QED
    BY <1>5, <2>1, <2>2 DEF ListRolePolicies
<1>6. CASE GetRolePolicy
  <2> PICK n \in pending :
        \/ /\ role.inline[n] # None
           /\ latest' = [latest EXCEPT !.inline[n] = role.inline[n]]
           /\ pending' = pending \ {n}
           /\ UNCHANGED <<cr, cond, queued, iamVars, pc, op, desired, plan, drift, budget>>
        \/ /\ role.inline[n] = None
           /\ Finish("Recoverable")
           /\ UNCHANGED <<cr, iamVars, budget>>
        \/ CallFails
    BY <1>6 DEF GetRolePolicy
  <2>1. CASE CallFails
    BY <2>1, CallFailsShape
  <2>2. CASE Finish("Recoverable") /\ UNCHANGED <<cr, iamVars, budget>>
    BY <2>2, FinishShape DEF TypeOK, Outcomes
  <2>3. CASE latest' = [latest EXCEPT !.inline[n] = role.inline[n]]
             /\ pending' = pending \ {n}
             /\ UNCHANGED <<cr, cond, queued, iamVars, pc, op, desired, plan, drift, budget>>
    <3>1. latest' \in Content
      BY <2>3 DEF TypeOK, Content
    <3>2. plan = {} /\ pc # "update"
      BY <1>6 DEF GetRolePolicy, TypeOK
    <3> QED
      BY <2>3, <3>1, <3>2 DEF TypeOK, PlanInv, Places
  <2> QED
    BY <2>1, <2>2, <2>3
<1>7. CASE ListRoleTags
  <2> DEFINE found == [latest EXCEPT !.tags = role.tags]
             goal  == IF op = "delete"
                      THEN [found EXCEPT !.policies = {}, !.inline = Blank.inline]
                      ELSE MirrorAWSTags(desired, found)
  <2>1. CASE RoleVanished \/ CallFails
    BY <2>1, CallFailsShape, RoleVanishedShape
  <2>2. CASE /\ latest' = found
             /\ desired' = goal
             /\ plan' = Plan(goal, found)
             /\ pc' = After(Plan(goal, found))
             /\ UNCHANGED <<cr, cond, queued, iamVars, op, pending, drift, budget>>
    <3>1. found \in Content
      BY DEF TypeOK, Content
    <3>2. MirrorAWSTags(desired, found) \in Content
      BY <3>1 DEF TypeOK, Content, MirrorAWSTags
    <3>3. goal \in Content
      BY <3>1, <3>2, BlankContent DEF Content
    <3>4. plan' \subseteq [call : CallNames, arg : Args]
      BY <2>2, <3>1, <3>3, PlanTyped
    <3>5. pc' \in Places /\ (pc' = "update" <=> plan' # {})
      BY <2>2 DEF After, Places
    <3> QED
      BY <2>2, <3>1, <3>3, <3>4, <3>5 DEF TypeOK, PlanInv
  <2> QED
    BY <1>7, <2>1, <2>2 DEF ListRoleTags
<1> QED
  BY <1>1, <1>2, <1>3, <1>4, <1>5, <1>6, <1>7 DEF Read

\* IAM supplies a session wherever the spec leaves it open.
LEMMA SessionTyped ==
  ASSUME NEW s \in Maybe(Sessions)
  PROVE  OrElse(s, DefaultSession) \in Sessions /\ OrElse(s, DefaultSession) # None
  BY ConstantsAssumption DEF ConstantsAssumption, OrElse, Maybe

\* And a path; a description it leaves as it is.
LEMMA PathTyped ==
  ASSUME NEW s \in Maybe(Paths)
  PROVE  OrElse(s, DefaultPath) \in Paths /\ OrElse(s, DefaultPath) # None
  BY ConstantsAssumption DEF ConstantsAssumption, OrElse, Maybe

LEMMA DescriptionTyped ==
  ASSUME NEW s \in Maybe(Descriptions), NEW t \in Maybe(Descriptions)
  PROVE  OrElse(s, t) \in Maybe(Descriptions)
  BY DEF OrElse, Maybe

\* Putting the finalizer on the CR and creating the role keep the shape.
LEMMA CreateShape == Shape /\ (MarkManaged \/ CreateRole) => Shape'
<1> SUFFICES ASSUME Shape, MarkManaged \/ CreateRole PROVE Shape'
    OBVIOUS
<1> USE DEF Shape, iamVars, copies, work
<1>1. CASE MarkManaged
  <2>1. CASE cr.here
    BY <2>1, <1>1 DEF MarkManaged, TypeOK, PlanInv, Places
  <2>2. CASE ~cr.here
    <3>1. Finish(cond) /\ UNCHANGED <<cr, exists, role, budget>>
      BY <2>2, <1>1 DEF MarkManaged
    <3> QED
      BY <3>1, FinishShape DEF TypeOK
  <2> QED
    BY <2>1, <2>2
<1>2. CASE CreateRole
  <2>1. CASE CallFails
    BY <2>1, CallFailsShape
  <2>2. CASE UNCHANGED <<cr, exists, role, budget>> /\ (Finish("Recoverable") \/ Finish("Terminal"))
    BY <2>2, FinishShape DEF TypeOK, Outcomes
  <2>3. CASE /\ exists' = TRUE
             /\ role' = [desired EXCEPT !.policies = {},
                                        !.inline = Blank.inline,
                                        !.session = OrElse(@, DefaultSession),
                                        !.path = OrElse(@, DefaultPath)]
             /\ Finish("Recoverable")
             /\ UNCHANGED <<cr, budget>>
    <3>1. OrElse(desired.session, DefaultSession) \in Sessions
          /\ OrElse(desired.session, DefaultSession) # None
      BY SessionTyped DEF TypeOK, Content
    <3>p. OrElse(desired.path, DefaultPath) \in Paths
          /\ OrElse(desired.path, DefaultPath) # None
      BY PathTyped DEF TypeOK, Content
    <3> DEFINE ses == OrElse(desired.session, DefaultSession)
               path == OrElse(desired.path, DefaultPath)
    <3>q. desired \in Content /\ Blank.inline \in [InlineNames -> Maybe(Docs)]
      BY BlankContent DEF TypeOK, Content
    <3>r. role' = [desired EXCEPT !.policies = {}, !.inline = Blank.inline,
                                  !.session = ses, !.path = path]
      BY <2>3
    <3>s. ses \in Sessions /\ ses # None /\ path \in Paths /\ path # None
      BY <3>1, <3>p
    <3> HIDE DEF ses, path
    <3>2. role' \in Content /\ role'.session # None /\ role'.path # None
      BY <3>q, <3>r, <3>s DEF Content, Maybe
    <3> QED
      BY <2>3, <3>2, FinishShape DEF TypeOK, Outcomes
  <2> QED
    BY <1>2, <2>1, <2>2, <2>3 DEF CreateRole
<1> QED
  BY <1>1, <1>2

\* A call of the plan that is answered.
LEMMA AnsweredShape ==
  ASSUME NEW done, NEW r \in Content, r.session # None, r.path # None, Shape, Answered(done, r)
  PROVE  Shape'
<1>1. plan' \subseteq plan /\ pc' \in Places /\ (pc' = "update" <=> plan' # {})
  BY DEF Answered, Proceed, After, Places
<1>2. UNCHANGED <<cr, cond, queued, exists, op, desired, latest, pending, drift, budget>>
      /\ role' = r /\ exists
  BY DEF Answered, Proceed, copies
<1> QED
  BY <1>1, <1>2 DEF Shape, TypeOK, PlanInv

\* What the argument of a planned call is.
LEMMA PlannedArg ==
  ASSUME NEW c \in plan, Shape
  PROVE  /\ c.call \in {"AttachRolePolicy", "DetachRolePolicy"} => c.arg \in PolicyARNs
         /\ c.call = "PutRolePolicy" => c.arg \in InlineNames /\ desired.inline[c.arg] # None
         /\ c.call = "DeleteRolePolicy" => c.arg \in InlineNames
<1>1. c \in Plan(desired, latest) /\ desired \in Content /\ latest \in Content
  BY DEF Shape, PlanInv, TypeOK
<1> QED
  BY <1>1 DEF Plan, SyncManagedPolicies, SyncInlinePolicies, SyncTags, SyncRolePermissionsBoundary,
              SyncSettings, When, Calls, InlineToAdd, InlineToDelete, Content

\* Every call of sdkUpdate and of sdkDelete's emptying keeps the shape.
LEMMA UpdateShape == Shape /\ SdkUpdate => Shape'
<1> SUFFICES ASSUME Shape, SdkUpdate PROVE Shape'
    OBVIOUS
<1>a. role \in Content /\ desired \in Content /\ latest \in Content
  BY DEF Shape, TypeOK
<1>b. exists => role.session # None /\ role.path # None
  BY DEF Shape, TypeOK
<1>c. ASSUME NEW o \in {"Recoverable", "Terminal"}, Finish(o), UNCHANGED <<cr, iamVars, budget>>
      PROVE  Shape'
  BY <1>c, FinishShape DEF Shape, TypeOK, Outcomes, iamVars
<1>d. ASSUME NEW done, NEW r, Answered(done, r) PROVE exists
  BY <1>d DEF Answered
<1>1. CASE AddManagedPolicy
  <2> PICK c \in DueCalls("AttachRolePolicy") :
        Answered({c}, [role EXCEPT !.policies = @ \cup {c.arg}])
    BY <1>1 DEF AddManagedPolicy
  <2>1. c \in plan /\ c.call = "AttachRolePolicy"
    BY DEF DueCalls
  <2> DEFINE r == [role EXCEPT !.policies = @ \cup {c.arg}]
  <2>2. r \in Content /\ r.session = role.session /\ r.path = role.path
    BY <1>a, <2>1, PlannedArg DEF Content
  <2> QED
    BY <1>b, <1>d, <2>2, AnsweredShape
<1>2. CASE RemoveManagedPolicy
  <2> PICK c \in DueCalls("DetachRolePolicy") :
        Answered({c}, [role EXCEPT !.policies = @ \ {c.arg}])
    BY <1>2 DEF RemoveManagedPolicy
  <2> DEFINE r == [role EXCEPT !.policies = @ \ {c.arg}]
  <2>1. r \in Content /\ r.session = role.session /\ r.path = role.path
    BY <1>a DEF Content
  <2> QED
    BY <1>b, <1>d, <2>1, AnsweredShape
<1>3. CASE AddInlinePolicy
  <2> PICK c \in DueCalls("PutRolePolicy") :
        LET doc == Unescape[desired.inline[c.arg]]
        IN  \/ /\ doc \notin Maybe(BadDocs)
               /\ Answered({c}, [role EXCEPT !.inline[c.arg] = doc])
            \/ /\ doc \in Maybe(BadDocs)
               /\ Finish(IF doc = None THEN "Recoverable" ELSE "Terminal")
               /\ UNCHANGED <<cr, iamVars, budget>>
    BY <1>3 DEF AddInlinePolicy
  <2> DEFINE doc == Unescape[desired.inline[c.arg]]
             r == [role EXCEPT !.inline[c.arg] = doc]
  <2>1. c \in plan /\ c.call = "PutRolePolicy"
    BY DEF DueCalls
  <2>2. doc \in Maybe(Docs)
    BY <1>a, <2>1, PlannedArg, ConstantsAssumption DEF ConstantsAssumption, Content, Maybe
  <2>3. CASE Answered({c}, r)
    <3>1. r \in Content /\ r.session = role.session /\ r.path = role.path
      BY <1>a, <2>2 DEF Content
    <3> QED
      BY <1>b, <1>d, <2>3, <3>1, AnsweredShape
  <2>4. CASE UNCHANGED <<cr, iamVars, budget>> /\ (Finish("Recoverable") \/ Finish("Terminal"))
    BY <2>4, <1>c
  <2> QED
    BY <2>3, <2>4
<1>4. CASE RemoveInlinePolicy
  <2> PICK c \in DueCalls("DeleteRolePolicy") :
        Answered({c}, [role EXCEPT !.inline[c.arg] = None])
    BY <1>4 DEF RemoveInlinePolicy
  <2> DEFINE r == [role EXCEPT !.inline[c.arg] = None]
  <2>1. r \in Content /\ r.session = role.session /\ r.path = role.path
    BY <1>a DEF Content, Maybe
  <2> QED
    BY <1>b, <1>d, <2>1, AnsweredShape
<1>5. CASE AddTags
  <2> DEFINE due == DueCalls("TagRole")
             r == [role EXCEPT !.tags = [k \in TagKeys |->
                     IF \E c \in due : c.arg = k THEN desired.tags[k] ELSE role.tags[k]]]
  <2>1. Answered(due, r)
    BY <1>5 DEF AddTags
  <2>2. r \in Content /\ r.session = role.session /\ r.path = role.path
    BY <1>a DEF Content
  <2> QED
    BY <1>b, <1>d, <2>1, <2>2, AnsweredShape
<1>6. CASE RemoveTags
  <2> DEFINE due == DueCalls("UntagRole")
             r == [role EXCEPT !.tags = [k \in TagKeys |->
                     IF \E c \in due : c.arg = k THEN None ELSE role.tags[k]]]
  <2>1. Answered(due, r)
    BY <1>6 DEF RemoveTags
  <2>2. r \in Content /\ r.session = role.session /\ r.path = role.path
    BY <1>a DEF Content, Maybe
  <2> QED
    BY <1>b, <1>d, <2>1, <2>2, AnsweredShape
<1>7. CASE PutRolePermissionsBoundary
  <2> DEFINE r == [role EXCEPT !.boundary = desired.boundary]
  <2>1. r \in Content /\ r.session = role.session /\ r.path = role.path
    BY <1>a DEF Content
  <2> QED
    BY <1>7, <1>b, <1>d, <2>1, AnsweredShape DEF PutRolePermissionsBoundary
<1>8. CASE DeleteRolePermissionsBoundary
  <2> DEFINE r == [role EXCEPT !.boundary = None]
  <2>1. r \in Content /\ r.session = role.session /\ r.path = role.path
    BY <1>a DEF Content, Maybe
  <2> QED
    BY <1>8, <1>b, <1>d, <2>1, AnsweredShape DEF DeleteRolePermissionsBoundary
<1>9. CASE PutAssumeRolePolicy
  <2> DEFINE r == [role EXCEPT !.assume = desired.assume]
  <2>1. r \in Content /\ r.session = role.session /\ r.path = role.path
    BY <1>a DEF Content
  <2> QED
    BY <1>9, <1>b, <1>c, <1>d, <2>1, AnsweredShape DEF PutAssumeRolePolicy
<1>10. CASE UpdateRole
  <2> DEFINE r == [role EXCEPT !.session = OrElse(desired.session, DefaultSession),
                            !.description = OrElse(desired.description, @)]
  <2>1. /\ OrElse(desired.session, DefaultSession) \in Sessions
        /\ OrElse(desired.session, DefaultSession) # None
        /\ OrElse(desired.description, role.description) \in Maybe(Descriptions)
    BY <1>a, SessionTyped, DescriptionTyped DEF Content
  <2>2. r \in Content /\ r.session # None /\ r.path = role.path
    BY <1>a, <2>1 DEF Content, Maybe
  <2> QED
    BY <1>10, <1>b, <1>c, <1>d, <2>2, AnsweredShape DEF UpdateRole
<1>11. CASE UpdateFails
  BY <1>11, CallFailsShape, RoleVanishedShape DEF UpdateFails
<1> QED
  BY <1>1, <1>2, <1>3, <1>4, <1>5, <1>6, <1>7, <1>8, <1>9, <1>10, <1>11 DEF SdkUpdate

\* So do late initialization, the deletion and every step of the environment.
LEMMA RestShape ==
  Shape /\ (LateInitialize \/ Patch \/ DeleteRole \/ MarkUnmanaged \/ Crash \/ EditSpec
            \/ DeleteCR \/ Drift) => Shape'
<1> SUFFICES ASSUME Shape, LateInitialize \/ Patch \/ DeleteRole \/ MarkUnmanaged \/ Crash
                           \/ EditSpec \/ DeleteCR \/ Drift
             PROVE  Shape'
    OBVIOUS
<1> USE DEF Shape, iamVars, copies, work
<1>a. /\ cr \in [here : BOOLEAN, deleting : BOOLEAN, managed : BOOLEAN, spec : Content]
      /\ role \in Content /\ latest \in Content /\ desired \in Content
  BY DEF TypeOK
<1>1. CASE LateInitialize
  <2>1. CASE RoleVanished \/ CallFails
    BY <2>1, CallFailsShape, RoleVanishedShape
  <2>2. CASE /\ pc = "lateInit" /\ pc' = "patch"
             /\ latest' = [latest EXCEPT !.session = role.session, !.path = role.path]
             /\ UNCHANGED <<cr, cond, queued, iamVars, op, desired, work, drift, budget>>
    <3>1. latest' \in Content
      BY <1>a, <2>2 DEF Content
    <3>2. plan = {}
      BY <2>2 DEF TypeOK
    <3> QED
      BY <2>2, <3>1, <3>2 DEF TypeOK, PlanInv, Places
  <2> QED
    BY <1>1, <2>1, <2>2 DEF LateInitialize
<1>2. CASE Patch
  <2>1. PICK ses \in Maybe(Sessions), path \in Maybe(Paths) :
           cr' = [cr EXCEPT !.spec = [cr.spec EXCEPT !.session = ses, !.path = path]]
    <3>1. /\ cr.spec.session \in Maybe(Sessions) /\ latest.session \in Maybe(Sessions)
          /\ cr.spec.path \in Maybe(Paths) /\ latest.path \in Maybe(Paths)
      BY <1>a DEF Content
    <3> DEFINE ses == IF desired.session = None THEN latest.session ELSE cr.spec.session
               path == IF desired.path = None THEN latest.path ELSE cr.spec.path
    <3>2. cr' = [cr EXCEPT !.spec = [cr.spec EXCEPT !.session = ses, !.path = path]]
      BY <1>2, <1>a DEF Patch, Content
    <3>3. ses \in Maybe(Sessions) /\ path \in Maybe(Paths)
      BY <3>1
    <3> QED
      BY <3>2, <3>3
  <2>2. cr' = [cr EXCEPT !.spec = [cr.spec EXCEPT !.session = ses, !.path = path]]
    BY <2>1
  <2>3. [cr.spec EXCEPT !.session = ses, !.path = path] \in Content
    BY <1>a, <2>1 DEF Content
  <2>4. cr' \in [here : BOOLEAN, deleting : BOOLEAN, managed : BOOLEAN, spec : Content]
    BY <1>a, <2>2, <2>3
  <2> QED
    BY <1>2, <2>4, FinishShape DEF Patch, TypeOK, Outcomes
<1>3. CASE DeleteRole
  <2>1. CASE RoleVanished \/ CallFails
    BY <2>1, CallFailsShape, RoleVanishedShape
  <2>2. CASE Finish("Recoverable") /\ UNCHANGED <<cr, iamVars, budget>>
    BY <2>2, FinishShape DEF TypeOK, Outcomes
  <2>3. CASE /\ pc = "deleteRole" /\ pc' = "unmanage"
             /\ exists' = FALSE /\ role' = Blank
             /\ UNCHANGED <<cr, cond, queued, copies, work, drift, budget>>
    BY <2>3, BlankContent DEF TypeOK, PlanInv, Places
  <2> QED
    BY <1>3, <2>1, <2>2, <2>3 DEF DeleteRole
<1>4. CASE MarkUnmanaged
  <2>1. cr' \in [here : BOOLEAN, deleting : BOOLEAN, managed : BOOLEAN, spec : Content]
    BY <1>a, <1>4 DEF MarkUnmanaged
  <2> QED
    BY <1>4, <2>1, FinishShape DEF MarkUnmanaged, TypeOK
<1>5. CASE Crash
  <2>1. budget' \in [Misfortunes -> Nat]
    BY <1>5, SpendTyped DEF Crash, Misfortunes
  <2> QED
    BY <1>5, <2>1, BlankContent DEF Crash, TypeOK, PlanInv, Places
<1>6. CASE EditSpec
  <2>1. budget' \in [Misfortunes -> Nat]
    BY <1>6, SpendTyped DEF EditSpec, Misfortunes
  <2>2. cr' \in [here : BOOLEAN, deleting : BOOLEAN, managed : BOOLEAN, spec : Content]
    BY <1>a, <1>6, SpecsContent DEF EditSpec
  <2> QED
    BY <1>6, <2>1, <2>2 DEF EditSpec, TypeOK, PlanInv
<1>7. CASE DeleteCR
  <2>1. cr' \in [here : BOOLEAN, deleting : BOOLEAN, managed : BOOLEAN, spec : Content]
    BY <1>a, <1>7 DEF DeleteCR
  <2> QED
    BY <1>7, <2>1 DEF DeleteCR, TypeOK, PlanInv
<1>8. CASE Drift
  <2>1. budget' \in [Misfortunes -> Nat] /\ drift' = TRUE
        /\ UNCHANGED <<cr, cond, queued, pc, copies, work>>
    BY <1>8, SpendTyped DEF Drift, Misfortunes
  <2>2. exists' \in BOOLEAN /\ role' \in Content
        /\ (IF exists' THEN role'.session # None /\ role'.path # None ELSE role' = Blank)
    <3>0. exists /\ role.session # None /\ role.path # None
      BY <1>8 DEF Drift, TypeOK
    <3>1. CASE exists' = FALSE /\ role' = Blank
      BY <3>1, BlankContent
    <3>2. CASE exists' = exists /\ \E p \in PolicyARNs :
                  \/ role' = [role EXCEPT !.policies = @ \cup {p}]
                  \/ role' = [role EXCEPT !.policies = @ \ {p}]
      BY <1>a, <3>0, <3>2 DEF Content
    <3>3. CASE exists' = exists /\ \E n \in InlineNames : role' = [role EXCEPT !.inline[n] = None]
      <4> PICK n \in InlineNames : role' = [role EXCEPT !.inline = [role.inline EXCEPT ![n] = None]]
        BY <3>3
      <4>1. [role.inline EXCEPT ![n] = None] \in [InlineNames -> Maybe(Docs)]
        BY <1>a DEF Content, Maybe
      <4> QED
        BY <1>a, <3>0, <3>3, <4>1 DEF Content
    <3>4. CASE exists' = exists /\ \E k \in SystemKeys, v \in TagValues :
                  role' = [role EXCEPT !.tags[k] = v]
      <4> PICK k \in SystemKeys, v \in TagValues :
              role' = [role EXCEPT !.tags = [role.tags EXCEPT ![k] = v]]
        BY <3>4
      <4>1. [role.tags EXCEPT ![k] = v] \in [TagKeys -> Maybe(TagValues)]
        BY <1>a DEF Content, Maybe
      <4> QED
        BY <1>a, <3>0, <3>4, <4>1 DEF Content
    <3> QED
      BY <1>8, <3>1, <3>2, <3>3, <3>4 DEF Drift
  <2> QED
    BY <2>1, <2>2 DEF TypeOK, PlanInv
<1> QED
  BY <1>1, <1>2, <1>3, <1>4, <1>5, <1>6, <1>7, <1>8

\* Every step keeps the types and the plan.
LEMMA StepShape == Shape /\ [Next]_vars => Shape'
<1> SUFFICES ASSUME Shape, [Next]_vars PROVE Shape'
    OBVIOUS
<1>1. CASE UNCHANGED vars
  BY <1>1 DEF vars, Shape, TypeOK, PlanInv
<1>2. CASE Next
  BY <1>2, ReadShape, CreateShape, UpdateShape, RestShape DEF Next, Controller, Environment
<1> QED
  BY <1>1, <1>2

\* However the reconciles, the users, the failures, the crashes and others' changes
\* follow one another, every variable of Role keeps its type; above all a role in
\* A role in IAM always has a session and a path, and what is planned are calls the code can make.
THEOREM TypeCorrect == Spec => []TypeOK
<1>1. Init => Shape
  BY InitShape
<1>2. Shape /\ [Next]_vars => Shape'
  BY StepShape
<1>3. Shape => TypeOK
  BY DEF Shape
<1> QED
  BY <1>1, <1>2, <1>3, PTL DEF Spec

-----------------------------------------------------------------------------
(* The life of the CR and its role.                                        *)

CRs == [here : BOOLEAN, deleting : BOOLEAN, managed : BOOLEAN, spec : Content]

\* A reconcile that ends while the role and the finalizer stay as they are.
LEMMA FinishLife ==
  ASSUME NEW o, Finish(o), LifeInv, cr \in CRs, cr' \in CRs,
         cr'.here = cr.here, cr'.managed = cr.managed, cr'.deleting = cr.deleting, exists' = exists
  PROVE  LifeInv'
  BY DEF Finish, LifeInv, NoOrphan

\* A call that fails leaves the CR and the role as they are.
LEMMA FailureLife == Shape /\ LifeInv /\ (RoleVanished \/ CallFails) => LifeInv'
  BY FinishLife DEF RoleVanished, CallFails, iamVars, Shape, TypeOK, CRs

\* So does any step that only moves on within a reconcile or only reads.
LEMMA ReadLife == Shape /\ LifeInv /\ (Reconcile \/ Resync \/ Read) => LifeInv'
<1> SUFFICES ASSUME Shape, LifeInv, Reconcile \/ Resync \/ Read PROVE LifeInv'
    OBVIOUS
<1> USE DEF iamVars, copies, work
<1>1. CASE Reconcile
  BY <1>1 DEF Reconcile, LifeInv, NoOrphan
<1>2. CASE Resync
  BY <1>2 DEF Resync, LifeInv, NoOrphan
<1>3. CASE RoleVanished \/ CallFails
  BY <1>3, FailureLife
<1>4. CASE NotFound /\ ~exists
  BY <1>4 DEF NotFound, LifeInv, NoOrphan, Shape, TypeOK
<1>5. CASE Finish("Recoverable") /\ UNCHANGED <<cr, iamVars, budget>>
  BY <1>5, FinishLife DEF Shape, TypeOK, CRs
<1>6. CASE UNCHANGED <<cr, exists, op>>
           /\ pc' \in {"listPolicies", "listInline", "getInline", "update"}
  BY <1>6 DEF LifeInv, NoOrphan
<1>7. CASE UNCHANGED <<cr, exists, op>>
           /\ pc' = (IF op = "delete" THEN "deleteRole" ELSE "lateInit")
  BY <1>7 DEF LifeInv, NoOrphan, Shape, TypeOK
<1>8. CASE GetRole
  BY <1>8, <1>3, <1>4, <1>6 DEF GetRole
<1>9. CASE ListAttachedRolePolicies
  BY <1>9, <1>3, <1>6 DEF ListAttachedRolePolicies
<1>10. CASE ListRolePolicies
  BY <1>10, <1>3, <1>6 DEF ListRolePolicies
<1>11. CASE GetRolePolicy
  BY <1>11, <1>3, <1>5, <1>6 DEF GetRolePolicy
<1>12. CASE ListRoleTags
  BY <1>12, <1>3, <1>6, <1>7 DEF ListRoleTags, After
<1> QED
  BY <1>1, <1>2, <1>8, <1>9, <1>10, <1>11, <1>12 DEF Read

\* The call of sdkUpdate or sdkDelete that was made last leads on to the next one, or
\* to what follows the update or the emptying.
LEMMA UpdateLife == Shape /\ LifeInv /\ SdkUpdate => LifeInv'
<1> SUFFICES ASSUME Shape, LifeInv, SdkUpdate PROVE LifeInv'
    OBVIOUS
<1>1. ASSUME NEW done, NEW r, Answered(done, r) PROVE LifeInv'
  BY <1>1 DEF Answered, Proceed, After, copies, LifeInv, NoOrphan, Shape, TypeOK
<1>2. ASSUME NEW o, Finish(o), UNCHANGED <<cr, iamVars, budget>> PROVE LifeInv'
  BY <1>2, FinishLife DEF iamVars, Shape, TypeOK, CRs
<1>3. CASE AddManagedPolicy \/ RemoveManagedPolicy \/ AddInlinePolicy \/ RemoveInlinePolicy
  BY <1>3, <1>1, <1>2 DEF AddManagedPolicy, RemoveManagedPolicy, AddInlinePolicy, RemoveInlinePolicy
<1>4. CASE AddTags \/ RemoveTags \/ PutRolePermissionsBoundary \/ DeleteRolePermissionsBoundary
  BY <1>4, <1>1
     DEF AddTags, RemoveTags, PutRolePermissionsBoundary, DeleteRolePermissionsBoundary
<1>5. CASE PutAssumeRolePolicy \/ UpdateRole
  BY <1>5, <1>1, <1>2 DEF PutAssumeRolePolicy, UpdateRole
<1>6. CASE UpdateFails
  BY <1>6, FailureLife DEF UpdateFails
<1> QED
  BY <1>3, <1>4, <1>5, <1>6 DEF SdkUpdate

\* The finalizer is on the CR before the role is created, and off it only after the
\* role was deleted, whatever others do meanwhile.
LEMMA RestLife ==
  Shape /\ LifeInv /\ (MarkManaged \/ CreateRole \/ LateInitialize \/ Patch \/ DeleteRole
                      \/ MarkUnmanaged \/ Crash \/ EditSpec \/ DeleteCR \/ Drift) => LifeInv'
<1> SUFFICES ASSUME Shape, LifeInv,
                    MarkManaged \/ CreateRole \/ LateInitialize \/ Patch \/ DeleteRole
                      \/ MarkUnmanaged \/ Crash \/ EditSpec \/ DeleteCR \/ Drift
             PROVE  LifeInv'
    OBVIOUS
<1> USE DEF iamVars, copies, work
<1>a. cr \in CRs /\ exists \in BOOLEAN
  BY DEF Shape, TypeOK, CRs
<1>b. CASE RoleVanished \/ CallFails
  BY <1>b, FailureLife
<1>c. ASSUME NEW o, Finish(o), UNCHANGED <<cr, iamVars, budget>> PROVE LifeInv'
  BY <1>a, <1>c, FinishLife
<1>1. CASE MarkManaged
  BY <1>1, <1>a DEF MarkManaged, Finish, LifeInv, NoOrphan, CRs
<1>2. CASE CreateRole
  <2>1. CASE pc = "create" /\ exists' = TRUE /\ Finish("Recoverable") /\ UNCHANGED <<cr, budget>>
    BY <2>1 DEF Finish, LifeInv, NoOrphan
  <2>2. CASE UNCHANGED <<cr, iamVars, budget>> /\ (Finish("Recoverable") \/ Finish("Terminal"))
    BY <2>2, <1>c
  <2> QED
    BY <1>2, <1>b, <2>1, <2>2 DEF CreateRole
<1>3. CASE LateInitialize
  BY <1>3, <1>b DEF LateInitialize, LifeInv, NoOrphan
<1>4. CASE Patch
  <2>1. cr'.here = cr.here /\ cr'.managed = cr.managed /\ cr'.deleting = cr.deleting
    BY <1>4, <1>a DEF Patch, CRs
  <2>2. cr' \in CRs
    BY <1>4, RestShape DEF Shape, TypeOK, CRs
  <2> QED
    BY <1>4, <1>a, <2>1, <2>2, FinishLife DEF Patch
<1>5. CASE DeleteRole
  <2>1. CASE pc = "deleteRole" /\ exists' = FALSE /\ pc' = "unmanage"
             /\ UNCHANGED <<cr, cond, queued, copies, work, drift, budget>>
    BY <2>1 DEF LifeInv, NoOrphan
  <2> QED
    BY <1>5, <1>b, <1>c, <2>1 DEF DeleteRole
<1>6. CASE MarkUnmanaged
  BY <1>6, <1>a DEF MarkUnmanaged, Finish, LifeInv, NoOrphan, CRs
<1>7. CASE Crash
  BY <1>7 DEF Crash, LifeInv, NoOrphan
<1>8. CASE EditSpec
  BY <1>8, <1>a DEF EditSpec, LifeInv, NoOrphan, CRs
<1>9. CASE DeleteCR
  BY <1>9, <1>a DEF DeleteCR, LifeInv, NoOrphan, CRs
<1>10. CASE Drift
  <2>1. UNCHANGED <<cr, pc, op>> /\ (exists' => exists)
    BY <1>10 DEF Drift
  <2> QED
    BY <2>1 DEF LifeInv, NoOrphan
<1> QED
  BY <1>1, <1>2, <1>3, <1>4, <1>5, <1>6, <1>7, <1>8, <1>9, <1>10

\* The conjunction that every reachable state satisfies.
Life == Shape /\ LifeInv

\* It holds initially.
LEMMA InitLife == Init => Life
<1> SUFFICES ASSUME Init PROVE LifeInv
    BY InitShape DEF Life
<1>1. cr.here /\ ~cr.deleting /\ ~exists /\ pc = "idle" /\ op = "sync"
  BY DEF Init
<1> QED
  BY <1>1 DEF LifeInv, NoOrphan

\* It is kept by every step.
LEMMA StepLife == Life /\ [Next]_vars => Life'
<1> SUFFICES ASSUME Life, [Next]_vars PROVE Life'
    OBVIOUS
<1>1. Shape'
  BY StepShape DEF Life
<1>2. CASE UNCHANGED vars
  BY <1>1, <1>2 DEF vars, Life, LifeInv, NoOrphan
<1>3. CASE Next
  BY <1>1, <1>3, ReadLife, UpdateLife, RestLife DEF Life, Next, Controller, Environment
<1> QED
  BY <1>2, <1>3

\* No role is left behind: while a role exists in IAM, its CR is there and carries the
\* finalizer, through crashes, failed calls, edits and deletions at any moment.
THEOREM NothingOrphaned == Spec => []NoOrphan
<1>1. Life => NoOrphan
  BY DEF Life, LifeInv
<1> QED
  BY <1>1, InitLife, StepLife, PTL DEF Spec

-----------------------------------------------------------------------------
(* Role implements Lifecycle.                                              *)

LifeVars == <<cr.here, cr.managed, cr.deleting, exists>>

\* The initial states of Role are initial states of Lifecycle.
LEMMA InitMaps == Init => L!Init
<1> SUFFICES ASSUME Init PROVE L!Init
    OBVIOUS
<1>1. cr.here = TRUE /\ cr.managed = FALSE /\ cr.deleting = FALSE /\ exists = FALSE
  BY DEF Init
<1> QED
  BY <1>1 DEF L!Init

\* A call that fails is invisible in Lifecycle.
LEMMA FailureStutters == RoleVanished \/ CallFails => UNCHANGED LifeVars
  BY DEF RoleVanished, CallFails, iamVars, LifeVars

\* All a reconcile does between its start and its end is invisible, except for the
\* finalizer and for the role coming and going.
LEMMA WorkStutters ==
  Reconcile \/ Resync \/ Read \/ SdkUpdate \/ LateInitialize \/ Crash => UNCHANGED LifeVars
<1> SUFFICES ASSUME Reconcile \/ Resync \/ Read \/ SdkUpdate \/ LateInitialize \/ Crash
             PROVE  UNCHANGED LifeVars
    OBVIOUS
<1> USE FailureStutters DEF LifeVars, iamVars
<1>1. CASE Reconcile \/ Resync \/ LateInitialize \/ Crash
  BY <1>1 DEF Reconcile, Resync, LateInitialize, Crash
<1>2. CASE Read
  BY <1>2 DEF Read, GetRole, NotFound, ListAttachedRolePolicies, ListRolePolicies,
              GetRolePolicy, ListRoleTags
<1>3. CASE SdkUpdate
  <2>1. ASSUME NEW done, NEW r, Answered(done, r) PROVE UNCHANGED LifeVars
    BY <2>1 DEF Answered, Proceed
  <2>2. CASE AddManagedPolicy \/ RemoveManagedPolicy \/ AddInlinePolicy \/ RemoveInlinePolicy
    BY <2>1, <2>2
       DEF AddManagedPolicy, RemoveManagedPolicy, AddInlinePolicy, RemoveInlinePolicy
  <2>3. CASE AddTags \/ RemoveTags \/ PutRolePermissionsBoundary
             \/ DeleteRolePermissionsBoundary
    BY <2>1, <2>3
       DEF AddTags, RemoveTags, PutRolePermissionsBoundary, DeleteRolePermissionsBoundary
  <2>4. CASE PutAssumeRolePolicy \/ UpdateRole \/ UpdateFails
    BY <2>1, <2>4 DEF PutAssumeRolePolicy, UpdateRole, UpdateFails
  <2> QED
    BY <1>3, <2>2, <2>3, <2>4 DEF SdkUpdate
<1> QED
  BY <1>1, <1>2, <1>3

\* Every step of Role is a step of Lifecycle, or changes nothing that it shows.
LEMMA StepMaps == Life /\ [Next]_vars => [L!Next]_LifeVars
<1> SUFFICES ASSUME Life, [Next]_vars PROVE L!Next \/ UNCHANGED LifeVars
    OBVIOUS
<1> USE DEF LifeVars, iamVars
<1>a. cr \in CRs /\ exists \in BOOLEAN
  BY DEF Life, Shape, TypeOK, CRs
<1>b. cr' \in CRs /\ exists' \in BOOLEAN
  BY StepShape DEF Life, Shape, TypeOK, CRs
<1>1. CASE UNCHANGED vars
  BY <1>1 DEF vars
<1>2. CASE Reconcile \/ Resync \/ Read \/ SdkUpdate \/ LateInitialize \/ Crash
  BY <1>2, WorkStutters
<1>3. CASE MarkManaged
  <2>1. CASE cr' = [cr EXCEPT !.managed = TRUE] /\ cr.here /\ exists' = exists
    <3>1. CASE cr.managed
      BY <2>1, <3>1, <1>a DEF CRs
    <3>2. CASE ~cr.managed
      BY <2>1, <3>2, <1>a DEF CRs, Life, LifeInv, L!Next, L!Claim
    <3> QED
      BY <3>1, <3>2
  <2> QED
    BY <1>3, <2>1 DEF MarkManaged
<1>4. CASE CreateRole
  <2>1. CASE pc = "create" /\ exists' = TRUE /\ cr' = cr
    BY <2>1 DEF Life, LifeInv, L!Next, L!Create
  <2>2. CASE UNCHANGED <<cr, exists>>
    BY <2>2
  <2> QED
    BY <1>4, <2>1, <2>2, FailureStutters DEF CreateRole
<1>5. CASE Patch
  <2>1. cr'.here = cr.here /\ cr'.managed = cr.managed /\ cr'.deleting = cr.deleting
    BY <1>5, <1>a DEF Patch, CRs
  <2> QED
    BY <1>5, <2>1 DEF Patch
<1>6. CASE DeleteRole
  <2>1. CASE exists /\ exists' = FALSE /\ cr' = cr
    BY <2>1 DEF L!Next, L!Destroy
  <2>2. CASE UNCHANGED <<cr, exists>>
    BY <2>2
  <2> QED
    BY <1>6, <2>1, <2>2, FailureStutters DEF DeleteRole
<1>7. CASE MarkUnmanaged
  <2>1. cr' = [cr EXCEPT !.managed = FALSE, !.here = FALSE] /\ exists' = exists
    BY <1>7 DEF MarkUnmanaged
  <2>2. cr.here /\ cr.managed /\ cr.deleting /\ ~exists
    BY <1>7 DEF MarkUnmanaged, Life, LifeInv
  <2> QED
    BY <2>1, <2>2, <1>a DEF CRs, L!Next, L!Release
<1>8. CASE EditSpec
  BY <1>8, <1>a DEF EditSpec, CRs
<1>9. CASE DeleteCR
  BY <1>9, <1>a DEF DeleteCR, CRs, L!Next, L!AskDelete
<1>10. CASE Drift
  <2>1. cr' = cr /\ exists /\ (exists' = exists \/ exists' = FALSE)
    BY <1>10 DEF Drift
  <2> QED
    BY <2>1, <1>a DEF L!Next, L!Destroy
<1> QED
  BY <1>1, <1>2, <1>3, <1>4, <1>5, <1>6, <1>7, <1>8, <1>9, <1>10
     DEF Next, Controller, Environment

\* The detailed controller implements the abstract life cycle: the role is created only
\* for a CR with the finalizer, and the CR goes away only after the role.
THEOREM RoleImplementsLifecycle == Spec => ImplementsLifecycle
<1>1. Life /\ [Next]_vars => [L!Next]_(L!vars)
  BY StepMaps DEF LifeVars, L!vars
<1> QED
  BY <1>1, InitLife, StepLife, InitMaps, PTL DEF Spec, ImplementsLifecycle, L!Spec

-----------------------------------------------------------------------------
(* What an update of a role that nobody else touches goes through.         *)

\* The attachments and detachments that a comparison of two copies yields.
LEMMA PlannedPolicies ==
  ASSUME NEW d \in Content, NEW l \in Content
  PROVE  /\ \A p \in d.policies \ l.policies : Attach(p) \in Plan(d, l)
         /\ \A p \in l.policies \ d.policies : Detach(p) \in Plan(d, l)
         /\ \A c \in Plan(d, l) :
               /\ c.call = "AttachRolePolicy" => c.arg \in d.policies \ l.policies
               /\ c.call = "DetachRolePolicy" => c.arg \in l.policies \ d.policies
  BY DEF Plan, SyncManagedPolicies, SyncInlinePolicies, SyncTags, SyncRolePermissionsBoundary,
         SyncSettings, When, Calls, InlineToAdd, InlineToDelete, Attach, Detach

\* No inline policy that both copies have is ever deleted.
LEMMA PlannedDeletions ==
  ASSUME NEW d \in Content, NEW l \in Content, NEW c \in Plan(d, l), c.call = "DeleteRolePolicy"
  PROVE  d.inline[c.arg] = None
  BY DEF Plan, SyncManagedPolicies, SyncInlinePolicies, SyncTags, SyncRolePermissionsBoundary,
         SyncSettings, When, Calls, InlineToAdd, InlineToDelete

\* Outside of reads and updates the invariants of this part say nothing.
Elsewhere == pc \notin {"listPolicies", "listInline", "getInline", "update"}

\* A reconcile that ends, or that a failed call ends, is elsewhere.
LEMMA FailureElsewhere == RoleVanished \/ CallFails => Elsewhere'
  BY DEF RoleVanished, CallFails, Finish, Elsewhere

\* Elsewhere, both invariants hold.
LEMMA ElsewhereKept == Elsewhere' => PoliciesInv' /\ InlineInv'
  BY DEF Elsewhere, PoliciesInv, InlineInv, InlineNeverMissing, Updating

\* What these invariants talk about.
observed == <<role, pc, op, desired, latest, pending, plan, drift>>

\* Steps that touch nothing of it keep them.
LEMMA UnobservedKept ==
  PoliciesInv /\ InlineInv /\ UNCHANGED observed => PoliciesInv' /\ InlineInv'
  BY DEF observed, PoliciesInv, InlineInv, InlineNeverMissing, Updating

\* All steps but the reads and the calls of the update are of these two sorts, or
\* are those of somebody else.
LEMMA OtherKept ==
  ASSUME Shape, PoliciesInv, InlineInv,
         \/ Reconcile \/ Resync \/ MarkManaged \/ CreateRole \/ LateInitialize \/ Patch
         \/ DeleteRole \/ MarkUnmanaged \/ Crash \/ EditSpec \/ DeleteCR \/ Drift \/ UpdateFails
  PROVE  PoliciesInv' /\ InlineInv'
<1> USE DEF copies, work, iamVars
<1>1. CASE Reconcile
  BY <1>1, ElsewhereKept DEF Reconcile, Elsewhere
<1>2. CASE Resync \/ EditSpec \/ DeleteCR
  BY <1>2, UnobservedKept DEF Resync, EditSpec, DeleteCR, observed
<1>3. CASE MarkManaged \/ CreateRole \/ LateInitialize \/ Patch \/ DeleteRole \/ MarkUnmanaged
  BY <1>3, ElsewhereKept, FailureElsewhere
     DEF MarkManaged, CreateRole, LateInitialize, Patch, DeleteRole, MarkUnmanaged, Finish, Elsewhere
<1>4. CASE Crash \/ UpdateFails
  BY <1>4, ElsewhereKept, FailureElsewhere DEF Crash, UpdateFails, Elsewhere
<1>5. CASE Drift
  BY <1>5 DEF Drift, PoliciesInv, InlineInv
<1> QED
  BY <1>1, <1>2, <1>3, <1>4, <1>5

\* The reads hand over what the role is like to the update.
LEMMA ReadKept ==
  ASSUME Shape, PoliciesInv, InlineInv, Read
  PROVE  PoliciesInv' /\ InlineInv'
<1> USE DEF copies, work, iamVars
<1>a. latest \in Content /\ role \in Content /\ desired \in Content /\ pending \subseteq InlineNames
  BY DEF Shape, TypeOK
<1>b. CASE RoleVanished \/ CallFails
  BY <1>b, ElsewhereKept, FailureElsewhere
<1>1. CASE GetRole
  <2>1. CASE NotFound
    BY <2>1, ElsewhereKept DEF NotFound, Elsewhere
  <2>2. CASE pc' = "listPolicies" /\ latest' = [Blank EXCEPT !.boundary = role.boundary,
                                                            !.assume = role.assume,
                                                            !.session = role.session,
                                                            !.path = role.path,
                                                            !.description = role.description]
    <3>1. latest'.inline = Blank.inline
      BY <2>2, BlankContent DEF Content
    <3> QED
      BY <2>2, <3>1 DEF PoliciesInv, InlineInv, InlineNeverMissing, Updating, Blank
  <2> QED
    BY <1>1, <1>b, <2>1, <2>2 DEF GetRole
<1>2. CASE ListAttachedRolePolicies
  <2>1. CASE /\ pc = "listPolicies" /\ pc' = "listInline"
             /\ latest' = [latest EXCEPT !.policies = role.policies]
             /\ UNCHANGED <<role, drift>>
    <3>1. latest'.inline = latest.inline /\ latest'.policies = role.policies
      BY <2>1, <1>a DEF Content
    <3>2. PoliciesInv'
      BY <2>1, <3>1 DEF PoliciesInv, Updating
    <3>3. InlineInv'
      BY <2>1, <3>1 DEF InlineInv, InlineNeverMissing, Updating, Blank
    <3> QED
      BY <3>2, <3>3
  <2> QED
    BY <1>2, <1>b, <2>1 DEF ListAttachedRolePolicies
<1>3. CASE ListRolePolicies
  <2>1. CASE /\ pc = "listInline" /\ pc' = "getInline"
             /\ pending' = {n \in InlineNames : role.inline[n] # None}
             /\ UNCHANGED <<role, latest, drift>>
    <3>1. PoliciesInv'
      BY <2>1 DEF PoliciesInv, Updating
    <3>2. ~drift => latest.inline = [n \in InlineNames |-> None]
      BY <2>1 DEF InlineInv, Blank
    <3>3. InlineInv'
      BY <2>1, <3>2 DEF InlineInv, InlineNeverMissing, Updating
    <3> QED
      BY <3>1, <3>3
  <2> QED
    BY <1>3, <1>b, <2>1 DEF ListRolePolicies
<1>4. CASE GetRolePolicy
  <2> PICK n \in pending :
        \/ /\ role.inline[n] # None
           /\ latest' = [latest EXCEPT !.inline[n] = role.inline[n]]
           /\ pending' = pending \ {n}
           /\ UNCHANGED <<cr, cond, queued, iamVars, pc, op, desired, plan, drift, budget>>
        \/ Finish("Recoverable")
        \/ CallFails
    BY <1>4 DEF GetRolePolicy
  <2>1. CASE Finish("Recoverable") \/ CallFails
    BY <2>1, ElsewhereKept, FailureElsewhere DEF Finish, Elsewhere
  <2>2. CASE /\ latest' = [latest EXCEPT !.inline[n] = role.inline[n]]
             /\ pending' = pending \ {n}
             /\ UNCHANGED <<role, pc, drift>>
    <3>0. pc = "getInline"
      BY <1>4 DEF GetRolePolicy
    <3>1. latest'.policies = latest.policies /\ n \in InlineNames
          /\ \A m \in InlineNames :
                latest'.inline[m] = IF m = n THEN role.inline[n] ELSE latest.inline[m]
      BY <2>2, <1>a DEF Content
    <3>2. PoliciesInv'
      BY <2>2, <3>0, <3>1 DEF PoliciesInv, Updating
    <3>3. InlineInv'
      BY <2>2, <3>0, <3>1 DEF InlineInv, InlineNeverMissing, Updating
    <3> QED
      BY <3>2, <3>3
  <2> QED
    BY <2>1, <2>2
<1>5. CASE ListRoleTags
  <2> DEFINE found == [latest EXCEPT !.tags = role.tags]
             goal  == MirrorAWSTags(desired, found)
  <2>1. CASE pc' = After(plan') /\ op' = op /\ (op = "delete" \/ pc' # "update")
    <3>1. pc' \in {"update", "deleteRole", "lateInit"}
      BY <2>1 DEF After
    <3> QED
      BY <2>1, <3>1 DEF PoliciesInv, InlineInv, InlineNeverMissing, Updating
  <2>2. CASE /\ pc = "getInline" /\ pending = {} /\ pc' = "update"
             /\ latest' = found /\ desired' = goal /\ plan' = Plan(goal, found)
             /\ UNCHANGED <<role, drift>>
    <3>1. found \in Content /\ found.policies = latest.policies /\ found.inline = latest.inline
      BY <1>a DEF Content
    <3>2. goal \in Content /\ goal.policies = desired.policies
      BY <1>a, <3>1 DEF Content, MirrorAWSTags
    <3>3. PoliciesInv'
      <4>1. /\ \A p \in goal.policies \ found.policies : Attach(p) \in Plan(goal, found)
            /\ \A p \in found.policies \ goal.policies : Detach(p) \in Plan(goal, found)
        BY <3>1, <3>2, PlannedPolicies
      <4>2. ~drift => found.policies = role.policies
        BY <2>2, <3>1 DEF PoliciesInv
      <4>3. pc' = "update" /\ latest'.policies = found.policies /\ desired'.policies = goal.policies
            /\ plan' = Plan(goal, found) /\ role' = role /\ drift' = drift
        BY <2>2
      <4> HIDE DEF found, goal
      <4> QED
        BY <4>1, <4>2, <4>3 DEF PoliciesInv, Updating
    <3>4. InlineInv'
      BY <2>2, <3>1 DEF InlineInv, InlineNeverMissing, Updating
    <3> QED
      BY <3>3, <3>4
  <2>3. \/ RoleVanished \/ CallFails
        \/ pc' = After(plan') /\ op' = op /\ (op = "delete" \/ pc' # "update")
        \/ /\ pc = "getInline" /\ pending = {} /\ pc' = "update"
           /\ latest' = found /\ desired' = goal /\ plan' = Plan(goal, found)
           /\ UNCHANGED <<role, drift>>
    BY <1>5 DEF ListRoleTags
  <2> QED
    BY <1>b, <2>1, <2>2, <2>3
<1> QED
  BY <1>1, <1>2, <1>3, <1>4, <1>5 DEF Read

\* A call of an update by somebody undisturbed, seen from the inline policies: it
\* leaves them alone, puts what is desired or deletes what is not.
LEMMA AnsweredInline ==
  ASSUME Shape, InlineInv, pc = "update", NEW done, NEW r \in Content, Answered(done, r),
         \A n \in InlineNames :
            \/ r.inline[n] = role.inline[n]
            \/ r.inline[n] = Unescape[desired.inline[n]]
            \/ desired.inline[n] = None
  PROVE  InlineInv'
<1>1. role' = r /\ pc' \in {"update", "deleteRole", "lateInit"}
      /\ UNCHANGED <<op, desired, latest, drift>>
  BY DEF Answered, Proceed, After, copies
<1> QED
  BY <1>1 DEF InlineInv, InlineNeverMissing, Updating

\* The same, seen from the managed policies, for a call that leaves them alone.
LEMMA AnsweredPolicies ==
  ASSUME Shape, PoliciesInv, pc = "update", NEW done, NEW r \in Content, Answered(done, r),
         r.policies = role.policies,
         \A c \in done : c.call \notin {"AttachRolePolicy", "DetachRolePolicy"}
  PROVE  PoliciesInv'
<1>1. role' = r /\ pc' \in {"update", "deleteRole", "lateInit"} /\ plan' = plan \ done
      /\ UNCHANGED <<op, desired, latest, drift>>
  BY DEF Answered, Proceed, After, copies
<1>2. \A p : /\ Attach(p) \in plan => Attach(p) \in plan'
             /\ Detach(p) \in plan => Detach(p) \in plan'
  BY <1>1 DEF Attach, Detach
<1> QED
  BY <1>1, <1>2 DEF PoliciesInv, Updating

\* The calls of the update: attachments come first, and what is detached is not desired.
LEMMA UpdateKept ==
  ASSUME Shape, PoliciesInv, InlineInv, SdkUpdate
  PROVE  PoliciesInv' /\ InlineInv'
<1>a. /\ role \in Content /\ desired \in Content /\ latest \in Content
      /\ plan \subseteq Plan(desired, latest) /\ plan \subseteq [call : CallNames, arg : Args]
  BY DEF Shape, TypeOK, PlanInv
<1>b. ASSUME NEW o, Finish(o) PROVE PoliciesInv' /\ InlineInv'
  BY <1>b, ElsewhereKept DEF Finish, Elsewhere
<1>c. ASSUME pc = "update", NEW done, NEW r \in Content, Answered(done, r),
             r.policies = role.policies, r.inline = role.inline,
             \A c \in done : c.call \notin {"AttachRolePolicy", "DetachRolePolicy"}
      PROVE  PoliciesInv' /\ InlineInv'
  BY <1>c, AnsweredPolicies, AnsweredInline
<1>d. \A name : \A c \in DueCalls(name) : c \in plan /\ c.call = name /\ Due(c)
  BY DEF DueCalls
<1>1. CASE AddManagedPolicy
  <2> PICK c \in DueCalls("AttachRolePolicy") :
        Answered({c}, [role EXCEPT !.policies = @ \cup {c.arg}])
    BY <1>1 DEF AddManagedPolicy
  <2> DEFINE r == [role EXCEPT !.policies = @ \cup {c.arg}]
  <2>1. c \in plan /\ c.call = "AttachRolePolicy" /\ c.arg \in desired.policies \ latest.policies
    BY <1>a, <1>d, PlannedPolicies
  <2>2. r \in Content /\ r.policies = role.policies \cup {c.arg} /\ r.inline = role.inline
    BY <1>a, <2>1 DEF Content
  <2>3. role'.policies = role.policies \cup {c.arg} /\ plan' = plan \ {c}
        /\ pc' \in {"update", "deleteRole", "lateInit"} /\ pc = "update"
        /\ UNCHANGED <<op, desired, latest, drift>>
    BY <1>1, <2>2 DEF Answered, Proceed, After, copies, AddManagedPolicy
  <2>4. c = Attach(c.arg) /\ \A p : Attach(p) \in plan => p = c.arg \/ Attach(p) \in plan'
    BY <1>a, <2>1, <2>3 DEF Attach
  <2>5. \A p : Detach(p) \in plan <=> Detach(p) \in plan'
    BY <2>1, <2>3 DEF Detach
  <2>6. PoliciesInv'
    BY <2>1, <2>3, <2>4, <2>5 DEF PoliciesInv, Updating
  <2>7. InlineInv'
    BY <2>2, <2>3, AnsweredInline
  <2> QED
    BY <2>6, <2>7
<1>2. CASE RemoveManagedPolicy
  <2> PICK c \in DueCalls("DetachRolePolicy") :
        Answered({c}, [role EXCEPT !.policies = @ \ {c.arg}])
    BY <1>2 DEF RemoveManagedPolicy
  <2> DEFINE r == [role EXCEPT !.policies = @ \ {c.arg}]
  <2>1. c \in plan /\ c.call = "DetachRolePolicy" /\ c.arg \in latest.policies \ desired.policies
    BY <1>a, <1>d, PlannedPolicies
  <2>2. r \in Content /\ r.policies = role.policies \ {c.arg} /\ r.inline = role.inline
    BY <1>a, <2>1 DEF Content
  <2>3. role'.policies = role.policies \ {c.arg} /\ plan' = plan \ {c}
        /\ pc' \in {"update", "deleteRole", "lateInit"} /\ pc = "update"
        /\ UNCHANGED <<op, desired, latest, drift>>
    BY <1>2, <2>2 DEF Answered, Proceed, After, copies, RemoveManagedPolicy
  <2>4. c = Detach(c.arg)
    BY <1>a, <2>1 DEF Detach
  <2>5. \A other \in plan : other.call # "AttachRolePolicy"
    BY <1>d, <2>1 DEF Due, Rank
  <2>6. PoliciesInv'
    BY <2>1, <2>3, <2>4, <2>5 DEF PoliciesInv, Updating, Attach
  <2>7. InlineInv'
    BY <2>2, <2>3, AnsweredInline
  <2> QED
    BY <2>6, <2>7
<1>3. CASE AddInlinePolicy
  <2> PICK c \in DueCalls("PutRolePolicy") :
        \/ Answered({c}, [role EXCEPT !.inline[c.arg] = Unescape[desired.inline[c.arg]]])
           /\ Unescape[desired.inline[c.arg]] \notin Maybe(BadDocs)
        \/ Finish("Recoverable")
        \/ Finish("Terminal")
    BY <1>3 DEF AddInlinePolicy
  <2> DEFINE doc == Unescape[desired.inline[c.arg]]
             r == [role EXCEPT !.inline = [role.inline EXCEPT ![c.arg] = doc]]
  <2>1. c \in plan /\ c.call = "PutRolePolicy" /\ pc = "update"
    BY <1>3, <1>d DEF AddInlinePolicy
  <2>2. doc \in Maybe(Docs)
    BY <1>a, <2>1, PlannedArg, ConstantsAssumption DEF ConstantsAssumption, Content, Maybe
  <2>3. CASE Answered({c}, r)
    <3>1. r \in Content /\ r.policies = role.policies
          /\ \A n \in InlineNames : r.inline[n] = IF n = c.arg THEN doc ELSE role.inline[n]
      BY <1>a, <2>2 DEF Content
    <3> HIDE DEF r
    <3>2. \A e \in {c} : e.call \notin {"AttachRolePolicy", "DetachRolePolicy"}
      BY <2>1
    <3> QED
      BY <2>1, <2>3, <3>1, <3>2, AnsweredPolicies, AnsweredInline
  <2> QED
    BY <1>b, <2>3
<1>4. CASE RemoveInlinePolicy
  <2> PICK c \in DueCalls("DeleteRolePolicy") :
        Answered({c}, [role EXCEPT !.inline[c.arg] = None])
    BY <1>4 DEF RemoveInlinePolicy
  <2> DEFINE r == [role EXCEPT !.inline = [role.inline EXCEPT ![c.arg] = None]]
  <2>1. c \in plan /\ c.call = "DeleteRolePolicy" /\ pc = "update"
    BY <1>4, <1>d DEF RemoveInlinePolicy
  <2>2. desired.inline[c.arg] = None
    BY <1>a, <2>1, PlannedDeletions
  <2>3. r \in Content /\ r.policies = role.policies
        /\ \A n \in InlineNames : n # c.arg => r.inline[n] = role.inline[n]
    BY <1>a DEF Content, Maybe
  <2>4. Answered({c}, r) /\ \A e \in {c} : e.call \notin {"AttachRolePolicy", "DetachRolePolicy"}
    BY <2>1
  <2> HIDE DEF r
  <2> QED
    BY <2>1, <2>2, <2>3, <2>4, AnsweredPolicies, AnsweredInline
<1>5. CASE AddTags
  <2> DEFINE due == DueCalls("TagRole")
             t == [k \in TagKeys |-> IF \E c \in due : c.arg = k THEN desired.tags[k] ELSE role.tags[k]]
             r == [role EXCEPT !.tags = t]
  <2>1. Answered(due, r) /\ pc = "update"
    BY <1>5 DEF AddTags
  <2>2. r \in Content /\ r.policies = role.policies /\ r.inline = role.inline
    BY <1>a DEF Content
  <2>3. \A c \in due : c.call \notin {"AttachRolePolicy", "DetachRolePolicy"}
    BY <1>d
  <2> HIDE DEF due, r
  <2> QED
    BY <1>c, <2>1, <2>2, <2>3
<1>6. CASE RemoveTags
  <2> DEFINE due == DueCalls("UntagRole")
             t == [k \in TagKeys |-> IF \E c \in due : c.arg = k THEN None ELSE role.tags[k]]
             r == [role EXCEPT !.tags = t]
  <2>1. Answered(due, r) /\ pc = "update"
    BY <1>6 DEF RemoveTags
  <2>2. r \in Content /\ r.policies = role.policies /\ r.inline = role.inline
    BY <1>a DEF Content, Maybe
  <2>3. \A c \in due : c.call \notin {"AttachRolePolicy", "DetachRolePolicy"}
    BY <1>d
  <2> HIDE DEF due, r
  <2> QED
    BY <1>c, <2>1, <2>2, <2>3
<1>e. ASSUME NEW c \in plan, c.call \in {"PutRolePermissionsBoundary", "UpdateAssumeRolePolicy",
                                         "DeleteRolePermissionsBoundary", "UpdateRole"},
             pc = "update", NEW r \in Content, Answered({c}, r),
             r.policies = role.policies, r.inline = role.inline
      PROVE  PoliciesInv' /\ InlineInv'
  <2>1. \A e \in {c} : e.call \notin {"AttachRolePolicy", "DetachRolePolicy"}
    BY <1>e
  <2> QED
    BY <1>c, <1>e, <2>1
<1>7. CASE PutRolePermissionsBoundary \/ DeleteRolePermissionsBoundary
  <2> PICK c \in plan, b \in {None, desired.boundary} :
        /\ c.call \in {"PutRolePermissionsBoundary", "DeleteRolePermissionsBoundary"}
        /\ pc = "update"
        /\ Answered({c}, [role EXCEPT !.boundary = b])
    BY <1>7, <1>d DEF PutRolePermissionsBoundary, DeleteRolePermissionsBoundary
  <2> DEFINE r == [role EXCEPT !.boundary = b]
  <2>1. r \in Content /\ r.policies = role.policies /\ r.inline = role.inline
    BY <1>a DEF Content, Maybe
  <2>2. Answered({c}, r)
    OBVIOUS
  <2> HIDE DEF r
  <2> QED
    BY <1>e, <2>1, <2>2
<1>8. CASE PutAssumeRolePolicy
  <2> DEFINE r == [role EXCEPT !.assume = desired.assume]
  <2>1. PICK c \in plan : /\ c.call = "UpdateAssumeRolePolicy" /\ pc = "update"
                          /\ Answered({c}, r) \/ Finish("Terminal")
    BY <1>8, <1>d DEF PutAssumeRolePolicy
  <2>2. r \in Content /\ r.policies = role.policies /\ r.inline = role.inline
    BY <1>a DEF Content
  <2> HIDE DEF r
  <2> QED
    BY <1>b, <1>e, <2>1, <2>2
<1>9. CASE UpdateRole
  <2> DEFINE r == [role EXCEPT !.session = OrElse(desired.session, DefaultSession),
                            !.description = OrElse(desired.description, @)]
  <2>1. OrElse(desired.session, DefaultSession) \in Sessions
    BY <1>a, SessionTyped DEF Content
  <2>d. OrElse(desired.description, role.description) \in Maybe(Descriptions)
    BY <1>a, DescriptionTyped DEF Content
  <2>2. PICK c \in plan : /\ c.call = "UpdateRole" /\ pc = "update"
                          /\ Answered({c}, r) \/ Finish("Recoverable")
    BY <1>9, <1>d DEF UpdateRole
  <2>3. r \in Content /\ r.policies = role.policies /\ r.inline = role.inline
    BY <1>a, <2>1, <2>d DEF Content, Maybe
  <2> HIDE DEF r
  <2> QED
    BY <1>b, <1>e, <2>2, <2>3
<1>10. CASE UpdateFails
  BY <1>10, OtherKept
<1> QED
  BY <1>1, <1>2, <1>3, <1>4, <1>5, <1>6, <1>7, <1>8, <1>9, <1>10 DEF SdkUpdate

\* The invariant of this part.
Undip == Shape /\ PoliciesInv /\ InlineInv

\* It holds initially.
LEMMA InitUndip == Init => Undip
  BY InitShape DEF Init, Undip, PoliciesInv, InlineInv, InlineNeverMissing, Updating

\* It is kept by every step.
LEMMA StepUndip == Undip /\ [Next]_vars => Undip'
<1> SUFFICES ASSUME Undip, [Next]_vars PROVE PoliciesInv' /\ InlineInv'
    BY StepShape DEF Undip
<1>1. CASE UNCHANGED vars
  BY <1>1, UnobservedKept DEF vars, copies, work, iamVars, observed, Undip
<1>2. CASE Next
  BY <1>2, ReadKept, UpdateKept, OtherKept DEF Next, Controller, Environment, SdkUpdate, Undip
<1> QED
  BY <1>1, <1>2

\* As long as an attachment is left to make, nothing has been detached; afterwards
\* everything desired is attached.
LEMMA NoDip == Undip => GrantsNeverDip
<1> SUFFICES ASSUME Undip, Updating
             PROVE  latest.policies \subseteq role.policies \/ desired.policies \subseteq role.policies
    BY DEF GrantsNeverDip
<1>a. PoliciesInv /\ ~drift
  BY DEF Undip, Updating
<1>1. CASE \E c \in plan : c.call = "AttachRolePolicy"
  BY <1>1, <1>a DEF PoliciesInv
<1>2. CASE ~\E c \in plan : c.call = "AttachRolePolicy"
  BY <1>2, <1>a DEF PoliciesInv, Attach
<1> QED
  BY <1>1, <1>2

\* An update that nobody disturbs never leaves the role, between two of its calls,
\* without a policy that is in the old and the new spec, nor with less than the one
\* or the other grants: syncManagedPolicies attaches first.
THEOREM GrantsKept == Spec => []GrantsNeverDip
  BY InitUndip, StepUndip, NoDip, PTL DEF Spec

\* Nor without an inline policy that both specs have, whose document is replaced in
\* place: syncInlinePolicies does not delete the names it has put.
THEOREM InlineKept == Spec => []InlineNeverMissing
<1>1. Undip => InlineNeverMissing
  BY DEF Undip, InlineInv, InlineNeverMissing, Updating
<1> QED
  BY <1>1, InitUndip, StepUndip, PTL DEF Spec

-----------------------------------------------------------------------------
(* What an update that nobody disturbs has still to do: each part of the   *)
(* role but the path is as desired, or a call of the plan that is still to *)
(* be made brings it about.                                                *)

Left(name, x) == [call |-> name, arg |-> x] \in plan

SettledPolicies ==
    /\ \A p \in desired.policies : Left("AttachRolePolicy", p) \/ p \in role.policies
    /\ \A p \in role.policies : Left("DetachRolePolicy", p) \/ p \in desired.policies

InlineDone(n) ==
    IF desired.inline[n] = None THEN role.inline[n] = None
    ELSE role.inline[n] \in {desired.inline[n], Unescape[desired.inline[n]]}

SettledInline ==
    \A n \in InlineNames :
        Left("PutRolePolicy", n) \/ Left("DeleteRolePolicy", n) \/ InlineDone(n)

\* A tag whose value changes is put and then taken off again.
TagDone(k) ==
    latest.tags[k] \in {None, desired.tags[k]} \/ desired.tags[k] = None =>
        role.tags[k] = desired.tags[k]

SettledTags ==
    \A k \in TagKeys : Left("TagRole", k) \/ Left("UntagRole", k) \/ TagDone(k)

SettledBoundary ==
    \/ Left("PutRolePermissionsBoundary", None)
    \/ Left("DeleteRolePermissionsBoundary", None)
    \/ role.boundary = desired.boundary

SettledAssume == Left("UpdateAssumeRolePolicy", None) \/ role.assume = desired.assume

SettledSettings ==
    \/ Left("UpdateRole", None)
    \/ /\ role.session = OrElse(desired.session, DefaultSession)
       /\ desired.description \in {None, role.description}

Settled ==
    /\ SettledPolicies /\ SettledInline /\ SettledTags
    /\ SettledBoundary /\ SettledAssume /\ SettledSettings

SettledInv ==
    ~drift =>
        /\ pc \in {"listPolicies", "listInline", "getInline"} =>
              /\ exists
              /\ latest.boundary = role.boundary
              /\ latest.assume = role.assume
              /\ latest.session = role.session
              /\ latest.description = role.description
        /\ pc \in {"update", "lateInit", "patch"} /\ op = "sync" => exists /\ Settled

\* A call for every difference between two copies ...
LEMMA PlannedForAll ==
  ASSUME NEW d \in Content, NEW l \in Content
  PROVE  /\ \A n \in InlineNames : d.inline[n] # l.inline[n] =>
               \/ [call |-> "PutRolePolicy", arg |-> n] \in Plan(d, l)
               \/ [call |-> "DeleteRolePolicy", arg |-> n] \in Plan(d, l)
         /\ \A k \in TagKeys : d.tags[k] # l.tags[k] =>
               \/ [call |-> "TagRole", arg |-> k] \in Plan(d, l)
               \/ [call |-> "UntagRole", arg |-> k] \in Plan(d, l)
         /\ d.boundary # l.boundary =>
               \/ [call |-> "PutRolePermissionsBoundary", arg |-> None] \in Plan(d, l)
               \/ [call |-> "DeleteRolePermissionsBoundary", arg |-> None] \in Plan(d, l)
         /\ d.assume # l.assume =>
               [call |-> "UpdateAssumeRolePolicy", arg |-> None] \in Plan(d, l)
         /\ d.session # l.session \/ d.description # l.description =>
               [call |-> "UpdateRole", arg |-> None] \in Plan(d, l)
<1>1. ASSUME NEW n \in InlineNames, d.inline[n] # l.inline[n]
      PROVE  \/ [call |-> "PutRolePolicy", arg |-> n] \in SyncInlinePolicies(d, l)
             \/ [call |-> "DeleteRolePolicy", arg |-> n] \in SyncInlinePolicies(d, l)
  BY <1>1 DEF SyncInlinePolicies, Calls, InlineToAdd, InlineToDelete
<1>2. ASSUME NEW k \in TagKeys, d.tags[k] # l.tags[k]
      PROVE  \/ [call |-> "TagRole", arg |-> k] \in SyncTags(d, l)
             \/ [call |-> "UntagRole", arg |-> k] \in SyncTags(d, l)
  BY <1>2 DEF SyncTags, Calls
<1>3. ASSUME d.boundary # l.boundary
      PROVE  \/ [call |-> "PutRolePermissionsBoundary", arg |-> None]
                    \in SyncRolePermissionsBoundary(d, l)
             \/ [call |-> "DeleteRolePermissionsBoundary", arg |-> None]
                    \in SyncRolePermissionsBoundary(d, l)
  BY <1>3 DEF SyncRolePermissionsBoundary, When, Calls
<1>4. \A name : [call |-> name, arg |-> None] \in When(name, TRUE)
  BY DEF When, Calls
<1> QED
  BY <1>1, <1>2, <1>3, <1>4 DEF Plan, SyncSettings, When, Calls

\* ... and none without: a tag is taken off, and the boundary deleted, for a reason.
LEMMA PlannedRemovals ==
  ASSUME NEW d \in Content, NEW l \in Content, NEW c \in Plan(d, l)
  PROVE  /\ c = [call |-> c.call, arg |-> c.arg]
         /\ c.call = "UntagRole" => c.arg \in TagKeys /\ l.tags[c.arg] \notin {None, d.tags[c.arg]}
         /\ c.call = "DeleteRolePermissionsBoundary" => d.boundary = None
         /\ c.call \in {"PutRolePermissionsBoundary", "DeleteRolePermissionsBoundary",
                        "UpdateAssumeRolePolicy", "UpdateRole"} => c.arg = None
  BY DEF Plan, SyncManagedPolicies, SyncInlinePolicies, SyncTags, SyncRolePermissionsBoundary,
         SyncSettings, When, Calls, InlineToAdd, InlineToDelete

\* Outside of reads and of updates that get to their end there is nothing to show.
Beyond == pc \notin {"listPolicies", "listInline", "getInline"}
          /\ (op = "delete" \/ pc \notin {"update", "lateInit", "patch"})

LEMMA BeyondSettled == Beyond' => SettledInv'
  BY DEF Beyond, SettledInv

LEMMA FailureBeyond == RoleVanished \/ CallFails \/ (\E o : Finish(o)) => Beyond'
  BY DEF RoleVanished, CallFails, Finish, Beyond

\* Steps between the calls.
LEMMA OtherSettled ==
  ASSUME Shape, SettledInv,
         \/ Reconcile \/ Resync \/ MarkManaged \/ CreateRole \/ LateInitialize \/ Patch
         \/ DeleteRole \/ MarkUnmanaged \/ Crash \/ EditSpec \/ DeleteCR \/ Drift \/ UpdateFails
  PROVE  SettledInv'
<1> USE DEF copies, work, iamVars
<1>1. CASE Reconcile
  BY <1>1, BeyondSettled DEF Reconcile, Beyond
<1>2. CASE Resync \/ EditSpec \/ DeleteCR
  <2>1. UNCHANGED <<exists, role, pc, op, desired, latest, plan, drift>>
    BY <1>2 DEF Resync, EditSpec, DeleteCR
  <2> QED
    BY <2>1 DEF SettledInv, Settled, SettledPolicies, SettledInline, SettledTags, SettledBoundary,
       SettledAssume, SettledSettings, InlineDone, TagDone, Left
<1>3. CASE MarkManaged \/ CreateRole \/ DeleteRole \/ MarkUnmanaged \/ Patch \/ UpdateFails
  BY <1>3, BeyondSettled, FailureBeyond
     DEF MarkManaged, CreateRole, DeleteRole, MarkUnmanaged, Patch, UpdateFails, Beyond
<1>4. CASE Crash
  BY <1>4, BeyondSettled DEF Crash, Beyond
<1>5. CASE Drift
  BY <1>5 DEF Drift, SettledInv
<1>6. CASE LateInitialize
  <2>1. CASE RoleVanished \/ CallFails
    BY <2>1, BeyondSettled, FailureBeyond
  <2>2. CASE /\ pc = "lateInit" /\ pc' = "patch"
             /\ latest' = [latest EXCEPT !.session = role.session, !.path = role.path]
             /\ UNCHANGED <<exists, role, op, desired, plan, drift>>
    <3>1. latest'.tags = latest.tags
      BY <2>2 DEF Shape, TypeOK, Content
    <3> QED
      BY <2>2, <3>1 DEF SettledInv, Settled, SettledPolicies, SettledInline, SettledTags,
         SettledBoundary, SettledAssume, SettledSettings, InlineDone, TagDone, Left
  <2> QED
    BY <1>6, <2>1, <2>2 DEF LateInitialize
<1> QED
  BY <1>1, <1>2, <1>3, <1>4, <1>5, <1>6

\* What differs between the two copies is what differs between the desired content and the
\* role as it has just been read: all of it is planned.
LEMMA PlannedSettles ==
  ASSUME Shape, PoliciesInv, InlineInv, SettledInv, ~drift, exists, pc = "getInline", pending = {},
         NEW found \in Content, NEW goal \in Content, found = [latest EXCEPT !.tags = role.tags],
         latest' = found, desired' = goal, plan' = Plan(goal, found), role' = role
  PROVE  Settled'
<1>a. latest \in Content /\ role \in Content /\ role.session \in Sessions
  BY DEF Shape, TypeOK, Content, Maybe
<1>b. /\ found.policies = role.policies /\ found.tags = role.tags
      /\ found.boundary = role.boundary /\ found.assume = role.assume
      /\ found.session = role.session /\ found.description = role.description
      /\ \A n \in InlineNames : found.inline[n] = role.inline[n]
  BY <1>a DEF Content, PoliciesInv, InlineInv, SettledInv
<1>1. SettledPolicies'
  <2>1. /\ \A q \in goal.policies \ found.policies : Attach(q) \in Plan(goal, found)
        /\ \A q \in found.policies \ goal.policies : Detach(q) \in Plan(goal, found)
    BY PlannedPolicies
  <2> QED
    BY <1>b, <2>1 DEF SettledPolicies, Left, Attach, Detach
<1>2. SettledInline'
  <2>1. \A n \in InlineNames :
           goal.inline[n] # role.inline[n] =>
              \/ [call |-> "PutRolePolicy", arg |-> n] \in Plan(goal, found)
              \/ [call |-> "DeleteRolePolicy", arg |-> n] \in Plan(goal, found)
    BY <1>b, PlannedForAll
  <2> QED
    BY <2>1 DEF SettledInline, InlineDone, Left
<1>3. SettledTags'
  <2>1. \A k \in TagKeys :
           goal.tags[k] # role.tags[k] =>
              \/ [call |-> "TagRole", arg |-> k] \in Plan(goal, found)
              \/ [call |-> "UntagRole", arg |-> k] \in Plan(goal, found)
    BY <1>b, PlannedForAll
  <2> QED
    BY <2>1 DEF SettledTags, TagDone, Left
<1>4. SettledBoundary' /\ SettledAssume'
  BY <1>b, PlannedForAll DEF SettledBoundary, SettledAssume, Left
<1>5. SettledSettings'
  <2>1. CASE goal.session = role.session /\ goal.description = role.description
    <3>1. OrElse(goal.session, DefaultSession) = role.session
      BY <1>a, <2>1, ConstantsAssumption DEF OrElse
    <3> QED
      BY <2>1, <3>1 DEF SettledSettings
  <2>2. CASE goal.session # role.session \/ goal.description # role.description
    BY <1>b, <2>2, PlannedForAll DEF SettledSettings, Left
  <2> QED
    BY <2>1, <2>2
<1> QED
  BY <1>1, <1>2, <1>3, <1>4, <1>5 DEF Settled

\* The reads, up to the comparison.
LEMMA ReadSettled ==
  ASSUME Shape, PoliciesInv, InlineInv, SettledInv, Read
  PROVE  SettledInv'
<1> USE DEF copies, work, iamVars
<1>a. latest \in Content /\ role \in Content /\ desired \in Content
  BY DEF Shape, TypeOK
<1>b. CASE RoleVanished \/ CallFails \/ \E o : Finish(o)
  BY <1>b, BeyondSettled, FailureBeyond
<1>c. ASSUME pc' \in {"listPolicies", "listInline", "getInline"}, role' = role, exists' = exists,
             latest'.boundary = role.boundary, latest'.assume = role.assume,
             latest'.session = role.session, latest'.description = role.description,
             ~drift' => exists
      PROVE  SettledInv'
  BY <1>c DEF SettledInv
<1>1. CASE GetRole
  <2>1. CASE NotFound
    BY <2>1, BeyondSettled DEF NotFound, Beyond
  <2>2. CASE /\ exists /\ pc' = "listPolicies"
             /\ latest' = [Blank EXCEPT !.boundary = role.boundary,
                                        !.assume = role.assume,
                                        !.session = role.session,
                                        !.path = role.path,
                                        !.description = role.description]
             /\ UNCHANGED <<exists, role>>
    <3>1. latest'.boundary = role.boundary /\ latest'.assume = role.assume
          /\ latest'.session = role.session /\ latest'.description = role.description
      BY <2>2, BlankContent DEF Content
    <3> QED
      BY <1>c, <2>2, <3>1
  <2> QED
    BY <1>1, <1>b, <2>1, <2>2 DEF GetRole
<1>2. ASSUME pc \in {"listPolicies", "listInline", "getInline"},
             pc' \in {"listPolicies", "listInline", "getInline"}, role' = role, exists' = exists,
             drift' = drift, latest'.boundary = latest.boundary, latest'.assume = latest.assume,
             latest'.session = latest.session, latest'.description = latest.description
      PROVE  SettledInv'
  BY <1>2 DEF SettledInv
<1>3. CASE ListAttachedRolePolicies \/ ListRolePolicies \/ GetRolePolicy
  <2>1. \/ RoleVanished \/ CallFails \/ (\E o : Finish(o))
        \/ /\ pc \in {"listPolicies", "listInline", "getInline"}
           /\ pc' \in {"listPolicies", "listInline", "getInline"}
           /\ role' = role /\ exists' = exists /\ drift' = drift
           /\ latest'.boundary = latest.boundary /\ latest'.assume = latest.assume
           /\ latest'.session = latest.session /\ latest'.description = latest.description
    BY <1>3, <1>a DEF ListAttachedRolePolicies, ListRolePolicies, GetRolePolicy, Content
  <2> QED
    BY <1>2, <1>b, <2>1
<1>4. CASE ListRoleTags
  <2> DEFINE found == [latest EXCEPT !.tags = role.tags]
             goal  == MirrorAWSTags(desired, found)
  <2>1. \/ RoleVanished \/ CallFails
        \/ pc' \in {"update", "deleteRole", "lateInit"} /\ op' = op /\ op = "delete"
        \/ /\ pc = "getInline" /\ pending = {} /\ exists
           /\ pc' \in {"update", "deleteRole", "lateInit"}
           /\ latest' = found /\ desired' = goal /\ plan' = Plan(goal, found)
           /\ UNCHANGED <<role, exists, drift>>
    BY <1>4 DEF ListRoleTags, After
  <2>2. CASE pc' \in {"update", "deleteRole", "lateInit"} /\ op' = op /\ op = "delete"
    BY <2>2, BeyondSettled DEF Beyond
  <2>3. CASE /\ pc = "getInline" /\ pending = {} /\ exists
             /\ pc' \in {"update", "deleteRole", "lateInit"}
             /\ latest' = found /\ desired' = goal /\ plan' = Plan(goal, found)
             /\ UNCHANGED <<role, exists, drift>>
    <3>1. found \in Content
      BY <1>a DEF Content
    <3>2. goal \in Content
      BY <1>a, <3>1 DEF Content, MirrorAWSTags
    <3>3. found = [latest EXCEPT !.tags = role.tags]
      OBVIOUS
    <3> HIDE DEF found, goal
    <3>4. ~drift => Settled'
      BY <2>3, <3>1, <3>2, <3>3, PlannedSettles
    <3> QED
      BY <2>3, <3>4 DEF SettledInv
  <2> QED
    BY <1>b, <2>1, <2>2, <2>3
<1> QED
  BY <1>1, <1>3, <1>4 DEF Read

\* A call with this name settles nothing but its own part of the role, and unsettles none.
LEMMA AnsweredSettled ==
  ASSUME Shape, Settled, NEW name, NEW done, \A c \in done : c.call = name,
         NEW r, Answered(done, r)
  PROVE  /\ r.policies = role.policies /\ name \notin {"AttachRolePolicy", "DetachRolePolicy"}
               => SettledPolicies'
         /\ r.inline = role.inline /\ name \notin {"PutRolePolicy", "DeleteRolePolicy"}
               => SettledInline'
         /\ r.tags = role.tags /\ name \notin {"TagRole", "UntagRole"} => SettledTags'
         /\ (r.boundary = role.boundary /\
             name \notin {"PutRolePermissionsBoundary", "DeleteRolePermissionsBoundary"})
               => SettledBoundary'
         /\ r.assume = role.assume /\ name # "UpdateAssumeRolePolicy" => SettledAssume'
         /\ (r.session = role.session /\ r.description = role.description
               /\ name # "UpdateRole") => SettledSettings'
<1>1. role' = r /\ plan' = plan \ done /\ UNCHANGED <<op, desired, latest>>
  BY DEF Answered, Proceed, copies
<1>2. \A m, x : m # name /\ Left(m, x) => Left(m, x)'
  BY <1>1 DEF Left
<1>3. r.policies = role.policies /\ name \notin {"AttachRolePolicy", "DetachRolePolicy"}
         => SettledPolicies'
  BY <1>1, <1>2 DEF Settled, SettledPolicies
<1>4. r.inline = role.inline /\ name \notin {"PutRolePolicy", "DeleteRolePolicy"} => SettledInline'
  BY <1>1, <1>2 DEF Settled, SettledInline, InlineDone
<1>5. r.tags = role.tags /\ name \notin {"TagRole", "UntagRole"} => SettledTags'
  BY <1>1, <1>2 DEF Settled, SettledTags, TagDone
<1>6. (r.boundary = role.boundary /\
         name \notin {"PutRolePermissionsBoundary", "DeleteRolePermissionsBoundary"})
           => SettledBoundary'
  <2> SUFFICES ASSUME /\ r.boundary = role.boundary
                      /\ name \notin {"PutRolePermissionsBoundary",
                                     "DeleteRolePermissionsBoundary"}
               PROVE  SettledBoundary'
    OBVIOUS
  <2>1. SettledBoundary
    BY DEF Settled
  <2>2. Left("PutRolePermissionsBoundary", None) => Left("PutRolePermissionsBoundary", None)'
    BY <1>2
  <2>3. Left("DeleteRolePermissionsBoundary", None) => Left("DeleteRolePermissionsBoundary", None)'
    BY <1>2
  <2> QED
    BY <1>1, <2>1, <2>2, <2>3 DEF SettledBoundary
<1>7. r.assume = role.assume /\ name # "UpdateAssumeRolePolicy" => SettledAssume'
  BY <1>1, <1>2 DEF Settled, SettledAssume
<1>8. (r.session = role.session /\ r.description = role.description /\ name # "UpdateRole")
         => SettledSettings'
  BY <1>1, <1>2 DEF Settled, SettledSettings
<1> QED
  BY <1>3, <1>4, <1>5, <1>6, <1>7, <1>8

\* It settles that part.
LEMMA UpdateSettled ==
  ASSUME Shape, SettledInv, SdkUpdate
  PROVE  SettledInv'
<1>a. /\ role \in Content /\ desired \in Content /\ latest \in Content
      /\ plan \subseteq Plan(desired, latest)
  BY DEF Shape, TypeOK, PlanInv
<1>b. CASE (\E o : Finish(o)) \/ UpdateFails
  BY <1>b, BeyondSettled, FailureBeyond DEF UpdateFails
<1>c. ASSUME NEW done, NEW r, pc = "update", Answered(done, r),
             Settled /\ ~drift /\ op = "sync" => Settled'
      PROVE  SettledInv'
  <2>1. /\ pc' \in {"update", "deleteRole", "lateInit"} /\ exists' = exists
        /\ UNCHANGED <<op, drift>>
    BY <1>c DEF Answered, Proceed, After, copies
  <2> QED
    BY <1>c, <2>1 DEF SettledInv
<1>d. \A name : \A c \in DueCalls(name) :
         /\ c \in plan /\ c.call = name /\ c = [call |-> name, arg |-> c.arg]
         /\ \A e \in plan : e.call = name => e \in DueCalls(name)
  <2>1. \A name : \A c \in DueCalls(name) : c \in plan /\ c.call = name /\ Due(c)
    BY DEF DueCalls
  <2>2. \A c \in plan : c = [call |-> c.call, arg |-> c.arg]
    BY <1>a, PlannedRemovals
  <2>3. \A name : \A c \in DueCalls(name) : \A e \in plan : e.call = name => Due(e)
    BY <2>1 DEF Due
  <2> QED
    BY <2>1, <2>2, <2>3 DEF DueCalls
<1>e. ASSUME NEW done, NEW r, Answered(done, r)
      PROVE  role' = r /\ plan' = plan \ done /\ UNCHANGED <<op, desired, latest>>
  BY <1>e DEF Answered, Proceed, copies
<1>1. CASE AddManagedPolicy \/ RemoveManagedPolicy
  <2>0. PICK name \in {"AttachRolePolicy", "DetachRolePolicy"} : \E c \in DueCalls(name) :
           /\ pc = "update"
           /\ Answered({c}, [role EXCEPT !.policies =
                 IF name = "AttachRolePolicy" THEN role.policies \cup {c.arg}
                                              ELSE role.policies \ {c.arg}])
    BY <1>1 DEF AddManagedPolicy, RemoveManagedPolicy
  <2>1. PICK c \in DueCalls(name) :
           /\ pc = "update"
           /\ Answered({c}, [role EXCEPT !.policies =
                 IF name = "AttachRolePolicy" THEN role.policies \cup {c.arg}
                                              ELSE role.policies \ {c.arg}])
    BY <2>0
  <2> DEFINE P == IF name = "AttachRolePolicy" THEN role.policies \cup {c.arg}
                                               ELSE role.policies \ {c.arg}
             r == [role EXCEPT !.policies = P]
  <2>2. c \in plan /\ c.call = name /\ c = [call |-> name, arg |-> c.arg]
    BY <1>d
  <2>3. /\ r.policies = P /\ r.inline = role.inline /\ r.tags = role.tags
        /\ r.boundary = role.boundary /\ r.assume = role.assume /\ r.session = role.session
        /\ r.description = role.description
    BY <1>a DEF Content
  <2>4. IF name = "AttachRolePolicy" THEN c.arg \in desired.policies
                                     ELSE c.arg \notin desired.policies
    BY <1>a, <2>2, PlannedPolicies
  <2>5. Answered({c}, r)
    BY <2>1
  <2>6. ASSUME Settled
        PROVE  SettledPolicies'
    <3>1. role'.policies = P /\ plan' = plan \ {c} /\ desired' = desired
      BY <1>e, <2>3, <2>5
    <3>2. \A m, x : Left(m, x) => Left(m, x)' \/ (m = name /\ x = c.arg)
      BY <2>2, <3>1 DEF Left
    <3> QED
      BY <2>4, <2>6, <3>1, <3>2 DEF Settled, SettledPolicies
  <2> HIDE DEF r
  <2>7. \A e \in {c} : e.call = name
    BY <2>2
  <2>8. ASSUME Settled PROVE Settled'
    <3>0. /\ name \notin {"PutRolePolicy", "DeleteRolePolicy", "TagRole", "UntagRole"}
          /\ name \notin {"PutRolePermissionsBoundary", "DeleteRolePermissionsBoundary"}
          /\ name \notin {"UpdateAssumeRolePolicy", "UpdateRole"}
      OBVIOUS
    <3>1. SettledInline' /\ SettledTags'
      BY <2>3, <2>5, <2>7, <2>8, <3>0, AnsweredSettled
    <3>2. SettledBoundary'
      BY <2>3, <2>5, <2>7, <2>8, <3>0, AnsweredSettled
    <3>3. SettledAssume' /\ SettledSettings'
      BY <2>3, <2>5, <2>7, <2>8, <3>0, AnsweredSettled
    <3> QED
      BY <2>6, <2>8, <3>1, <3>2, <3>3 DEF Settled
  <2> QED
    BY <1>c, <2>1, <2>5, <2>8
<1>2. CASE AddInlinePolicy \/ RemoveInlinePolicy
  <2>1. \/ \E o : Finish(o)
        \/ \E name \in {"PutRolePolicy", "DeleteRolePolicy"} : \E c \in DueCalls(name) :
              /\ pc = "update"
              /\ Answered({c}, [role EXCEPT !.inline = [role.inline EXCEPT ![c.arg] =
                    IF name = "PutRolePolicy" THEN Unescape[desired.inline[c.arg]] ELSE None]])
    BY <1>2 DEF AddInlinePolicy, RemoveInlinePolicy
  <2>2. ASSUME NEW name \in {"PutRolePolicy", "DeleteRolePolicy"}, NEW c \in DueCalls(name),
               pc = "update",
               Answered({c}, [role EXCEPT !.inline = [role.inline EXCEPT ![c.arg] =
                    IF name = "PutRolePolicy" THEN Unescape[desired.inline[c.arg]] ELSE None]])
        PROVE  SettledInv'
    <3> DEFINE doc == IF name = "PutRolePolicy" THEN Unescape[desired.inline[c.arg]] ELSE None
               r == [role EXCEPT !.inline = [role.inline EXCEPT ![c.arg] = doc]]
    <3>1. c \in plan /\ c.call = name /\ c = [call |-> name, arg |-> c.arg]
      BY <1>d
    <3>2. /\ r.policies = role.policies /\ r.tags = role.tags /\ r.boundary = role.boundary
          /\ r.assume = role.assume /\ r.session = role.session
          /\ r.description = role.description
          /\ \A n \in InlineNames : r.inline[n] = IF n = c.arg THEN doc ELSE role.inline[n]
      BY <1>a DEF Content
    <3>3. IF name = "PutRolePolicy" THEN desired.inline[c.arg] # None
                                    ELSE desired.inline[c.arg] = None
      BY <1>a, <3>1, PlannedArg, PlannedDeletions
    <3>4. Answered({c}, r)
      BY <2>2
    <3>5. ASSUME Settled
          PROVE  SettledInline'
      <4>1. role' = r /\ plan' = plan \ {c} /\ desired' = desired
        BY <1>e, <3>4
      <4>2. \A m, x : Left(m, x) => Left(m, x)' \/ x = c.arg
        BY <3>1, <4>1 DEF Left
      <4>3. \A n \in InlineNames : n = c.arg => InlineDone(n)'
        BY <3>2, <3>3, <4>1 DEF InlineDone
      <4>4. \A n \in InlineNames : n # c.arg /\ InlineDone(n) => InlineDone(n)'
        BY <3>2, <4>1 DEF InlineDone
      <4> QED
        BY <3>5, <4>2, <4>3, <4>4 DEF Settled, SettledInline
    <3> HIDE DEF r
    <3>6. \A e \in {c} : e.call = name
      BY <3>1
    <3>7. Settled => Settled'
      <4> SUFFICES ASSUME Settled
                   PROVE  /\ SettledPolicies' /\ SettledTags' /\ SettledBoundary'
                          /\ SettledAssume' /\ SettledSettings'
        BY <3>5 DEF Settled
      <4>1. /\ name \notin {"AttachRolePolicy", "DetachRolePolicy"}
            /\ name \notin {"TagRole", "UntagRole"}
            /\ name \notin {"PutRolePermissionsBoundary", "DeleteRolePermissionsBoundary"}
            /\ name # "UpdateAssumeRolePolicy"
            /\ name # "UpdateRole"
        OBVIOUS
      <4> QED
        BY <3>2, <3>4, <3>6, <4>1, AnsweredSettled
    <3> QED
      BY <1>c, <2>2, <3>4, <3>7
  <2> QED
    BY <1>b, <2>1, <2>2
<1>3. CASE AddTags \/ RemoveTags
  <2>1. PICK name \in {"TagRole", "UntagRole"} :
           /\ pc = "update"
           /\ Answered(DueCalls(name), [role EXCEPT !.tags = [k \in TagKeys |->
                 IF \E c \in DueCalls(name) : c.arg = k
                 THEN IF name = "TagRole" THEN desired.tags[k] ELSE None
                 ELSE role.tags[k]]])
    BY <1>3 DEF AddTags, RemoveTags
  <2> DEFINE due == DueCalls(name)
             t == [k \in TagKeys |-> IF \E c \in due : c.arg = k
                                     THEN IF name = "TagRole" THEN desired.tags[k] ELSE None
                                     ELSE role.tags[k]]
             r == [role EXCEPT !.tags = t]
  <2>2. /\ \A c \in due : c.call = name /\ c = [call |-> name, arg |-> c.arg] /\ c \in plan
        /\ due # {} => \A e \in plan : e.call = name => e \in due
    BY <1>d
  <2>3. /\ r.policies = role.policies /\ r.inline = role.inline
        /\ r.boundary = role.boundary /\ r.assume = role.assume /\ r.session = role.session
        /\ r.description = role.description
        /\ r.tags = t
    BY <1>a DEF Content
  <2>4. \A c \in due : name = "UntagRole" => latest.tags[c.arg] \notin {None, desired.tags[c.arg]}
    BY <1>a, <2>2, PlannedRemovals
  <2>5. Answered(due, r)
    BY <2>1
  <2>6. ASSUME Settled
        PROVE  SettledTags'
    <3>1. role'.tags = t /\ plan' = plan \ due /\ desired' = desired /\ latest' = latest
      BY <1>e, <2>3, <2>5
    <3>2. \A m, x : Left(m, x) => Left(m, x)' \/ \E c \in due : c.arg = x
      <4>1. \A m, x : [call |-> m, arg |-> x] \in due => \E c \in due : c.arg = x
        OBVIOUS
      <4> QED
        BY <3>1, <4>1 DEF Left
    <3>3. ASSUME NEW k \in TagKeys, \E c \in due : c.arg = k
          PROVE  TagDone(k)'
      <4>1. role'.tags[k] = IF name = "TagRole" THEN desired.tags[k] ELSE None
        BY <3>1, <3>3
      <4>2. name = "UntagRole" => latest.tags[k] \notin {None, desired.tags[k]}
        BY <2>4, <3>3
      <4> QED
        BY <3>1, <4>1, <4>2 DEF TagDone
    <3>4. ASSUME NEW k \in TagKeys, ~\E c \in due : c.arg = k, TagDone(k)
          PROVE  TagDone(k)'
      <4>1. role'.tags[k] = role.tags[k]
        BY <3>1, <3>4
      <4> QED
        BY <3>1, <3>4, <4>1 DEF TagDone
    <3> QED
      BY <2>6, <3>2, <3>3, <3>4 DEF Settled, SettledTags
  <2> HIDE DEF due, r
  <2>7. \A c \in due : c.call = name
    BY <2>2
  <2>8. Settled => Settled'
    <3> SUFFICES ASSUME Settled
                 PROVE  /\ SettledPolicies' /\ SettledInline' /\ SettledBoundary'
                        /\ SettledAssume' /\ SettledSettings'
      BY <2>6 DEF Settled
    <3>1. /\ name \notin {"AttachRolePolicy", "DetachRolePolicy"}
          /\ name \notin {"PutRolePolicy", "DeleteRolePolicy"}
          /\ name \notin {"PutRolePermissionsBoundary", "DeleteRolePermissionsBoundary"}
          /\ name # "UpdateAssumeRolePolicy"
          /\ name # "UpdateRole"
      OBVIOUS
    <3> QED
      BY <2>3, <2>5, <2>7, <3>1, AnsweredSettled
  <2> QED
    BY <1>c, <2>1, <2>5, <2>8
<1>4. CASE PutRolePermissionsBoundary \/ DeleteRolePermissionsBoundary
  <2>0. PICK name \in {"PutRolePermissionsBoundary", "DeleteRolePermissionsBoundary"} :
           \E c \in DueCalls(name) :
              /\ pc = "update"
              /\ Answered({c}, [role EXCEPT !.boundary =
                    IF name = "PutRolePermissionsBoundary" THEN desired.boundary ELSE None])
    BY <1>4 DEF PutRolePermissionsBoundary, DeleteRolePermissionsBoundary
  <2>1. PICK c \in DueCalls(name) :
           /\ pc = "update"
           /\ Answered({c}, [role EXCEPT !.boundary =
                 IF name = "PutRolePermissionsBoundary" THEN desired.boundary ELSE None])
    BY <2>0
  <2> DEFINE b == IF name = "PutRolePermissionsBoundary" THEN desired.boundary ELSE None
             r == [role EXCEPT !.boundary = b]
  <2>2. c \in plan /\ c.call = name
    BY <1>d
  <2>3. b = desired.boundary
    BY <1>a, <2>2, PlannedRemovals
  <2>4. /\ r.policies = role.policies /\ r.inline = role.inline /\ r.tags = role.tags
        /\ r.boundary = b /\ r.assume = role.assume /\ r.session = role.session
        /\ r.description = role.description
    BY <1>a DEF Content
  <2>5. Answered({c}, r)
    BY <2>1
  <2> HIDE DEF r, b
  <2>6. SettledBoundary'
    BY <1>e, <2>3, <2>4, <2>5 DEF SettledBoundary
  <2>7. \A e \in {c} : e.call = name
    BY <2>2
  <2>8. Settled => Settled'
    <3> SUFFICES ASSUME Settled
                 PROVE  /\ SettledPolicies' /\ SettledInline' /\ SettledTags'
                        /\ SettledAssume' /\ SettledSettings'
      BY <2>6 DEF Settled
    <3>1. /\ name \notin {"AttachRolePolicy", "DetachRolePolicy"}
          /\ name \notin {"PutRolePolicy", "DeleteRolePolicy"}
          /\ name \notin {"TagRole", "UntagRole"}
          /\ name # "UpdateAssumeRolePolicy"
          /\ name # "UpdateRole"
      OBVIOUS
    <3> QED
      BY <2>4, <2>5, <2>7, <3>1, AnsweredSettled
  <2> QED
    BY <1>c, <2>1, <2>5, <2>8
<1>5. CASE PutAssumeRolePolicy
  <2> DEFINE r == [role EXCEPT !.assume = desired.assume]
  <2>1. \/ \E o : Finish(o)
        \/ \E c \in DueCalls("UpdateAssumeRolePolicy") : pc = "update" /\ Answered({c}, r)
    BY <1>5 DEF PutAssumeRolePolicy
  <2>2. ASSUME NEW c \in DueCalls("UpdateAssumeRolePolicy"), pc = "update", Answered({c}, r)
        PROVE  SettledInv'
    <3>1. \A e \in {c} : e.call = "UpdateAssumeRolePolicy"
      BY <1>d
    <3>2. /\ r.policies = role.policies /\ r.inline = role.inline /\ r.tags = role.tags
          /\ r.boundary = role.boundary /\ r.assume = desired.assume /\ r.session = role.session
          /\ r.description = role.description
      BY <1>a DEF Content
    <3> HIDE DEF r
    <3>3. SettledAssume'
      BY <1>e, <2>2, <3>2 DEF SettledAssume
    <3>4. Settled => Settled'
      BY <2>2, <3>1, <3>2, <3>3, AnsweredSettled DEF Settled
    <3> QED
      BY <1>c, <2>2, <3>4
  <2> QED
    BY <1>b, <2>1, <2>2
<1>6. CASE UpdateRole
  <2> DEFINE r == [role EXCEPT !.session = OrElse(desired.session, DefaultSession),
                            !.description = OrElse(desired.description, @)]
  <2>1. \/ \E o : Finish(o)
        \/ \E c \in DueCalls("UpdateRole") : pc = "update" /\ Answered({c}, r)
    BY <1>6 DEF UpdateRole
  <2>2. ASSUME NEW c \in DueCalls("UpdateRole"), pc = "update", Answered({c}, r)
        PROVE  SettledInv'
    <3>1. \A e \in {c} : e.call = "UpdateRole"
      BY <1>d
    <3>2. /\ r.policies = role.policies /\ r.inline = role.inline /\ r.tags = role.tags
          /\ r.boundary = role.boundary /\ r.assume = role.assume
          /\ r.session = OrElse(desired.session, DefaultSession)
          /\ r.description = OrElse(desired.description, role.description)
      BY <1>a DEF Content
    <3> HIDE DEF r
    <3>3. SettledSettings'
      BY <1>e, <2>2, <3>2 DEF SettledSettings, OrElse
    <3>4. Settled => Settled'
      BY <2>2, <3>1, <3>2, <3>3, AnsweredSettled DEF Settled
    <3> QED
      BY <1>c, <2>2, <3>4
  <2> QED
    BY <1>b, <2>1, <2>2
<1> QED
  BY <1>b, <1>1, <1>2, <1>3, <1>4, <1>5, <1>6 DEF SdkUpdate

\* The invariant of this part.
Complete == Undip /\ SettledInv

\* It is kept by every step.
LEMMA StepComplete == Complete /\ [Next]_vars => Complete'
<1> SUFFICES ASSUME Complete, [Next]_vars PROVE SettledInv'
    BY StepUndip DEF Complete
<1>1. CASE UNCHANGED vars
  <2>1. UNCHANGED <<exists, role, pc, op, desired, latest, plan, drift>>
    BY <1>1 DEF vars, copies, work, iamVars
  <2> QED
    BY <2>1 DEF Complete, SettledInv, Settled, SettledPolicies, SettledInline, SettledTags,
       SettledBoundary, SettledAssume, SettledSettings, InlineDone, TagDone, Left
<1>2. CASE Next
  BY <1>2, ReadSettled, UpdateSettled, OtherSettled
     DEF Next, Controller, Environment, SdkUpdate, Complete, Undip
<1> QED
  BY <1>1, <1>2

\* sdkUpdate that returns without an error, undisturbed, has left the role with the policies,
\* inline documents (up to their unescaping), tags (but those whose value changed), boundary,
\* trust policy and session of its copy of the spec, and with its description, if it has
\* one.  Nothing is said of the path: the update compares it and cannot change it.
THEOREM AppliedOnSuccess == Spec => []SuccessMeansApplied
<1>1. Init => Complete
  BY InitUndip DEF Complete, SettledInv, Init
<1>2. ASSUME Shape, LifeInv, SettledInv
      PROVE  SuccessMeansApplied
  <2> SUFFICES ASSUME pc \in {"lateInit", "patch"}, ~drift
               PROVE  /\ exists /\ SettledPolicies /\ SettledInline /\ SettledTags
                      /\ SettledBoundary /\ SettledAssume /\ SettledSettings
                      /\ \A m, x : ~Left(m, x)
    BY DEF SuccessMeansApplied, SettledPolicies, SettledInline, SettledTags,
       SettledBoundary, SettledAssume, SettledSettings, InlineDone, TagDone
  <2>1. plan = {} /\ op = "sync"
    BY <1>2 DEF Shape, TypeOK, LifeInv
  <2> QED
    BY <1>2, <2>1 DEF SettledInv, Settled, Left
<1>3. Complete => Shape
  BY DEF Complete, Undip
<1> QED
  BY <1>1, <1>2, <1>3, InitLife, StepLife, StepComplete, PTL DEF Spec, Complete, Life

-----------------------------------------------------------------------------
(* The tags of AWS services.                                               *)

\* Once the two copies are compared, the tags of AWS services in them are the same.
MirrorInv == pc = "update" =>
    \A k \in SystemKeys : latest.tags[k] # None => desired.tags[k] = latest.tags[k]

LEMMA StepMirrored == Shape /\ MirrorInv /\ [Next]_vars => MirrorInv'
<1> SUFFICES ASSUME Shape, MirrorInv, [Next]_vars, pc' = "update"
             PROVE  \A k \in SystemKeys : latest'.tags[k] # None =>
                        desired'.tags[k] = latest'.tags[k]
  BY DEF MirrorInv
<1>1. CASE pc = "update" /\ UNCHANGED <<desired, latest>>
  BY <1>1 DEF MirrorInv
<1>2. CASE ListRoleTags
  <2> DEFINE found == [latest EXCEPT !.tags = role.tags]
             goal  == IF op = "delete" THEN [found EXCEPT !.policies = {}, !.inline = Blank.inline]
                      ELSE MirrorAWSTags(desired, found)
  <2>1. latest' = found /\ desired' = goal
    BY <1>2 DEF ListRoleTags, RoleVanished, CallFails, Finish
  <2>2. found \in Content /\ desired \in Content
    BY DEF Shape, TypeOK, Content
  <2>3. ConstantsAssumption /\ SystemKeys \subseteq TagKeys
    BY ConstantsAssumption DEF ConstantsAssumption
  <2> HIDE DEF found
  <2>4. \A k \in SystemKeys : found.tags[k] # None => goal.tags[k] = found.tags[k]
    BY <2>2, <2>3 DEF Content, MirrorAWSTags
  <2> QED
    BY <2>1, <2>4
<1> QED
  <2>1. UNCHANGED vars \/ EditSpec \/ DeleteCR \/ Drift => UNCHANGED <<pc, desired, latest>>
    BY DEF vars, copies, EditSpec, DeleteCR, Drift
  <2>2. SdkUpdate => pc = "update" /\ UNCHANGED <<desired, latest>>
    BY DEF SdkUpdate, AddManagedPolicy, RemoveManagedPolicy, AddInlinePolicy, RemoveInlinePolicy,
       AddTags, RemoveTags, PutRolePermissionsBoundary, DeleteRolePermissionsBoundary,
       PutAssumeRolePolicy, UpdateRole, UpdateFails, Answered, Proceed, copies, Finish,
       RoleVanished, CallFails
  <2>3. Read => ListRoleTags
    BY DEF Read, GetRole, ListAttachedRolePolicies, ListRolePolicies, GetRolePolicy, NotFound,
       RoleVanished, CallFails, Finish
  <2>4. ~(Reconcile \/ Resync \/ MarkManaged \/ CreateRole \/ LateInitialize \/ Patch
          \/ DeleteRole \/ MarkUnmanaged \/ Crash)
    BY DEF Reconcile, Resync, MarkManaged, CreateRole, LateInitialize, Patch, DeleteRole,
       MarkUnmanaged, Crash, RoleVanished, CallFails, Finish
  <2> QED
    BY <1>1, <1>2, <2>1, <2>2, <2>3, <2>4 DEF Next, Controller, Environment

\* No tag is lost.
TagsStay ==
    exists /\ exists' => \A k \in SystemKeys : role.tags[k] # None => role'.tags[k] # None

LEMMA SameTagsStay == role'.tags = role.tags => TagsStay
  BY DEF TagsStay

\* What an update does to the tags of AWS services: it may put them back, and it takes off
\* none that it knows of.
LEMMA TagCallsStay ==
  ASSUME Shape, MirrorInv, AddTags \/ RemoveTags
  PROVE  TagsStay
<1>a. /\ role \in Content /\ desired \in Content /\ latest \in Content /\ pc = "update"
      /\ plan \subseteq Plan(desired, latest) /\ SystemKeys \subseteq TagKeys
  BY ConstantsAssumption DEF Shape, TypeOK, PlanInv, AddTags, RemoveTags, ConstantsAssumption
<1>1. CASE AddTags
  <2> DEFINE t == [k \in TagKeys |-> IF \E c \in DueCalls("TagRole") : c.arg = k
                                     THEN desired.tags[k] ELSE role.tags[k]]
  <2>1. role' = [role EXCEPT !.tags = t]
    BY <1>1 DEF AddTags, Answered
  <2>2. role'.tags = t
    BY <1>a, <2>1 DEF Content
  <2>3. \A c \in Plan(desired, latest) : c.call = "TagRole" => desired.tags[c.arg] # None
    BY <1>a DEF Plan, SyncManagedPolicies, SyncInlinePolicies, SyncTags,
       SyncRolePermissionsBoundary, SyncSettings, When, Calls, InlineToAdd, InlineToDelete
  <2>4. \A c \in DueCalls("TagRole") : desired.tags[c.arg] # None
    BY <1>a, <2>3 DEF DueCalls
  <2>5. \A k \in SystemKeys : role'.tags[k] = IF \E c \in DueCalls("TagRole") : c.arg = k
                                             THEN desired.tags[k] ELSE role.tags[k]
    BY <1>a, <2>2
  <2> QED
    BY <2>4, <2>5 DEF TagsStay
<1>2. CASE RemoveTags
  <2> DEFINE t == [k \in TagKeys |-> IF \E c \in DueCalls("UntagRole") : c.arg = k
                                     THEN None ELSE role.tags[k]]
  <2>1. role' = [role EXCEPT !.tags = t]
    BY <1>2 DEF RemoveTags, Answered
  <2>2. role'.tags = t
    BY <1>a, <2>1 DEF Content, Maybe
  <2>3. \A c \in DueCalls("UntagRole") : latest.tags[c.arg] \notin {None, desired.tags[c.arg]}
    BY <1>a, PlannedRemovals DEF DueCalls
  <2>4. \A c \in DueCalls("UntagRole") : c.arg \notin SystemKeys
    BY <1>a, <2>3 DEF MirrorInv
  <2>5. \A k \in SystemKeys : role'.tags[k] = role.tags[k]
    BY <1>a, <2>2, <2>4
  <2> QED
    BY <2>5 DEF TagsStay
<1> QED
  BY <1>1, <1>2

LEMMA StepTagsStay == Life /\ MirrorInv /\ [Next]_vars => TagsStay
<1> SUFFICES ASSUME Shape, LifeInv, MirrorInv, [Next]_vars PROVE TagsStay
  BY DEF Life
<1>a. role \in Content
  BY DEF Shape, TypeOK
<1>1. CASE UNCHANGED role
  BY <1>1, SameTagsStay
<1>2. CASE SdkUpdate
  <2>1. CASE AddTags \/ RemoveTags
    BY <2>1, TagCallsStay
  <2>2. CASE ~(AddTags \/ RemoveTags)
    <3>1. role'.tags = role.tags
      BY <1>2, <1>a, <2>2
         DEF SdkUpdate, AddManagedPolicy, RemoveManagedPolicy, AddInlinePolicy, RemoveInlinePolicy,
             PutRolePermissionsBoundary, DeleteRolePermissionsBoundary, PutAssumeRolePolicy,
             UpdateRole, UpdateFails, Answered, RoleVanished, CallFails, iamVars, Content
    <3> QED
      BY <3>1, SameTagsStay
  <2> QED
    BY <2>1, <2>2
<1>3. CASE CreateRole \/ DeleteRole
  <2>1. UNCHANGED role \/ ~exists \/ exists' = FALSE
    BY <1>3 DEF CreateRole, DeleteRole, RoleVanished, CallFails, iamVars, LifeInv
  <2> QED
    BY <2>1, <1>1 DEF TagsStay
<1>4. CASE Drift
  <2>1. CASE \E k \in SystemKeys, v \in TagValues : role' = [role EXCEPT !.tags[k] = v]
    <3>1. PICK k \in SystemKeys, v \in TagValues :
             role' = [role EXCEPT !.tags = [role.tags EXCEPT ![k] = v]]
      BY <2>1
    <3>2. \A j \in SystemKeys : role'.tags[j] = IF j = k THEN v ELSE role.tags[j]
      BY <1>a, <3>1, ConstantsAssumption DEF Content, ConstantsAssumption
    <3>3. v # None
      BY ConstantsAssumption DEF ConstantsAssumption
    <3> QED
      BY <3>2, <3>3 DEF TagsStay
  <2>2. CASE exists' = FALSE
    BY <2>2 DEF TagsStay
  <2>3. CASE ~(\E k \in SystemKeys, v \in TagValues : role' = [role EXCEPT !.tags[k] = v])
             /\ exists' # FALSE
    <3>1. role'.tags = role.tags
      BY <1>4, <1>a, <2>3 DEF Drift, Content
    <3> QED
      BY <3>1, SameTagsStay
  <2> QED
    BY <2>1, <2>2, <2>3
<1> QED
  <2>1. (UNCHANGED vars \/ Reconcile \/ Resync \/ Read \/ MarkManaged \/ LateInitialize \/ Patch
           \/ MarkUnmanaged \/ Crash \/ EditSpec \/ DeleteCR) => UNCHANGED role
    BY DEF vars, iamVars, Reconcile, Resync, Read, GetRole, ListAttachedRolePolicies,
       ListRolePolicies, GetRolePolicy, ListRoleTags, NotFound, MarkManaged, LateInitialize, Patch,
       MarkUnmanaged, Crash, EditSpec, DeleteCR, RoleVanished, CallFails
  <2> QED
    BY <1>1, <1>2, <1>3, <1>4, <2>1 DEF Next, Controller, Environment

\* The controller never takes off a tag that an AWS service has put on the role, not even one
\* that appears during the update: mirrorAWSTags puts those it has seen into the desired tags.
THEOREM SystemTagsStay == Spec => SystemTagsKept
<1>1. Init => MirrorInv
  BY DEF Init, MirrorInv
<1>2. Life /\ MirrorInv /\ [Next]_vars => MirrorInv' /\ [TagsStay]_vars
  BY StepTagsStay, StepMirrored DEF Life
<1> QED
  BY <1>1, <1>2, InitLife, StepLife, PTL DEF Spec, SystemTagsKept, TagsStay

=============================================================================
