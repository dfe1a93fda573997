-------------------------- MODULE ReconcilerProofs --------------------------
(***************************************************************************)
(* What the proofs about the resource kinds share: the types, what a       *)
(* reconcile holds while it is under way, and the life of the object,      *)
(* through the steps that Reconciler defines, for a kind with any content, *)
(* places and calls.                                                       *)
(***************************************************************************)
EXTENDS Reconciler, TLAPS

\* The CR of a kind.
CRType(Content) ==
    [here : BOOLEAN, deleting : BOOLEAN, managed : BOOLEAN, id : BOOLEAN, spec : Content]

SharedPlaces == {"idle", "manage", "create", "lateInit", "patch", "unmanage"}

\* Common types, and a copy of the spec as long as a reconcile is under way.
Sound(Content, Places, Calls) ==
    /\ CommonTypes(Content, Places, Calls)
    /\ pc # "idle" => desired \in Content

LEMMA InitSound ==
  ASSUME NEW Content, NEW Places, NEW Calls, NEW Specs, Specs \subseteq Content,
         Init(Specs)
  PROVE  Sound(Content, Places, Calls)
<1>1. PICK s \in Specs : cr = [here |-> TRUE, deleting |-> FALSE, managed |-> FALSE,
                             id |-> ByName, spec |-> s]
  BY DEF Init
<1>2. cr \in CRType(Content)
  BY <1>1, ReconcilerAssumption DEF CRType
<1>3. /\ cond = "None" /\ queued = TRUE /\ object = None /\ pc = "idle" /\ op = "sync"
      /\ id = ByName /\ desired = None /\ latest = None /\ todo = {} /\ drift = FALSE
      /\ budget = Budget
  BY DEF Init
<1> QED
  BY <1>2, <1>3, ReconcilerAssumption DEF Sound, CommonTypes, CRType, Outcomes

\* A reconcile that is over is sound, whatever it was.
LEMMA IdleSound ==
  ASSUME NEW Content, NEW Places, NEW Calls,
         Sound(Content, Places, Calls), Idle,
         cr' \in CRType(Content), cond' \in Outcomes, queued' \in BOOLEAN,
         object' \in Content \cup {None}, budget' \in [Misfortunes -> Nat]
  PROVE  Sound(Content, Places, Calls)' /\ pc' = "idle" /\ todo' = {}
  BY ReconcilerAssumption DEF Sound, CommonTypes, Idle, CRType

\* A CR that is written with an id, or not, is still a CR.
LEMMA FinishSound ==
  ASSUME NEW Content, NEW Places, NEW Calls,
         Sound(Content, Places, Calls), NEW o \in Outcomes, NEW c \in CRType(Content),
         FinishWith(o, c),
         object' \in Content \cup {None}, budget' \in [Misfortunes -> Nat]
  PROVE  Sound(Content, Places, Calls)' /\ pc' = "idle" /\ todo' = {}
<1>1. id \in BOOLEAN /\ queued \in BOOLEAN
  BY DEF Sound, CommonTypes
<1>2. cr' \in CRType(Content)
  BY <1>1 DEF FinishWith, CRType
<1>3. queued' \in BOOLEAN /\ cond' \in Outcomes /\ Idle
  BY <1>1 DEF FinishWith
<1> QED
  BY <1>2, <1>3, IdleSound

\* The bound of a misfortune stays a number.
LEMMA SpendSound ==
  ASSUME NEW Content, NEW Places, NEW Calls, Sound(Content, Places, Calls),
         NEW w \in Misfortunes, Spend(w)
  PROVE  budget' \in [Misfortunes -> Nat]
  BY DEF Sound, CommonTypes, Spend

\* A call that is refused or fails ends the reconcile.
LEMMA RefusedSound ==
  ASSUME NEW Content, NEW Places, NEW Calls, Sound(Content, Places, Calls),
         (\E o \in Outcomes : Refused(o)) \/ CallFails
  PROVE  Sound(Content, Places, Calls)' /\ pc' = "idle" /\ todo' = {}
<1>1. cr \in CRType(Content) /\ object \in Content \cup {None} /\ budget \in [Misfortunes -> Nat]
  BY DEF Sound, CommonTypes, CRType
<1>2. ASSUME NEW o \in Outcomes, Refused(o)
      PROVE  Sound(Content, Places, Calls)' /\ pc' = "idle" /\ todo' = {}
  <2>1. FinishWith(o, cr) /\ UNCHANGED <<object, budget>>
    BY <1>2 DEF Refused, Finish
  <2> QED
    BY <1>1, <2>1, FinishSound
<1>3. ASSUME CallFails
      PROVE  Sound(Content, Places, Calls)' /\ pc' = "idle" /\ todo' = {}
  <2>1. FinishWith("Recoverable", cr) /\ UNCHANGED object /\ Spend("fault")
    BY <1>3 DEF CallFails, Finish
  <2>2. "Recoverable" \in Outcomes /\ "fault" \in Misfortunes
    BY DEF Outcomes, Misfortunes
  <2> QED
    BY <1>1, <2>1, <2>2, SpendSound, FinishSound
<1> QED
  BY <1>2, <1>3

\* A step between two calls.
LEMMA GotoSound ==
  ASSUME NEW Content, NEW Places, NEW Calls, Sound(Content, Places, Calls),
         NEW q \in Places \cup SharedPlaces, Goto(q),
         object' \in Content \cup {None}, op' \in {"sync", "create", "delete"}, id' \in BOOLEAN,
         desired' \in Content, latest' \in Content \cup {None}, todo' \subseteq Calls
  PROVE  Sound(Content, Places, Calls)'
  BY DEF Sound, CommonTypes, Goto, SharedPlaces

LEMMA AnsweredSound ==
  ASSUME NEW Content, NEW Places, NEW Calls, Sound(Content, Places, Calls), pc # "idle",
         NEW q \in Places \cup SharedPlaces, NEW o \in Content \cup {None}, Answered(o, q)
  PROVE  Sound(Content, Places, Calls)' /\ UNCHANGED copies /\ pc' = q
<1>1. Goto(q) /\ object' = o /\ UNCHANGED <<op, id, desired, latest, todo>>
  BY DEF Answered, copies
<1>2. op \in {"sync", "create", "delete"} /\ id \in BOOLEAN /\ desired \in Content
      /\ latest \in Content \cup {None} /\ todo \subseteq Calls
  BY DEF Sound, CommonTypes
<1> QED
  BY <1>1, <1>2, GotoSound DEF Goto, copies

LEMMA NotFoundSound ==
  ASSUME NEW Content, NEW Places, NEW Calls, Sound(Content, Places, Calls), pc # "idle", NotFound
  PROVE  Sound(Content, Places, Calls)' /\ UNCHANGED copies /\ pc' \in {"manage", "unmanage"}
<1>1. Answered(object, IF op = "delete" THEN "unmanage" ELSE "manage")
  BY DEF NotFound, Answered
<1>2. object \in Content \cup {None}
  BY DEF Sound, CommonTypes
<1> QED
  BY <1>1, <1>2, AnsweredSound DEF SharedPlaces

\* The beginning of a reconcile.
LEMMA ReconcileSound ==
  ASSUME NEW Content, NEW Places, NEW Calls, Sound(Content, Places, Calls),
         "read" \in Places, Reconcile
  PROVE  Sound(Content, Places, Calls)' /\ UNCHANGED <<todo, object>> /\ pc' \in {"idle", "read"}
<1>1. CASE cr.here
  BY <1>1 DEF Reconcile, Sound, CommonTypes
<1>2. CASE ~cr.here
  BY <1>2 DEF Reconcile, Sound, CommonTypes
<1> QED
  BY <1>1, <1>2

LEMMA ResyncSound ==
  ASSUME NEW Content, NEW Places, NEW Calls, Sound(Content, Places, Calls), Resync
  PROVE  Sound(Content, Places, Calls)'
  BY DEF Resync, Sound, CommonTypes, copies

LEMMA MarkManagedSound ==
  ASSUME NEW Content, NEW Places, NEW Calls, Sound(Content, Places, Calls), MarkManaged
  PROVE  /\ Sound(Content, Places, Calls)' /\ UNCHANGED <<object, budget>>
         /\ (pc' = "create" /\ UNCHANGED copies) \/ (pc' = "idle" /\ todo' = {})
<1>1. cr \in CRType(Content) /\ cond \in Outcomes /\ object \in Content \cup {None}
      /\ budget \in [Misfortunes -> Nat]
  BY DEF Sound, CommonTypes, CRType
<1>2. CASE cr.here
  <2>1. cr' \in CRType(Content)
    BY <1>1, <1>2 DEF MarkManaged, CRType
  <2>2. pc' = "create" /\ pc = "manage" /\ UNCHANGED copies
        /\ cond' = cond /\ queued' = queued /\ drift' = drift
        /\ object' = object /\ budget' = budget
    BY <1>2 DEF MarkManaged
  <2>3. Sound(Content, Places, Calls)'
    BY <2>1, <2>2 DEF Sound, CommonTypes, CRType, copies
  <2> QED
    BY <2>2, <2>3
<1>3. CASE ~cr.here
  <2>1. FinishWith(cond, cr) /\ object' = object /\ budget' = budget
    BY <1>3 DEF MarkManaged, Finish
  <2> QED
    BY <1>1, <2>1, FinishSound
<1> QED
  BY <1>2, <1>3

LEMMA PatchSound ==
  ASSUME NEW Content, NEW Places, NEW Calls, Sound(Content, Places, Calls),
         NEW o \in Outcomes, NEW s \in Content, Patch(o, s)
  PROVE  Sound(Content, Places, Calls)' /\ pc' = "idle" /\ todo' = {} /\ UNCHANGED object
<1>1. cr \in CRType(Content) /\ cond \in Outcomes /\ object \in Content \cup {None}
      /\ budget \in [Misfortunes -> Nat]
  BY DEF Sound, CommonTypes, CRType
<1>2. ASSUME FinishWith(o, [cr EXCEPT !.spec = s]), UNCHANGED budget, UNCHANGED object
      PROVE  Sound(Content, Places, Calls)' /\ pc' = "idle" /\ todo' = {} /\ UNCHANGED object
  <2>1. [cr EXCEPT !.spec = s] \in CRType(Content)
    BY <1>1 DEF CRType
  <2> QED
    BY <1>1, <1>2, <2>1, FinishSound
<1>3. ASSUME Spend("patch"), queued' = TRUE, Idle, UNCHANGED <<cr, cond, object>>
      PROVE  Sound(Content, Places, Calls)' /\ pc' = "idle" /\ todo' = {} /\ UNCHANGED object
  <2>1. budget' \in [Misfortunes -> Nat]
    BY <1>3, SpendSound DEF Misfortunes
  <2> QED
    BY <1>1, <1>3, <2>1, IdleSound
<1> QED
  BY <1>2, <1>3 DEF Patch

LEMMA MarkUnmanagedSound ==
  ASSUME NEW Content, NEW Places, NEW Calls, Sound(Content, Places, Calls), MarkUnmanaged
  PROVE  Sound(Content, Places, Calls)' /\ pc' = "idle" /\ todo' = {} /\ UNCHANGED object
<1>1. cr' \in CRType(Content)
  BY DEF MarkUnmanaged, Sound, CommonTypes, CRType
<1>2. UNCHANGED <<cond, queued, object, budget>> /\ Idle
  BY DEF MarkUnmanaged
<1>3. cond \in Outcomes /\ queued \in BOOLEAN /\ object \in Content \cup {None}
      /\ budget \in [Misfortunes -> Nat]
  BY DEF Sound, CommonTypes
<1> QED
  BY <1>1, <1>2, <1>3, IdleSound

LEMMA CrashSound ==
  ASSUME NEW Content, NEW Places, NEW Calls, Sound(Content, Places, Calls), Crash
  PROVE  Sound(Content, Places, Calls)' /\ pc' = "idle" /\ todo' = {} /\ UNCHANGED object
<1>1. budget' \in [Misfortunes -> Nat]
  BY SpendSound DEF Crash, Misfortunes
<1>2. cr \in CRType(Content) /\ cond \in Outcomes /\ object \in Content \cup {None}
  BY DEF Sound, CommonTypes, CRType
<1> QED
  BY <1>1, <1>2, IdleSound DEF Crash

\* What users do leaves the reconcile alone.
LEMMA UserSound ==
  ASSUME NEW Content, NEW Places, NEW Calls, Sound(Content, Places, Calls),
         NEW Specs, Specs \subseteq Content, EditSpec(Specs) \/ DeleteCR
  PROVE  Sound(Content, Places, Calls)' /\ UNCHANGED <<object, pc, copies, drift>>
<1>1. cr \in CRType(Content)
  BY DEF Sound, CommonTypes, CRType
<1>2. cr' \in CRType(Content) /\ queued' = TRUE /\ UNCHANGED <<cond, object, pc, copies, drift>>
  BY <1>1 DEF EditSpec, DeleteCR, CRType
<1>3. budget' \in [Misfortunes -> Nat]
  BY SpendSound DEF EditSpec, DeleteCR, Misfortunes, Sound, CommonTypes
<1> QED
  BY <1>2, <1>3 DEF Sound, CommonTypes, CRType, copies

LEMMA DriftsSound ==
  ASSUME NEW Content, NEW Places, NEW Calls, Sound(Content, Places, Calls),
         NEW o \in Content \cup {None}, Drifts(o)
  PROVE  Sound(Content, Places, Calls)' /\ drift' = TRUE /\ UNCHANGED <<pc, copies>>
<1>1. budget' \in [Misfortunes -> Nat]
  BY SpendSound DEF Drifts, Misfortunes
<1> QED
  BY <1>1 DEF Drifts, Sound, CommonTypes, copies

-----------------------------------------------------------------------------
(* The life of an object that is found by its name: how the steps of       *)
(* Reconciler map to those of Lifecycle.                                   *)

LifeVars == <<cr.here, cr.managed, cr.deleting, known>>

Mapped == L!Next \/ UNCHANGED LifeVars

\* Where the object stands to the CR and to the reconcile; it is deleted at the place.
LifeInv(place) ==
    /\ cr.id = TRUE /\ id = TRUE
    /\ exists => cr.here /\ cr.managed
    /\ cr.here /\ cr.deleting => cr.managed
    /\ pc # "idle" /\ op = "delete" => cr.here /\ cr.deleting
    /\ pc \in {"manage", "create", "unmanage"} => ~exists
    /\ pc = "create" => cr.here /\ cr.managed
    /\ pc \in {place, "unmanage"} => op = "delete"

LEMMA InitLife ==
  ASSUME NEW Specs, Init(Specs), ByName, NEW place, place # "idle"
  PROVE  LifeInv(place) /\ L!Init
<1>1. PICK s \in Specs : cr = [here |-> TRUE, deleting |-> FALSE, managed |-> FALSE,
                             id |-> ByName, spec |-> s]
  BY DEF Init
<1>2. object = None /\ pc = "idle" /\ id = ByName
  BY DEF Init
<1>3. cr.here = TRUE /\ cr.managed = FALSE /\ cr.deleting = FALSE /\ cr.id = TRUE /\ id = TRUE
  BY <1>1, <1>2, ReconcilerAssumption
<1> QED
  BY <1>2, <1>3 DEF LifeInv, exists, known, L!Init

\* The CR's life goes on and the object is there, or not, as before.
LEMMA StutterLife ==
  ASSUME NEW place, place # "idle", LifeInv(place),
         cr'.here = cr.here, cr'.managed = cr.managed, cr'.deleting = cr.deleting, cr'.id = TRUE,
         id' = TRUE, exists' = exists, pc' \notin {"manage", "create", "unmanage"},
         pc' # "idle" /\ op' = "delete" => pc # "idle" /\ op = "delete",
         pc' = place => op' = "delete"
  PROVE  LifeInv(place)' /\ Mapped
<1>1. LifeInv(place)'
  BY DEF LifeInv
<1>2. known' = known
  BY DEF LifeInv, known
<1> QED
  BY <1>1, <1>2 DEF Mapped, LifeVars

LEMMA FinishLife ==
  ASSUME NEW Content, NEW place, place # "idle", LifeInv(place), ByName, cr \in CRType(Content),
         \/ CallFails \/ Crash \/ \E o \in Outcomes : Refused(o)
         \/ \E o \in Outcomes, s \in Content : Patch(o, s)
  PROVE  LifeInv(place)' /\ Mapped
<1>1. Idle => pc' = "idle" /\ id' = TRUE
  BY ReconcilerAssumption DEF Idle
<1>2. cr.id = TRUE
  BY DEF LifeInv
<1>3. ASSUME NEW c \in CRType(Content), c.here = cr.here, c.managed = cr.managed,
             c.deleting = cr.deleting, c.id = TRUE, cr' = [c EXCEPT !.id = @ \/ id]
      PROVE  cr'.here = cr.here /\ cr'.managed = cr.managed /\ cr'.deleting = cr.deleting
             /\ cr'.id = TRUE
  BY <1>3 DEF CRType
<1>4. ASSUME NEW o, Finish(o), UNCHANGED object
      PROVE  LifeInv(place)' /\ Mapped
  <2>1. cr' = [cr EXCEPT !.id = @ \/ id] /\ Idle
    BY <1>4 DEF Finish, FinishWith
  <2> QED
    BY <1>1, <1>2, <1>3, <1>4, <2>1, StutterLife DEF exists
<1>5. ASSUME NEW o, NEW s \in Content, FinishWith(o, [cr EXCEPT !.spec = s]), UNCHANGED object
      PROVE  LifeInv(place)' /\ Mapped
  <2>1. cr' = [[cr EXCEPT !.spec = s] EXCEPT !.id = @ \/ id] /\ Idle
    BY <1>5 DEF FinishWith
  <2>2. [cr EXCEPT !.spec = s] \in CRType(Content)
    BY DEF CRType
  <2>3. /\ [cr EXCEPT !.spec = s].here = cr.here
        /\ [cr EXCEPT !.spec = s].managed = cr.managed
        /\ [cr EXCEPT !.spec = s].deleting = cr.deleting
        /\ [cr EXCEPT !.spec = s].id = TRUE
    BY <1>2 DEF CRType
  <2>4. cr'.here = cr.here /\ cr'.managed = cr.managed /\ cr'.deleting = cr.deleting
        /\ cr'.id = TRUE
    BY <1>3, <2>1, <2>2, <2>3
  <2> QED
    BY <1>1, <1>5, <2>1, <2>4, StutterLife DEF exists
<1>6. ASSUME Idle, UNCHANGED <<cr, object>>
      PROVE  LifeInv(place)' /\ Mapped
  BY <1>1, <1>2, <1>6, StutterLife DEF exists
<1> QED
  BY <1>4, <1>5, <1>6 DEF CallFails, Crash, Refused, Patch

\* A reconcile goes on.
LEMMA GoesOnLife ==
  ASSUME NEW place, place # "idle", LifeInv(place), pc # "idle", NEW q, Goto(q),
         q \notin {"manage", "create", "unmanage"}, q = place => op = "delete",
         UNCHANGED <<op, id>>, exists' = exists
  PROVE  LifeInv(place)' /\ Mapped
<1>1. cr' = cr /\ pc' = q /\ op' = op /\ id' = id /\ cr.id = TRUE /\ id = TRUE
  BY DEF Goto, LifeInv
<1> QED
  BY <1>1, StutterLife

LEMMA NotFoundLife ==
  ASSUME NEW place, place \notin {"manage", "unmanage"}, LifeInv(place), pc # "idle", ~exists,
         NotFound
  PROVE  LifeInv(place)' /\ Mapped
<1>1. /\ cr' = cr /\ object' = object /\ op' = op /\ id' = id
      /\ pc' = IF op = "delete" THEN "unmanage" ELSE "manage"
  BY DEF NotFound, Goto, copies
<1> QED
  BY <1>1 DEF LifeInv, Mapped, LifeVars, known, exists

LEMMA CreateLife ==
  ASSUME NEW place, place # "lateInit", LifeInv(place), pc = "create", exists', op' = "create",
         UNCHANGED id, Goto("lateInit")
  PROVE  LifeInv(place)' /\ Mapped
<1>1. /\ cr' = cr /\ pc' = "lateInit" /\ id' = id /\ ~exists /\ cr.here /\ cr.managed
      /\ cr.id = TRUE
  BY DEF Goto, LifeInv
<1>2. LifeInv(place)'
  BY <1>1 DEF LifeInv
<1>3. ~known /\ known' = TRUE
  BY <1>1 DEF known, exists
<1> QED
  BY <1>1, <1>2, <1>3 DEF Mapped, L!Next, L!Create

LEMMA DeleteLife ==
  ASSUME NEW place, place # "idle", place # "unmanage", LifeInv(place), pc = place, exists,
         Answered(None, "unmanage")
  PROVE  LifeInv(place)' /\ Mapped
<1>1. cr' = cr /\ pc' = "unmanage" /\ id' = id /\ op' = op /\ object' = None
  BY DEF Answered, Goto, copies
<1>2. LifeInv(place)'
  BY <1>1 DEF LifeInv, exists
<1>3. known /\ known' = FALSE
  BY <1>1 DEF known, exists, LifeInv
<1> QED
  BY <1>1, <1>2, <1>3 DEF Mapped, L!Next, L!Destroy

LEMMA DriftsLife ==
  ASSUME NEW place, LifeInv(place), NEW o, Drifts(o)
  PROVE  LifeInv(place)' /\ Mapped
<1>1. /\ cr' = cr /\ pc' = pc /\ id' = id /\ op' = op /\ exists
  BY DEF Drifts, copies
<1>2. LifeInv(place)'
  BY <1>1 DEF LifeInv
<1>3. CASE exists'
  BY <1>1, <1>2, <1>3 DEF Mapped, LifeVars, known, exists
<1>4. CASE ~exists'
  <2>1. known /\ known' = FALSE
    BY <1>1, <1>4 DEF known, LifeInv, exists
  <2> QED
    BY <1>1, <1>2, <2>1 DEF Mapped, L!Next, L!Destroy
<1> QED
  BY <1>3, <1>4

LEMMA ReconcileLife ==
  ASSUME NEW place, place \notin {"idle", "read"}, LifeInv(place), Reconcile \/ Resync
  PROVE  LifeInv(place)' /\ Mapped
<1>1. CASE Reconcile /\ cr.here
  <2>1. /\ cr' = cr /\ object' = object /\ pc' = "read" /\ id' = cr.id
        /\ op' = IF cr.deleting THEN "delete" ELSE "sync"
    BY <1>1 DEF Reconcile
  <2> QED
    BY <1>1, <2>1 DEF LifeInv, Mapped, LifeVars, known, exists
<1>2. CASE (Reconcile /\ ~cr.here) \/ Resync
  <2>1. cr' = cr /\ object' = object /\ pc' = pc /\ id' = id /\ op' = op
    BY <1>2 DEF Reconcile, Resync, copies
  <2> QED
    BY <2>1 DEF LifeInv, Mapped, LifeVars, known, exists
<1> QED
  BY <1>1, <1>2

LEMMA FinalizerLife ==
  ASSUME NEW Content, NEW place, place \notin {"idle", "create"}, LifeInv(place), ByName,
         cr \in CRType(Content), cond \in Outcomes, MarkManaged \/ MarkUnmanaged
  PROVE  LifeInv(place)' /\ Mapped
<1>1. CASE MarkManaged /\ cr.here
  <2>1. /\ cr' = [cr EXCEPT !.managed = TRUE] /\ pc = "manage" /\ pc' = "create"
        /\ op' = op /\ id' = id /\ object' = object
    BY <1>1 DEF MarkManaged, copies
  <2>2. /\ cr'.here = cr.here /\ cr'.managed = TRUE /\ cr'.deleting = cr.deleting
        /\ cr'.id = cr.id /\ cr.here = TRUE /\ cr.managed \in BOOLEAN /\ cr.deleting \in BOOLEAN
    BY <1>1, <2>1 DEF CRType
  <2>3. LifeInv(place)' /\ known' = known
    BY <2>1, <2>2 DEF LifeInv, exists, known
  <2>4. CASE cr.managed
    BY <2>2, <2>3, <2>4 DEF Mapped, LifeVars
  <2>5. CASE ~cr.managed
    <3>1. ~cr.deleting
      BY <2>2, <2>5 DEF LifeInv
    <3> QED
      BY <2>2, <2>3, <2>5, <3>1 DEF Mapped, L!Next, L!Claim
  <2> QED
    BY <2>3, <2>4, <2>5
<1>2. CASE MarkManaged /\ ~cr.here
  <2>1. Refused(cond)
    BY <1>2 DEF MarkManaged, Refused
  <2> QED
    BY <2>1, FinishLife
<1>3. CASE MarkUnmanaged
  <2>1. /\ cr' = [cr EXCEPT !.managed = FALSE, !.here = FALSE] /\ pc = "unmanage" /\ Idle
        /\ object' = object
    BY <1>3 DEF MarkUnmanaged
  <2>2. pc' = "idle" /\ id' = TRUE
    BY <2>1, ReconcilerAssumption DEF Idle
  <2>3. /\ cr'.here = FALSE /\ cr'.managed = FALSE /\ cr'.deleting = cr.deleting
        /\ cr'.id = cr.id
    BY <2>1 DEF CRType
  <2>4. ~exists /\ ~exists' /\ cr.here /\ cr.deleting /\ cr.managed
    BY <2>1 DEF LifeInv, exists
  <2>5. LifeInv(place)'
    BY <2>2, <2>3, <2>4 DEF LifeInv
  <2>6. ~known /\ known' = known
    BY <2>3, <2>4 DEF known, LifeInv
  <2> QED
    BY <2>3, <2>4, <2>5, <2>6 DEF Mapped, L!Next, L!Release
<1> QED
  BY <1>1, <1>2, <1>3

LEMMA UserLife ==
  ASSUME NEW Content, NEW place, LifeInv(place), cr \in CRType(Content), NEW Specs,
         EditSpec(Specs) \/ DeleteCR
  PROVE  LifeInv(place)' /\ Mapped
<1>1. cr.here /\ ~cr.deleting /\ pc' = pc /\ op' = op /\ id' = id /\ object' = object
  BY DEF EditSpec, DeleteCR, copies
<1>2. CASE EditSpec(Specs)
  <2>1. /\ cr'.here = cr.here /\ cr'.managed = cr.managed /\ cr'.deleting = cr.deleting
        /\ cr'.id = cr.id
    BY <1>2 DEF EditSpec, CRType
  <2> QED
    BY <1>1, <2>1 DEF LifeInv, Mapped, LifeVars, known, exists
<1>3. CASE DeleteCR
  <2>1. cr' = [cr EXCEPT !.deleting = cr.managed, !.here = cr.managed]
    BY <1>3 DEF DeleteCR
  <2>2. /\ cr'.here = cr.managed /\ cr'.managed = cr.managed /\ cr'.deleting = cr.managed
        /\ cr'.id = cr.id
    BY <2>1 DEF CRType
  <2>3. LifeInv(place)' /\ known' = known
    BY <1>1, <2>2 DEF LifeInv, known, exists
  <2> QED
    BY <1>1, <2>2, <2>3 DEF Mapped, L!Next, L!AskDelete
<1> QED
  BY <1>2, <1>3
=============================================================================
