-------------------------- MODULE ConcurrencyProofs --------------------------
(***************************************************************************)
(* Proofs about what concurrent reconciles have in common.  First the      *)
(* references between CRs (References), for any number of CRs, specs and   *)
(* misfortunes; then the cache of resource managers that all of them use   *)
(* (ManagerFactory), for any number of workers and ids.                    *)
(***************************************************************************)
EXTENDS References, ManagerFactory, FiniteSetTheorems, TLAPS

USE DEF CRs, Misfortunes

-----------------------------------------------------------------------------
(* Types.  The ids that a copy holds are those given and those that the    *)
(* references resolved so far stand for; hence the types of what is        *)
(* attached, and that nothing is ever patched into a spec.                 *)

CopyInv(c) ==
    /\ copy[c].refs \subseteq Referable(c) /\ copy[c].given \subseteq Referable(c)
    /\ copy[c].given \subseteq copy[c].ids
    /\ copy[c].ids \subseteq copy[c].refs \cup copy[c].given
    /\ copy[c].refs \ copy[c].left \subseteq copy[c].ids

Typed == TypeOK /\ \A c \in CRs : CopyInv(c)

CRType(c) == [here : BOOLEAN, deleting : BOOLEAN, managed : BOOLEAN, spec : Spec_(c)]

CondType == [synced : BOOLEAN, terminal : BOOLEAN, recoverable : BOOLEAN]

CopyType == [refs : SUBSET CRs, given : SUBSET CRs, ids : SUBSET CRs, left : SUBSET CRs,
             bad : BOOLEAN]

\* CRs refer to CRs.
LEMMA ReferableCRs == \A c \in CRs : Referable(c) \subseteq CRs
  BY DEF Referable

\* A reconcile that is over has no copy.
LEMMA NoCopyTyped == NoCopy \in CopyType /\ NoConditions \in CondType
  BY DEF NoCopy, CopyType, NoConditions, CondType

LEMMA InitTyped == Init => Typed
<1> SUFFICES ASSUME Init PROVE Typed
  OBVIOUS
<1> USE ReferencesAssumption DEF Init
<1>1. ASSUME NEW c \in CRs PROVE cr[c] \in CRType(c)
  <2>1. (CHOOSE s \in Specs[c] : TRUE) \in Spec_(c)
    OBVIOUS
  <2> QED
    BY <2>1 DEF Blank, CRType
<1>2. TypeOK
  BY <1>1, NoCopyTyped DEF TypeOK, CRType, CopyType, CondType, Places, NoCopy
<1>3. ASSUME NEW c \in CRs PROVE CopyInv(c)
  BY DEF CopyInv, NoCopy
<1> QED
  BY <1>2, <1>3 DEF Typed

\* A step of the reconcile of c changes what is of c only.
Only(c) ==
    /\ DOMAIN cr' = CRs /\ \A d \in CRs : d # c => cr'[d] = cr[d]
    /\ cond' = [cond EXCEPT ![c] = cond'[c]]
    /\ uses' = [uses EXCEPT ![c] = uses'[c]]
    /\ pc' = [pc EXCEPT ![c] = pc'[c]]
    /\ op' = [op EXCEPT ![c] = op'[c]]
    /\ copy' = [copy EXCEPT ![c] = copy'[c]]
    /\ latest' = [latest EXCEPT ![c] = latest'[c]]
    /\ \A d \in CRs : d # c => ((d \in exists') = (d \in exists))
    /\ \A d \in CRs : d # c => ((d \in queued') = (d \in queued))
    /\ UNCHANGED creations

LEMMA SelfExcept ==
  ASSUME Typed, NEW c \in CRs
  PROVE  /\ cond = [cond EXCEPT ![c] = cond[c]] /\ uses = [uses EXCEPT ![c] = uses[c]]
         /\ pc = [pc EXCEPT ![c] = pc[c]] /\ op = [op EXCEPT ![c] = op[c]]
         /\ copy = [copy EXCEPT ![c] = copy[c]] /\ latest = [latest EXCEPT ![c] = latest[c]]
  BY DEF Typed, TypeOK

\* The end of a reconcile.
LEMMA IdleOnly ==
  ASSUME Typed, NEW c \in CRs, Idle(c)
  PROVE  /\ pc' = [pc EXCEPT ![c] = pc'[c]] /\ op' = [op EXCEPT ![c] = op'[c]]
         /\ copy' = [copy EXCEPT ![c] = copy'[c]] /\ latest' = [latest EXCEPT ![c] = latest'[c]]
         /\ pc'[c] = "idle" /\ op'[c] = "sync" /\ copy'[c] = NoCopy /\ latest'[c] = {}
  BY DEF Typed, TypeOK, Idle

LEMMA FinishOnly ==
  ASSUME Typed, NEW c \in CRs, NEW o, Finish(c, o)
  PROVE  /\ cond' = [cond EXCEPT ![c] = cond'[c]] /\ cond'[c] \in CondType
         /\ cond'[c].synced = (o = "Synced")
         /\ queued' \subseteq CRs
         /\ \A d \in CRs : d # c => ((d \in queued') = (d \in queued))
         /\ Idle(c)
<1> USE DEF Typed, TypeOK, Finish
<1>1. queued' \subseteq CRs /\ \A d \in CRs : d # c => ((d \in queued') = (d \in queued))
  OBVIOUS
<1> DEFINE k == updateConditions(cond[c], o)
<1>2. [k EXCEPT !.synced = o = "Synced"] \in CondType
  <2>1. cond[c] \in CondType /\ (o = "Recoverable") \in BOOLEAN /\ (o = "Synced") \in BOOLEAN
    BY DEF CondType
  <2>2. k \in CondType
    BY <2>1 DEF updateConditions, CondType
  <2> QED
    BY <2>1, <2>2 DEF CondType
<1>3. cond'[c] = [k EXCEPT !.synced = o = "Synced"]
  OBVIOUS
<1>4. cond'[c].synced = (o = "Synced")
  <2>1. DOMAIN k = {"synced", "terminal", "recoverable"}
    BY DEF updateConditions, CondType
  <2> QED
    BY <1>3, <2>1
<1>5. cond' = [cond EXCEPT ![c] = cond'[c]]
  BY <1>3
<1> QED
  BY <1>1, <1>2, <1>3, <1>4, <1>5

\* What is patched into a spec is what it says already.
LEMMA PatchKeeps ==
  ASSUME Typed, NEW c \in CRs, NEW o, PatchCR(c, o)
  PROVE  DOMAIN cr' = CRs /\ \A d \in CRs : cr'[d] = cr[d]
<1>1. ClearResolvedReferences(copy[c]) \ copy[c].given = {}
  BY DEF Typed, CopyInv, ClearResolvedReferences
<1>2. cr' = [cr EXCEPT ![c].spec.ids = @ \cup {}]
  BY <1>1 DEF PatchCR
<1>3. cr[c] = [cr[c] EXCEPT !.spec = [cr[c].spec EXCEPT !.ids = @ \cup {}]]
  BY DEF Typed, TypeOK, Spec_
<1> QED
  BY <1>2, <1>3 DEF Typed, TypeOK

\* Typed holds after a step of the reconcile of c if what is of c is typed.
LEMMA StepTyped ==
  ASSUME Typed, NEW c \in CRs, Only(c),
         cr'[c] \in CRType(c), cond'[c] \in CondType,
         queued' \subseteq CRs, exists' \subseteq CRs,
         uses'[c] \subseteq Referable(c), uses'[c] # {} => c \in exists',
         pc'[c] \in Places, op'[c] \in {"sync", "delete"},
         copy'[c] \in CopyType,
         copy'[c].left \subseteq copy'[c].refs,
         pc'[c] = "idle" => copy'[c] = NoCopy,
         pc'[c] \in {"read", "create", "update"} /\ op'[c] = "sync" => copy'[c].left = {},
         latest'[c] \subseteq Referable(c),
         budget' \in [Misfortunes -> Nat],
         CopyInv(c)'
  PROVE  Typed'
<1> USE DEF Typed, TypeOK, CRType, CondType, CopyType, Only
<1>1. ASSUME NEW d \in CRs PROVE cr'[d] \in CRType(d)
  BY <1>1
<1>2. cond' \in [CRs -> CondType] /\ pc' \in [CRs -> Places] /\ op' \in [CRs -> {"sync", "delete"}]
  OBVIOUS
<1>3. /\ uses' \in [CRs -> SUBSET CRs] /\ latest' \in [CRs -> SUBSET CRs]
      /\ \A d \in CRs : uses'[d] \subseteq Referable(d) /\ latest'[d] \subseteq Referable(d)
  BY ReferableCRs
<1>4. ASSUME NEW d \in CRs PROVE uses'[d] # {} => d \in exists'
  OBVIOUS
<1>5. copy' \in [CRs -> CopyType] /\ \A d \in CRs : copy'[d].left \subseteq copy'[d].refs
  OBVIOUS
<1>6. ASSUME NEW d \in CRs
      PROVE  /\ pc'[d] = "idle" => copy'[d] = NoCopy
             /\ pc'[d] \in {"read", "create", "update"} /\ op'[d] = "sync" => copy'[d].left = {}
  OBVIOUS
<1>7. ASSUME NEW d \in CRs PROVE CopyInv(d)'
  BY DEF CopyInv
<1> QED
  BY <1>1, <1>2, <1>3, <1>4, <1>5, <1>6, <1>7

\* A reconcile that is over, after a call that has changed c and its object at most.
LEMMA OverTyped ==
  ASSUME Typed, NEW c \in CRs, Idle(c),
         DOMAIN cr' = CRs, \A d \in CRs : d # c => cr'[d] = cr[d], cr'[c] \in CRType(c),
         cond' = [cond EXCEPT ![c] = cond'[c]], cond'[c] \in CondType,
         queued' \subseteq CRs, \A d \in CRs : d # c => ((d \in queued') = (d \in queued)),
         exists' \subseteq CRs, \A d \in CRs : d # c => ((d \in exists') = (d \in exists)),
         uses' = uses, uses[c] # {} => c \in exists',
         creations' = creations, budget' \in [Misfortunes -> Nat]
  PROVE  Only(c) /\ Typed'
<1>1. /\ pc' = [pc EXCEPT ![c] = pc'[c]] /\ op' = [op EXCEPT ![c] = op'[c]]
      /\ copy' = [copy EXCEPT ![c] = copy'[c]] /\ latest' = [latest EXCEPT ![c] = latest'[c]]
      /\ pc'[c] = "idle" /\ op'[c] = "sync" /\ copy'[c] = NoCopy /\ latest'[c] = {}
  BY IdleOnly
<1>2. uses' = [uses EXCEPT ![c] = uses'[c]]
  BY SelfExcept
<1>3. Only(c)
  BY <1>1, <1>2 DEF Only
<1>4. CopyInv(c)'
  BY <1>1 DEF CopyInv, NoCopy
<1>5. copy'[c] \in CopyType /\ copy'[c].left \subseteq copy'[c].refs
  BY <1>1, NoCopyTyped DEF NoCopy
<1>6. uses'[c] \subseteq Referable(c)
  BY DEF Typed, TypeOK
<1> QED
  BY <1>1, <1>3, <1>4, <1>5, <1>6, StepTyped DEF Places

\* A call that is refused, or fails, and references that are not resolved.
LEMMA RefusedTyped ==
  ASSUME Typed, NEW c \in CRs,
         (\E o \in {"Terminal", "Recoverable"} : Refused(c, o)) \/ CallFails(c) \/ Unresolved(c)
  PROVE  Only(c) /\ Typed'
<1>1. budget' \in [Misfortunes -> Nat]
  BY DEF Typed, TypeOK, Refused, CallFails, Unresolved, Spend
<1>2. ASSUME NEW o, Finish(c, o), UNCHANGED <<cr, exists, uses, creations>>
      PROVE  Only(c) /\ Typed'
  <2>1. cr'[c] \in CRType(c) /\ DOMAIN cr' = CRs /\ exists' \subseteq CRs
        /\ (uses[c] # {} => c \in exists')
    BY <1>2 DEF Typed, TypeOK, CRType
  <2>2. /\ cond' = [cond EXCEPT ![c] = cond'[c]] /\ cond'[c] \in CondType
        /\ queued' \subseteq CRs
        /\ \A d \in CRs : d # c => ((d \in queued') = (d \in queued))
        /\ Idle(c)
    BY <1>2, FinishOnly
  <2> QED
    BY <1>1, <1>2, <2>1, <2>2, OverTyped
<1>3. ASSUME Unresolved(c) PROVE Only(c) /\ Typed'
  <2>1. cond' = [cond EXCEPT ![c] = cond'[c]] /\ cond'[c] \in CondType
    <3>1. cond' = [cond EXCEPT ![c] = [cond[c] EXCEPT !.synced = FALSE]]
      BY <1>3 DEF Unresolved
    <3>3. cond[c] \in CondType
      BY DEF Typed, TypeOK, CondType
    <3>2. [cond[c] EXCEPT !.synced = FALSE] \in CondType
      BY <3>3 DEF CondType
    <3> QED
      BY <3>1, <3>2 DEF Typed, TypeOK
  <2>2. cr'[c] \in CRType(c) /\ DOMAIN cr' = CRs /\ exists' \subseteq CRs
        /\ (uses[c] # {} => c \in exists') /\ queued' \subseteq CRs
    BY <1>3 DEF Unresolved, Typed, TypeOK, CRType
  <2>3. /\ Idle(c) /\ uses' = uses /\ creations' = creations
        /\ \A d \in CRs : d # c => cr'[d] = cr[d]
        /\ \A d \in CRs : d # c => ((d \in queued') = (d \in queued))
        /\ \A d \in CRs : d # c => ((d \in exists') = (d \in exists))
    BY <1>3 DEF Unresolved
  <2> QED
    BY <1>1, <2>1, <2>2, <2>3, OverTyped
<1> QED
  BY <1>2, <1>3 DEF Refused, CallFails

\* The end of a call after which the spec is patched.
LEMMA PatchTyped ==
  ASSUME Typed, NEW c \in CRs, NEW o, PatchCR(c, o),
         exists' = exists \/ exists' = exists \cup {c}, UNCHANGED <<uses, creations, budget>>
  PROVE  Only(c) /\ Typed'
<1>1. DOMAIN cr' = CRs /\ \A d \in CRs : cr'[d] = cr[d]
  BY PatchKeeps
<1>2. cr'[c] \in CRType(c)
  BY <1>1 DEF Typed, TypeOK, CRType
<1>3. Finish(c, o)
  BY DEF PatchCR
<1>4. exists' \subseteq CRs /\ (uses[c] # {} => c \in exists') /\ budget' \in [Misfortunes -> Nat]
  BY DEF Typed, TypeOK
<1> QED
  BY <1>1, <1>2, <1>3, <1>4, FinishOnly, OverTyped

\* The end of the life of a CR.
LEMMA UnmanageTyped ==
  ASSUME Typed, NEW c \in CRs, MarkUnmanaged(c),
         exists' \in {exists, exists \ {c}}, uses[c] # {} => exists' = exists,
         UNCHANGED <<cond, queued, uses, creations, budget>>
  PROVE  Only(c) /\ Typed'
<1>1. cr' = [cr EXCEPT ![c] = Blank(cr[c].spec)] /\ Idle(c)
  BY DEF MarkUnmanaged
<1>2. cr'[c] \in CRType(c) /\ DOMAIN cr' = CRs /\ \A d \in CRs : d # c => cr'[d] = cr[d]
  BY <1>1 DEF Typed, TypeOK, CRType, Blank
<1>3. exists' \subseteq CRs /\ (uses[c] # {} => c \in exists') /\ budget' \in [Misfortunes -> Nat]
      /\ queued' \subseteq CRs
  BY DEF Typed, TypeOK
<1>4. cond' = [cond EXCEPT ![c] = cond'[c]] /\ cond'[c] \in CondType
  BY SelfExcept DEF Typed, TypeOK, CondType
<1> QED
  BY <1>1, <1>2, <1>3, <1>4, OverTyped

\* A step within a reconcile that leaves c, its conditions and the queue alone.
LEMMA WithinTyped ==
  ASSUME Typed, NEW c \in CRs,
         DOMAIN cr' = CRs, \A d \in CRs : d # c => cr'[d] = cr[d], cr'[c] \in CRType(c),
         UNCHANGED <<cond, exists, creations, budget>>,
         queued' \subseteq CRs, \A d \in CRs : d # c => ((d \in queued') = (d \in queued)),
         uses' = [uses EXCEPT ![c] = uses'[c]], uses'[c] \subseteq Referable(c),
         uses'[c] # {} => c \in exists,
         pc' = [pc EXCEPT ![c] = pc'[c]], pc'[c] \in Places \ {"idle"},
         op' = [op EXCEPT ![c] = op'[c]], op'[c] \in {"sync", "delete"},
         copy' = [copy EXCEPT ![c] = copy'[c]], copy'[c] \in CopyType,
         copy'[c].left \subseteq copy'[c].refs,
         pc'[c] \in {"read", "create", "update"} /\ op'[c] = "sync" => copy'[c].left = {},
         latest' = [latest EXCEPT ![c] = latest'[c]], latest'[c] \subseteq Referable(c),
         CopyInv(c)'
  PROVE  Only(c) /\ Typed'
<1>1. cond' = [cond EXCEPT ![c] = cond'[c]] /\ cond'[c] \in CondType
  BY SelfExcept DEF Typed, TypeOK, CondType
<1>2. Only(c)
  BY <1>1 DEF Only
<1>3. exists' \subseteq CRs /\ budget' \in [Misfortunes -> Nat] /\ (uses'[c] # {} => c \in exists')
  BY DEF Typed, TypeOK
<1> QED
  BY <1>1, <1>2, <1>3, StepTyped

\* What holds of c when nothing is changed for it.
LEMMA Own ==
  ASSUME Typed, NEW c \in CRs
  PROVE  /\ DOMAIN cr = CRs /\ cr[c] \in CRType(c) /\ cr[c].spec \in Spec_(c)
         /\ queued \subseteq CRs /\ pc[c] \in Places /\ op[c] \in {"sync", "delete"}
         /\ uses[c] \subseteq Referable(c) /\ (uses[c] # {} => c \in exists)
         /\ latest[c] \subseteq Referable(c)
         /\ copy[c] \in CopyType /\ copy[c].left \subseteq copy[c].refs
         /\ CopyInv(c)
         /\ pc[c] \in {"read", "create", "update"} /\ op[c] = "sync" => copy[c].left = {}
  BY DEF Typed, TypeOK, CRType, CopyType, Places

LEMMA ReconcileTyped ==
  ASSUME Typed, NEW c \in CRs, Reconcile(c) PROVE Only(c) /\ Typed'
<1>1. /\ DOMAIN cr' = CRs /\ cr'[c] \in CRType(c) /\ queued' \subseteq CRs
      /\ \A d \in CRs : d # c => ((d \in queued') = (d \in queued))
      /\ UNCHANGED <<cr, cond, exists, uses, latest, creations, budget>>
      /\ uses = [uses EXCEPT ![c] = uses[c]] /\ latest = [latest EXCEPT ![c] = latest[c]]
  <2>1. queued' = queued \ {c} /\ UNCHANGED <<cr, cond, exists, uses, latest, creations, budget>>
    BY Zenon DEF Reconcile
  <2>2. DOMAIN cr' = CRs /\ cr'[c] \in CRType(c)
    BY <2>1, Own
  <2>3. queued' \subseteq CRs /\ \A d \in CRs : d # c => ((d \in queued') = (d \in queued))
    BY <2>1, Own
  <2> QED
    BY <2>1, <2>2, <2>3, SelfExcept
<1>2. CASE cr[c].here
  <2> DEFINE s == cr[c].spec
             k == [refs |-> s.refs, given |-> s.ids, ids |-> s.ids, left |-> s.refs,
                   bad |-> s.bad]
             o == IF cr[c].deleting THEN "delete" ELSE "sync"
             q == IF cr[c].deleting \/ s.refs = {} THEN "read" ELSE "resolve"
  <2>1. /\ op' = [op EXCEPT ![c] = o] /\ pc' = [pc EXCEPT ![c] = q]
        /\ copy' = [copy EXCEPT ![c] = k]
    BY <1>2 DEF Reconcile, Goto
  <2>2. copy'[c] = k /\ op'[c] = o /\ pc'[c] = q
    BY <2>1 DEF Typed, TypeOK
  <2>3. k \in CopyType /\ s.refs \subseteq Referable(c) /\ s.ids \subseteq Referable(c)
    BY Own, ReferableCRs DEF CopyType, Spec_
  <2>4. CopyInv(c)'
    BY <2>2, <2>3 DEF CopyInv
  <2>5. q \in Places \ {"idle"} /\ o \in {"sync", "delete"}
        /\ (q \in {"read", "create", "update"} /\ o = "sync" => k.left = {})
    BY DEF Places
  <2> HIDE DEF k, o, q
  <2>6. k.left \subseteq k.refs
    BY DEF k
  <2> QED
    BY <1>1, <2>1, <2>2, <2>3, <2>4, <2>5, <2>6, WithinTyped, Own
<1>3. CASE ~cr[c].here
  <2>1. UNCHANGED <<pc, op, copy>>
    BY <1>3 DEF Reconcile
  <2>2. Only(c)
    BY <1>1, <2>1, SelfExcept DEF Only
  <2>3. TypeOK'
    BY <1>1, <2>1 DEF Typed, TypeOK
  <2>4. \A d \in CRs : CopyInv(d)'
    BY <2>1 DEF Typed, CopyInv
  <2> QED
    BY <2>2, <2>3, <2>4 DEF Typed
<1> QED
  BY <1>2, <1>3

LEMMA ResolveReferenceTyped ==
  ASSUME Typed, NEW c \in CRs, ResolveReference(c) PROVE Only(c) /\ Typed'
<1>1. CASE Unresolved(c)
  BY <1>1, RefusedTyped
<1>2. ASSUME NEW d \in copy[c].left, pc[c] = "resolve",
             copy' = [copy EXCEPT ![c].left = @ \ {d}, ![c].ids = @ \cup {d}],
             UNCHANGED <<cr, cond, queued, exists, uses, pc, op, latest, creations, budget>>
      PROVE  Only(c) /\ Typed'
  <2> DEFINE k == [copy[c] EXCEPT !.left = @ \ {d}, !.ids = @ \cup {d}]
  <2>1. copy' = [copy EXCEPT ![c] = k] /\ copy'[c] = k
    BY <1>2 DEF Typed, TypeOK
  <2>2. d \in copy[c].refs /\ d \in CRs
    BY <1>2, Own, ReferableCRs DEF CopyInv
  <2>3. k \in CopyType
    BY <2>2, Own DEF CopyType
  <2>4. k.left = copy[c].left \ {d} /\ k.ids = copy[c].ids \cup {d}
        /\ k.refs = copy[c].refs /\ k.given = copy[c].given
    BY Own DEF CopyType
  <2> HIDE DEF k
  <2>5. CopyInv(c)' /\ k.left \subseteq k.refs
    BY <2>1, <2>2, <2>4, Own DEF CopyInv
  <2> QED
    BY <1>2, <2>1, <2>3, <2>5, WithinTyped, Own, SelfExcept DEF Places
<1> QED
  BY <1>1, <1>2 DEF ResolveReference

LEMMA ResolveReferencesTyped ==
  ASSUME Typed, NEW c \in CRs, ResolveReferences(c) PROVE Only(c) /\ Typed'
<1>1. CASE Unresolved(c)
  BY <1>1, RefusedTyped
<1>2. ASSUME copy[c].left = {}, Goto(c, "read"),
             UNCHANGED <<cr, cond, queued, exists, uses, op, copy, latest, creations, budget>>
      PROVE  Only(c) /\ Typed'
  <2>1. pc' = [pc EXCEPT ![c] = "read"] /\ pc'[c] = "read"
    BY <1>2 DEF Goto, Typed, TypeOK
  <2>2. CopyInv(c)'
    BY <1>2, Own DEF CopyInv
  <2> QED
    BY <1>2, <2>1, <2>2, WithinTyped, Own, SelfExcept DEF Places
<1> QED
  BY <1>1, <1>2 DEF ResolveReferences

LEMMA ReadOneTyped ==
  ASSUME Typed, NEW c \in CRs, ReadOne(c) PROVE Only(c) /\ Typed'
<1>1. ASSUME pc[c] = "read", c \in exists, latest' = [latest EXCEPT ![c] = uses[c]],
             Goto(c, "update"),
             UNCHANGED <<cr, cond, queued, exists, uses, op, copy, creations, budget>>
      PROVE  Only(c) /\ Typed'
  <2>1. pc' = [pc EXCEPT ![c] = "update"] /\ pc'[c] = "update" /\ latest'[c] = uses[c]
    BY <1>1 DEF Goto, Typed, TypeOK
  <2>2. CopyInv(c)'
    BY <1>1, Own DEF CopyInv
  <2> QED
    BY <1>1, <2>1, <2>2, WithinTyped, Own, SelfExcept DEF Places
<1>2. ASSUME pc[c] = "read", op[c] = "sync",
             cr[c].here, cr' = [cr EXCEPT ![c].managed = TRUE], Goto(c, "create"),
             UNCHANGED <<op, copy, latest, cond, queued, exists, uses, creations, budget>>
      PROVE  Only(c) /\ Typed'
  <2>1. pc' = [pc EXCEPT ![c] = "create"] /\ pc'[c] = "create"
    BY <1>2 DEF Goto, Typed, TypeOK
  <2>2. cr' = [cr EXCEPT ![c] = [cr[c] EXCEPT !.managed = TRUE]]
    BY <1>2
  <2>3. [cr[c] EXCEPT !.managed = TRUE] \in CRType(c)
    BY Own DEF CRType
  <2>4. DOMAIN cr' = CRs /\ cr'[c] \in CRType(c) /\ \A d \in CRs : d # c => cr'[d] = cr[d]
    BY <2>2, <2>3, Own
  <2>5. CopyInv(c)'
    BY <1>2, Own DEF CopyInv
  <2> QED
    BY <1>2, <2>1, <2>4, <2>5, WithinTyped, Own, SelfExcept DEF Places
<1>3. ASSUME Idle(c), UNCHANGED cr,
             UNCHANGED <<cond, queued, exists, uses, creations, budget>>
      PROVE  Only(c) /\ Typed'
  <2>1. cond' = [cond EXCEPT ![c] = cond'[c]] /\ cond'[c] \in CondType
        /\ exists' \subseteq CRs /\ budget' \in [Misfortunes -> Nat]
    BY <1>3, SelfExcept DEF Typed, TypeOK, CondType
  <2> QED
    BY <1>3, <2>1, OverTyped, Own
<1>4. CASE CallFails(c)
  BY <1>4, RefusedTyped
<1>5. ASSUME MarkUnmanaged(c), UNCHANGED <<cond, queued, exists, uses, creations, budget>>
      PROVE  Only(c) /\ Typed'
  <2>1. exists' \in {exists, exists \ {c}} /\ (uses[c] # {} => exists' = exists)
        /\ UNCHANGED <<cond, queued, uses, creations, budget>>
    BY <1>5
  <2> QED
    BY <1>5, <2>1, UnmanageTyped
<1>6. ASSUME pc[c] = "read", op[c] = "sync",
             IF cr[c].here
             THEN /\ cr' = [cr EXCEPT ![c].managed = TRUE]
                  /\ Goto(c, "create")
                  /\ UNCHANGED <<op, copy, latest>>
             ELSE UNCHANGED cr /\ Idle(c),
             UNCHANGED <<cond, queued, exists, uses, creations, budget>>
      PROVE  Only(c) /\ Typed'
  BY <1>2, <1>3, <1>6
<1> QED
  BY <1>1, <1>4, <1>5, <1>6, Zenon DEF ReadOne

LEMMA CreateTyped ==
  ASSUME Typed, NEW c \in CRs, Create(c) PROVE Only(c) /\ Typed'
  BY RefusedTyped, PatchTyped DEF Create

LEMMA UpdateTyped ==
  ASSUME Typed, NEW c \in CRs, Update(c) PROVE Only(c) /\ Typed'
<1>1. ASSUME pc[c] = "update", Goto(c, "delete"),
             UNCHANGED <<cr, cond, queued, exists, uses, op, copy, latest, creations, budget>>
      PROVE  Only(c) /\ Typed'
  <2>1. pc' = [pc EXCEPT ![c] = "delete"] /\ pc'[c] = "delete"
    BY <1>1 DEF Goto, Typed, TypeOK
  <2>2. CopyInv(c)'
    BY <1>1, Own DEF CopyInv
  <2> QED
    BY <1>1, <2>1, <2>2, WithinTyped, Own, SelfExcept DEF Places
<1> QED
  BY <1>1, RefusedTyped, PatchTyped DEF Update

LEMMA DeleteTyped ==
  ASSUME Typed, NEW c \in CRs, Delete(c) PROVE Only(c) /\ Typed'
<1>1. ASSUME uses[c] = {}, exists' = exists \ {c}, MarkUnmanaged(c),
             UNCHANGED <<cond, queued, uses, creations, budget>>
      PROVE  Only(c) /\ Typed'
  <2>1. exists' \in {exists, exists \ {c}} /\ (uses[c] # {} => exists' = exists)
    BY <1>1
  <2> QED
    BY <1>1, <2>1, UnmanageTyped
<1> QED
  BY <1>1, RefusedTyped DEF Delete

\* What an object uses, and the copy of it, become U and L.
LEMMA UsesTyped ==
  ASSUME Typed, NEW c \in CRs, NEW U, NEW M, pc[c] = "update",
         uses' = [uses EXCEPT ![c] = U], latest' = [latest EXCEPT ![c] = M],
         U \subseteq Referable(c), M \subseteq Referable(c), U # {} => c \in exists,
         UNCHANGED <<cr, cond, queued, exists, pc, op, copy, creations, budget>>
  PROVE  Only(c) /\ Typed'
<1>1. uses'[c] = U /\ latest'[c] = M
  BY DEF Typed, TypeOK
<1>2. CopyInv(c)'
  BY Own DEF CopyInv
<1> QED
  BY <1>1, <1>2, WithinTyped, Own, SelfExcept DEF Places

LEMMA AttachTyped ==
  ASSUME Typed, NEW c \in CRs, Attach(c) PROVE Only(c) /\ Typed'
<1>1. ASSUME NEW d \in ToAttach(c), pc[c] = "update", {c, d} \subseteq exists,
             uses' = [uses EXCEPT ![c] = @ \cup {d}],
             latest' = [latest EXCEPT ![c] = @ \cup {d}],
             UNCHANGED <<cr, cond, queued, exists, pc, op, copy, creations, budget>>
      PROVE  Only(c) /\ Typed'
  <2>1. d \in Referable(c)
    BY Own DEF ToAttach, Desired, CopyInv
  <2>2. /\ uses[c] \cup {d} \subseteq Referable(c) /\ latest[c] \cup {d} \subseteq Referable(c)
        /\ uses[c] \cup {d} # {} => c \in exists
    BY <1>1, <2>1, Own
  <2> QED
    BY <1>1, <2>2, UsesTyped
<1> QED
  BY <1>1, RefusedTyped DEF Attach

LEMMA DetachTyped ==
  ASSUME Typed, NEW c \in CRs, Detach(c) PROVE Only(c) /\ Typed'
<1>1. ASSUME NEW d \in ToDetach(c), pc[c] = "update",
             uses' = [uses EXCEPT ![c] = @ \ {d}],
             latest' = [latest EXCEPT ![c] = @ \ {d}],
             UNCHANGED <<cr, cond, queued, exists, pc, op, copy, creations, budget>>
      PROVE  Only(c) /\ Typed'
  <2>1. /\ uses[c] \ {d} \subseteq Referable(c) /\ latest[c] \ {d} \subseteq Referable(c)
        /\ uses[c] \ {d} # {} => c \in exists
    BY Own
  <2> QED
    BY <1>1, <2>1, UsesTyped
<1> QED
  BY <1>1, RefusedTyped DEF Detach

\* A step of the reconcile of c.
LEMMA ControllerTyped ==
  ASSUME Typed, NEW c \in CRs, Controller(c) PROVE Only(c) /\ Typed'
  BY ReconcileTyped, ResolveReferenceTyped, ResolveReferencesTyped, ReadOneTyped, CreateTyped,
     AttachTyped, DetachTyped, UpdateTyped, DeleteTyped DEF Controller

\* What users do to a CR, and a crash.
LEMMA EnvironmentTyped ==
  ASSUME Typed,
         (\E c \in CRs : Resync(c) \/ CreateCR(c) \/ EditSpec(c) \/ DeleteCR(c)) \/ Crash
  PROVE  Typed'
<1> USE DEF Typed
<1>1. ASSUME UNCHANGED copy PROVE \A d \in CRs : CopyInv(d)'
  BY <1>1 DEF CopyInv
<1>2. ASSUME NEW c \in CRs, Resync(c) PROVE Typed'
  BY <1>1, <1>2 DEF Resync, TypeOK
<1>3. ASSUME NEW c \in CRs, CreateCR(c) PROVE Typed'
  <2>1. PICK s \in Specs[c] : cr' = [cr EXCEPT ![c] = [Blank(s) EXCEPT !.here = TRUE]]
    BY <1>3 DEF CreateCR
  <2>2. [Blank(s) EXCEPT !.here = TRUE] \in CRType(c)
    BY ReferencesAssumption DEF Blank, CRType
  <2>3. cond' \in [CRs -> CondType]
    BY <1>3, NoCopyTyped DEF CreateCR, TypeOK, CondType
  <2>4. creations' \in [CRs -> Nat]
    BY <1>3 DEF CreateCR, TypeOK
  <2>5. DOMAIN cr' = CRs /\ \A d \in CRs : cr'[d] \in CRType(d)
    BY <2>1, <2>2 DEF TypeOK, CRType
  <2> QED
    BY <1>1, <1>3, <2>3, <2>4, <2>5 DEF CreateCR, TypeOK, CondType, CRType
<1>4. ASSUME NEW c \in CRs, EditSpec(c) PROVE Typed'
  <2>1. PICK s \in Specs[c] : cr' = [cr EXCEPT ![c].spec = s]
    BY <1>4 DEF EditSpec
  <2>2. s \in Spec_(c) /\ cr[c] \in CRType(c)
    BY ReferencesAssumption, Own
  <2>3. [cr[c] EXCEPT !.spec = s] \in CRType(c)
    BY <2>2 DEF CRType
  <2>4. DOMAIN cr' = CRs /\ \A d \in CRs : cr'[d] \in CRType(d)
    BY <2>1, <2>3 DEF TypeOK, CRType
  <2>5. budget' \in [Misfortunes -> Nat]
    BY <1>4 DEF EditSpec, Spend, TypeOK
  <2> QED
    BY <1>1, <1>4, <2>4, <2>5 DEF EditSpec, TypeOK, CRType
<1>5. ASSUME NEW c \in CRs, DeleteCR(c) PROVE Typed'
  <2>1. cr[c] \in CRType(c)
    BY Own
  <2>2. [cr[c] EXCEPT !.deleting = TRUE] \in CRType(c) /\ Blank(cr[c].spec) \in CRType(c)
    BY <2>1 DEF CRType, Blank
  <2>3. DOMAIN cr' = CRs /\ \A d \in CRs : cr'[d] \in CRType(d)
    BY <1>5, <2>2 DEF DeleteCR, TypeOK, CRType
  <2> QED
    BY <1>1, <1>5, <2>3 DEF DeleteCR, TypeOK, CRType
<1>6. ASSUME Crash PROVE Typed'
  <2>1. \A d \in CRs : CopyInv(d)'
    BY <1>6 DEF Crash, CopyInv, NoCopy
  <2>2. budget' \in [Misfortunes -> Nat]
    BY <1>6 DEF Crash, Spend, TypeOK
  <2>3. /\ copy' \in [CRs -> CopyType] /\ latest' \in [CRs -> SUBSET CRs]
        /\ pc' \in [CRs -> Places] /\ op' \in [CRs -> {"sync", "delete"}]
        /\ \A d \in CRs : pc'[d] = "idle" /\ copy'[d] = NoCopy /\ latest'[d] = {}
        /\ queued' \subseteq CRs /\ UNCHANGED <<cr, cond, exists, uses, creations>>
    BY <1>6, NoCopyTyped DEF Crash, Places
  <2>4. NoCopy.left = {} /\ NoCopy.refs = {}
    BY DEF NoCopy
  <2>5. TypeOK'
    BY <2>2, <2>3, <2>4 DEF TypeOK, CopyType
  <2> QED
    BY <2>1, <2>5
<1> QED
  BY <1>2, <1>3, <1>4, <1>5, <1>6

LEMMA NextTyped == Typed /\ [Next]_vars => Typed'
<1>1. ASSUME Typed, UNCHANGED vars PROVE Typed'
  BY <1>1 DEF Typed, TypeOK, CopyInv, vars
<1> QED
  BY <1>1, ControllerTyped, EnvironmentTyped DEF Next

\* CRs and their reconciles keep their types whatever order they come, are edited and go in;
\* with it, that a CR is created or updated only with all its references resolved.
THEOREM TypeCorrect == Spec => []TypeOK
<1>1. Spec => []Typed
  BY InitTyped, NextTyped, PTL DEF Spec
<1> QED
  BY <1>1, PTL DEF Typed

-----------------------------------------------------------------------------
(* Specs and grants.                                                       *)

\* A step writes nothing into a spec but what the user does.
LEMMA NextSpecs == Typed /\ SpecsKept /\ [Next]_vars => SpecsKept'
<1> SUFFICES ASSUME Typed, SpecsKept, [Next]_vars, NEW d \in CRs PROVE cr'[d].spec \in Specs[d]
  BY DEF SpecsKept
<1> USE DEF SpecsKept
<1>1. CASE UNCHANGED vars \/ Crash
  BY <1>1 DEF vars, Crash
<1>2. ASSUME NEW c \in CRs, Controller(c) PROVE cr'[d].spec \in Specs[d]
  <2>1. CASE d # c
    BY <1>2, <2>1, ControllerTyped DEF Only
  <2>2. ASSUME UNCHANGED cr PROVE cr'[d].spec \in Specs[d]
    BY <2>2
  <2>3. ASSUME \E o \in {"Synced", "Unsynced"} : PatchCR(c, o) PROVE cr'[d].spec \in Specs[d]
    BY <2>3, PatchKeeps
  <2>4. ASSUME MarkUnmanaged(c) PROVE cr'[d].spec \in Specs[d]
    BY <2>4, Own DEF MarkUnmanaged, Blank
  <2>5. ASSUME cr' = [cr EXCEPT ![c].managed = TRUE] PROVE cr'[d].spec \in Specs[d]
    BY <2>5, Own DEF CRType
  <2>6. CASE Reconcile(c) \/ ResolveReference(c) \/ ResolveReferences(c) \/ Attach(c) \/ Detach(c)
    BY <2>2, <2>6 DEF Reconcile, ResolveReference, ResolveReferences, Attach, Detach, Refused,
                      CallFails, Unresolved
  <2>7. CASE ReadOne(c)
    BY <2>2, <2>4, <2>5, <2>7 DEF ReadOne, CallFails
  <2>8. CASE Create(c) \/ Update(c) \/ Delete(c)
    BY <2>2, <2>3, <2>4, <2>8 DEF Create, Update, Delete, Refused, CallFails
  <2> QED
    BY <1>2, <2>6, <2>7, <2>8 DEF Controller
<1>3. ASSUME NEW c \in CRs, Resync(c) \/ CreateCR(c) \/ EditSpec(c) \/ DeleteCR(c)
      PROVE  cr'[d].spec \in Specs[d]
  <2>1. DOMAIN cr = CRs /\ cr[c] \in CRType(c)
    BY Own
  <2>2. CASE Resync(c)
    BY <2>2 DEF Resync
  <2>3. CASE CreateCR(c)
    BY <2>1, <2>3 DEF CreateCR, Blank
  <2>4. CASE EditSpec(c)
    BY <2>1, <2>4 DEF EditSpec, CRType
  <2>5. CASE DeleteCR(c)
    BY <2>1, <2>5 DEF DeleteCR, CRType, Blank
  <2> QED
    BY <1>3, <2>2, <2>3, <2>4, <2>5
<1> QED
  BY <1>1, <1>2, <1>3 DEF Next

\* However references are resolved, a CR's spec stays one that its user has written.
THEOREM ResolvedIdsCleared == Spec => []SpecsKept
<1>1. Init => SpecsKept
  BY ReferencesAssumption DEF Init, SpecsKept, Blank
<1>2. Spec => []Typed
  BY InitTyped, NextTyped, PTL DEF Spec
<1> QED
  BY <1>1, <1>2, NextSpecs, PTL DEF Spec

\* What a step takes off an object.
GrantKept ==
    \A c \in CRs : \A d \in uses[c] \ uses'[c] :
        op[c] = "delete" \/ d \notin copy[c].refs \cup copy[c].given

\* Only Detach takes something off, and not what the copy refers to.
LEMMA NextGrants == Typed /\ [Next]_vars => GrantKept
<1> SUFFICES ASSUME Typed, [Next]_vars PROVE GrantKept
  OBVIOUS
<1>1. ASSUME UNCHANGED uses PROVE GrantKept
  BY <1>1 DEF GrantKept
<1>2. CASE UNCHANGED vars \/ Crash
  BY <1>1, <1>2 DEF vars, Crash
<1>3. ASSUME NEW c \in CRs, Resync(c) \/ CreateCR(c) \/ EditSpec(c) \/ DeleteCR(c)
      PROVE  GrantKept
  BY <1>1, <1>3 DEF Resync, CreateCR, EditSpec, DeleteCR
<1>4. ASSUME NEW c \in CRs, Attach(c) PROVE GrantKept
  <2>1. UNCHANGED uses \/ \E d \in CRs : uses' = [uses EXCEPT ![c] = @ \cup {d}]
    BY <1>4, Own, ReferableCRs DEF Attach, Refused, CallFails, ToAttach, Desired, CopyInv
  <2> QED
    BY <1>1, <2>1 DEF GrantKept, Typed, TypeOK
<1>5. ASSUME NEW c \in CRs, Detach(c) PROVE GrantKept
  <2>1. UNCHANGED uses \/ \E d \in ToDetach(c) : uses' = [uses EXCEPT ![c] = @ \ {d}]
    BY <1>5 DEF Detach, CallFails
  <2>2. CASE op[c] = "sync"
    <3>1. copy[c].left = {}
      BY <1>5, <2>2, Own DEF Detach
    <3>2. copy[c].refs \cup copy[c].given \subseteq Desired(c)
      BY <2>2, <3>1, Own DEF CopyInv, Desired
    <3> QED
      BY <1>1, <2>1, <3>2 DEF GrantKept, ToDetach, Typed, TypeOK
  <2>3. CASE op[c] = "delete"
    BY <1>1, <2>1, <2>3 DEF GrantKept, Typed, TypeOK
  <2> QED
    BY <2>2, <2>3, Own
<1>6. ASSUME NEW c \in CRs,
             Reconcile(c) \/ ResolveReference(c) \/ ResolveReferences(c)
                \/ ReadOne(c) \/ Create(c) \/ Update(c) \/ Delete(c)
      PROVE  GrantKept
  BY <1>1, <1>6 DEF Reconcile, ResolveReference, ResolveReferences, ReadOne, Create, Update,
                    Delete, Refused, CallFails, Unresolved
<1> QED
  BY <1>2, <1>3, <1>4, <1>5, <1>6 DEF Next, Controller

\* A reference that cannot be resolved never costs an object what it uses.
THEOREM UnresolvedDetachesNothing == Spec => GrantsKept
<1>1. Spec => []Typed
  BY InitTyped, NextTyped, PTL DEF Spec
<1>2. Typed /\ [Next]_vars => [GrantKept]_vars
  BY NextGrants
<1> QED
  BY <1>1, <1>2, PTL DEF Spec, GrantsKept, GrantKept

-----------------------------------------------------------------------------
(* Grounded.  It rests on where a reconcile is: an object that is being     *)
(* updated exists and is used as was read, since no other reconcile touches *)
(* it; a copy that is out of date has left its CR in the queue; and what an *)
(* object uses cannot go.                                                   *)

SyncedFor(c) ==
    cr[c].here /\ ~cr[c].deleting /\ cond[c].synced /\ pc[c] = "idle" /\ c \notin queued
    => c \in exists /\ uses[c] = Asked(cr[c].spec)

Grounds(c) ==
    /\ uses[c] \subseteq exists
    /\ cr[c].deleting => cr[c].here /\ cr[c].managed
    /\ pc[c] # "idle" /\ op[c] = "delete" => cr[c].deleting
    /\ pc[c] = "update" => c \in exists /\ latest[c] = uses[c]
    /\ pc[c] # "idle" /\ op[c] = "sync" /\ cr[c].here /\ c \notin queued
       => Asked(cr[c].spec) = copy[c].refs \cup copy[c].given
    /\ SyncedFor(c)

Solid == \A c \in CRs : Grounds(c)

LEMMA InitSolid == Init => Solid
  BY DEF Init, Solid, Grounds, SyncedFor, Blank

\* The step of another CR's reconcile, which takes nothing away that c uses.
LEMMA OtherGrounds ==
  ASSUME Typed, Typed', NEW c \in CRs, Only(c), NEW d \in CRs, d # c, Grounds(d),
         uses[d] \subseteq exists'
  PROVE  Grounds(d)'
<1>1. /\ cr'[d] = cr[d] /\ cond'[d] = cond[d] /\ uses'[d] = uses[d] /\ pc'[d] = pc[d]
      /\ op'[d] = op[d] /\ copy'[d] = copy[d] /\ latest'[d] = latest[d]
      /\ ((d \in exists') = (d \in exists)) /\ ((d \in queued') = (d \in queued))
  BY DEF Only, Typed, TypeOK
<1> QED
  BY <1>1 DEF Grounds, SyncedFor

\* A reconcile that ends and leaves c unsynced or gone.
LEMMA OverGrounds ==
  ASSUME Typed, NEW c \in CRs, Grounds(c), Idle(c),
         UNCHANGED <<exists, uses>>, ~cond'[c].synced \/ ~cr'[c].here,
         cr'[c].deleting => cr'[c].here /\ cr'[c].managed
  PROVE  Grounds(c)'
  BY IdleOnly DEF Grounds, SyncedFor

LEMMA RefusedGrounds ==
  ASSUME Typed, NEW c \in CRs, Grounds(c),
         (\E o \in {"Terminal", "Recoverable"} : Refused(c, o)) \/ CallFails(c) \/ Unresolved(c)
  PROVE  Grounds(c)' /\ UNCHANGED exists
<1>1. ASSUME NEW o \in {"Terminal", "Recoverable"}, Finish(c, o),
             UNCHANGED <<cr, exists, uses>>
      PROVE  Grounds(c)' /\ UNCHANGED exists
  <2>1. Idle(c) /\ ~cond'[c].synced /\ (cr'[c].deleting => cr'[c].here /\ cr'[c].managed)
    BY <1>1, FinishOnly DEF Grounds
  <2> QED
    BY <1>1, <2>1, OverGrounds
<1>2. ASSUME Unresolved(c) PROVE Grounds(c)' /\ UNCHANGED exists
  <2>1. Idle(c) /\ UNCHANGED <<cr, exists, uses>> /\ c \in queued'
    BY <1>2 DEF Unresolved
  <2> QED
    BY <2>1, IdleOnly DEF Grounds, SyncedFor
<1> QED
  BY <1>1, <1>2 DEF Refused, CallFails

LEMMA ReconcileGrounds ==
  ASSUME Typed, NEW c \in CRs, Grounds(c), Reconcile(c)
  PROVE  Grounds(c)' /\ UNCHANGED exists
<1>1. /\ pc[c] = "idle" /\ queued' = queued \ {c}
      /\ UNCHANGED <<cr, cond, exists, uses, latest, creations, budget>>
  BY Zenon DEF Reconcile
<1>2. CASE cr[c].here
  <2>1. /\ op'[c] = IF cr[c].deleting THEN "delete" ELSE "sync"
        /\ pc'[c] \in {"read", "resolve"}
        /\ copy'[c].refs = cr[c].spec.refs /\ copy'[c].given = cr[c].spec.ids
    BY <1>2 DEF Reconcile, Goto, Typed, TypeOK
  <2> QED
    BY <1>1, <2>1 DEF Grounds, SyncedFor, Asked
<1>3. CASE ~cr[c].here
  <2>1. UNCHANGED <<pc, op, copy>>
    BY <1>3 DEF Reconcile
  <2> QED
    BY <1>1, <1>3, <2>1 DEF Grounds, SyncedFor
<1> QED
  BY <1>2, <1>3

LEMMA ResolveGrounds ==
  ASSUME Typed, NEW c \in CRs, Grounds(c), ResolveReference(c) \/ ResolveReferences(c)
  PROVE  Grounds(c)' /\ UNCHANGED exists
<1>1. CASE Unresolved(c)
  BY <1>1, RefusedGrounds
<1>2. ASSUME NEW d \in copy[c].left, pc[c] = "resolve",
             copy' = [copy EXCEPT ![c].left = @ \ {d}, ![c].ids = @ \cup {d}],
             UNCHANGED <<cr, cond, queued, exists, uses, pc, op, latest, creations, budget>>
      PROVE  Grounds(c)' /\ UNCHANGED exists
  <2>1. copy'[c].refs = copy[c].refs /\ copy'[c].given = copy[c].given
    BY <1>2 DEF Typed, TypeOK
  <2> QED
    BY <1>2, <2>1 DEF Grounds, SyncedFor
<1>3. ASSUME pc[c] = "resolve", Goto(c, "read"),
             UNCHANGED <<cr, cond, queued, exists, uses, op, copy, latest, creations, budget>>
      PROVE  Grounds(c)' /\ UNCHANGED exists
  <2>1. pc'[c] = "read"
    BY <1>3 DEF Goto, Typed, TypeOK
  <2> QED
    BY <1>3, <2>1 DEF Grounds, SyncedFor
<1> QED
  BY <1>1, <1>2, <1>3 DEF ResolveReference, ResolveReferences

LEMMA ReadOneGrounds ==
  ASSUME Typed, NEW c \in CRs, Grounds(c), ReadOne(c)
  PROVE  Grounds(c)' /\ UNCHANGED exists
<1>1. ASSUME pc[c] = "read", c \in exists, latest' = [latest EXCEPT ![c] = uses[c]],
             Goto(c, "update"),
             UNCHANGED <<cr, cond, queued, exists, uses, op, copy, creations, budget>>
      PROVE  Grounds(c)' /\ UNCHANGED exists
  <2>1. pc'[c] = "update" /\ latest'[c] = uses[c]
    BY <1>1 DEF Goto, Typed, TypeOK
  <2> QED
    BY <1>1, <2>1 DEF Grounds, SyncedFor
<1>2. ASSUME pc[c] = "read", op[c] = "sync",
             IF cr[c].here
             THEN /\ cr' = [cr EXCEPT ![c].managed = TRUE]
                  /\ Goto(c, "create")
                  /\ UNCHANGED <<op, copy, latest>>
             ELSE UNCHANGED cr /\ Idle(c),
             UNCHANGED <<cond, queued, exists, uses, creations, budget>>
      PROVE  Grounds(c)' /\ UNCHANGED exists
  <2>1. CASE cr[c].here
    <3>1. pc'[c] = "create"
      BY <1>2, <2>1 DEF Goto, Typed, TypeOK
    <3>2. /\ cr'[c].spec = cr[c].spec /\ cr'[c].here = cr[c].here
          /\ cr'[c].deleting = cr[c].deleting /\ cr'[c].managed
      <4>1. cr'[c] = [cr[c] EXCEPT !.managed = TRUE] /\ cr[c] \in CRType(c)
        BY <1>2, <2>1, Own
      <4> QED
        BY <4>1 DEF CRType
    <3> QED
      BY <1>2, <2>1, <3>1, <3>2 DEF Grounds, SyncedFor
  <2>2. CASE ~cr[c].here
    BY <1>2, <2>2, OverGrounds DEF Grounds
  <2> QED
    BY <2>1, <2>2
<1>3. CASE CallFails(c)
  BY <1>3, RefusedGrounds
<1>4. ASSUME MarkUnmanaged(c), UNCHANGED <<cond, queued, exists, uses, creations, budget>>
      PROVE  Grounds(c)' /\ UNCHANGED exists
  <2>1. Idle(c) /\ ~cr'[c].here /\ ~cr'[c].deleting
    BY <1>4, Own DEF MarkUnmanaged, Blank
  <2> QED
    BY <1>4, <2>1, OverGrounds
<1> QED
  BY <1>1, <1>2, <1>3, <1>4, Zenon DEF ReadOne

\* What the reconcile has patched is what c says, if c is not in the queue again.
LEMMA PatchGrounds ==
  ASSUME Typed, NEW c \in CRs, Grounds(c), NEW o, PatchCR(c, o), UNCHANGED uses,
         uses[c] \subseteq exists', c \in exists',
         o = "Synced" /\ cr[c].here /\ ~cr[c].deleting /\ c \notin queued
         => uses[c] = Asked(cr[c].spec)
  PROVE  Grounds(c)'
<1>1. cr'[c] = cr[c]
  BY PatchKeeps
<1>2. Idle(c) /\ cond'[c].synced = (o = "Synced")
  BY FinishOnly DEF PatchCR
<1>3. pc'[c] = "idle"
  BY <1>2, IdleOnly
<1>4. c \in queued => c \in queued'
  BY DEF PatchCR, Finish
<1> QED
  BY <1>1, <1>2, <1>3, <1>4 DEF Grounds, SyncedFor

\* A policy asks for nothing.
LEMMA PolicyAsks ==
  ASSUME Typed, NEW c \in Policies PROVE Asked(cr[c].spec) = {} /\ uses[c] = {}
<1>1. Referable(c) = {}
  BY ReferencesAssumption DEF Referable
<1>2. cr[c].spec \in Spec_(c) /\ uses[c] \subseteq Referable(c)
  BY Own
<1> QED
  BY <1>1, <1>2 DEF Asked, Spec_

LEMMA CreateGrounds ==
  ASSUME Typed, NEW c \in CRs, Grounds(c), Create(c)
  PROVE  Grounds(c)' /\ exists \subseteq exists'
<1>1. ASSUME exists' = exists \cup {c}, PatchCR(c, IF c \in Policies THEN "Synced" ELSE "Unsynced"),
             UNCHANGED uses
      PROVE  Grounds(c)' /\ exists \subseteq exists'
  <2>1. uses[c] \subseteq exists' /\ c \in exists'
    BY <1>1 DEF Grounds
  <2>2. CASE c \in Policies
    BY <1>1, <2>1, <2>2, PolicyAsks, PatchGrounds
  <2>3. CASE c \notin Policies
    BY <1>1, <2>1, <2>3, PatchGrounds
  <2> QED
    BY <2>2, <2>3
<1> QED
  BY <1>1, RefusedGrounds DEF Create

LEMMA AttachGrounds ==
  ASSUME Typed, NEW c \in CRs, Grounds(c), Attach(c)
  PROVE  Grounds(c)' /\ UNCHANGED exists
<1>1. ASSUME NEW d \in ToAttach(c), pc[c] = "update", {c, d} \subseteq exists,
             uses' = [uses EXCEPT ![c] = @ \cup {d}],
             latest' = [latest EXCEPT ![c] = @ \cup {d}],
             UNCHANGED <<cr, cond, queued, exists, pc, op, copy, creations, budget>>
      PROVE  Grounds(c)' /\ UNCHANGED exists
  <2>1. uses'[c] = uses[c] \cup {d} /\ latest'[c] = latest[c] \cup {d}
    BY <1>1 DEF Typed, TypeOK
  <2> QED
    BY <1>1, <2>1 DEF Grounds, SyncedFor
<1> QED
  BY <1>1, RefusedGrounds DEF Attach

LEMMA DetachGrounds ==
  ASSUME Typed, NEW c \in CRs, Grounds(c), Detach(c)
  PROVE  Grounds(c)' /\ UNCHANGED exists
<1>1. ASSUME NEW d \in ToDetach(c), pc[c] = "update",
             uses' = [uses EXCEPT ![c] = @ \ {d}],
             latest' = [latest EXCEPT ![c] = @ \ {d}],
             UNCHANGED <<cr, cond, queued, exists, pc, op, copy, creations, budget>>
      PROVE  Grounds(c)' /\ UNCHANGED exists
  <2>1. uses'[c] = uses[c] \ {d} /\ latest'[c] = latest[c] \ {d}
    BY <1>1 DEF Typed, TypeOK
  <2> QED
    BY <1>1, <2>1 DEF Grounds, SyncedFor
<1> QED
  BY <1>1, RefusedGrounds DEF Detach

LEMMA UpdateGrounds ==
  ASSUME Typed, NEW c \in CRs, Grounds(c), Update(c)
  PROVE  Grounds(c)' /\ UNCHANGED exists
<1>1. ASSUME pc[c] = "update", Goto(c, "delete"),
             UNCHANGED <<cr, cond, queued, exists, uses, op, copy, latest, creations, budget>>
      PROVE  Grounds(c)' /\ UNCHANGED exists
  <2>1. pc'[c] = "delete"
    BY <1>1 DEF Goto, Typed, TypeOK
  <2> QED
    BY <1>1, <2>1 DEF Grounds, SyncedFor
<1>2. ASSUME pc[c] = "update", ToAttach(c) = {}, ToDetach(c) = {}, op[c] = "sync",
             PatchCR(c, "Synced"), UNCHANGED <<exists, uses, creations, budget>>
      PROVE  Grounds(c)' /\ UNCHANGED exists
  <2>1. latest[c] = copy[c].ids
    BY <1>2 DEF ToAttach, ToDetach, Desired
  <2>2. copy[c].ids = copy[c].refs \cup copy[c].given
    BY <1>2, Own DEF CopyInv
  <2>3. c \in exists' /\ uses[c] \subseteq exists' /\ latest[c] = uses[c]
    BY <1>2 DEF Grounds
  <2>4. cr[c].here /\ c \notin queued => uses[c] = Asked(cr[c].spec)
    BY <1>2, <2>1, <2>2, <2>3 DEF Grounds
  <2> QED
    BY <1>2, <2>3, <2>4, PatchGrounds
<1> QED
  BY <1>1, <1>2, RefusedGrounds DEF Update

\* The one step that takes an object away takes one that nobody uses.
LEMMA DeleteGrounds ==
  ASSUME Typed, Solid, NEW c \in CRs, Delete(c)
  PROVE  Grounds(c)' /\ \A d \in CRs : uses[d] \subseteq exists'
<1>1. Grounds(c) /\ \A d \in CRs : uses[d] \subseteq exists
  BY DEF Solid, Grounds
<1>2. ASSUME uses[c] = {}, \A d \in CRs : c \notin uses[d],
             exists' = exists \ {c}, MarkUnmanaged(c),
             UNCHANGED <<cond, queued, uses, creations, budget>>
      PROVE  Grounds(c)' /\ \A d \in CRs : uses[d] \subseteq exists'
  <2>1. /\ Idle(c) /\ ~cr'[c].here /\ ~cr'[c].deleting
        /\ pc'[c] = "idle" /\ uses'[c] = {}
    BY <1>2, Own, IdleOnly DEF MarkUnmanaged, Blank
  <2> QED
    BY <1>1, <1>2, <2>1 DEF Grounds, SyncedFor
<1>3. ASSUME Refused(c, "Recoverable") \/ CallFails(c)
      PROVE  Grounds(c)' /\ \A d \in CRs : uses[d] \subseteq exists'
  BY <1>1, <1>3, RefusedGrounds
<1> QED
  BY <1>2, <1>3 DEF Delete

LEMMA ControllerSolid ==
  ASSUME Typed, Solid, NEW c \in CRs, Controller(c) PROVE Solid'
<1>1. Only(c) /\ Typed'
  BY ControllerTyped
<1>2. Grounds(c) /\ \A d \in CRs : uses[d] \subseteq exists
  BY DEF Solid, Grounds
<1>3. Grounds(c)' /\ \A d \in CRs : uses[d] \subseteq exists'
  <2>1. CASE Delete(c)
    BY <2>1, DeleteGrounds
  <2>2. CASE Create(c)
    BY <2>2, <1>2, CreateGrounds
  <2>3. ASSUME Reconcile(c) \/ ResolveReference(c) \/ ResolveReferences(c) \/ ReadOne(c)
               \/ Attach(c) \/ Detach(c) \/ Update(c)
        PROVE  Grounds(c)' /\ exists' = exists
    BY <2>3, <1>2, ReconcileGrounds, ResolveGrounds, ReadOneGrounds, AttachGrounds,
       DetachGrounds, UpdateGrounds
  <2> QED
    BY <1>2, <2>1, <2>2, <2>3 DEF Controller
<1> QED
  BY <1>1, <1>3, OtherGrounds DEF Solid

\* Users put a CR that they touch into the queue; a crash puts all there.
LEMMA EnvironmentSolid ==
  ASSUME Typed, Solid,
         (\E c \in CRs : Resync(c) \/ CreateCR(c) \/ EditSpec(c) \/ DeleteCR(c)) \/ Crash
  PROVE  Solid'
<1> SUFFICES ASSUME NEW d \in CRs PROVE Grounds(d)'
  BY DEF Solid
<1>1. Grounds(d) /\ DOMAIN cr = CRs /\ cr[d] \in CRType(d)
  BY Own DEF Solid
<1>2. ASSUME NEW c \in CRs, Resync(c) PROVE Grounds(d)'
  BY <1>1, <1>2 DEF Resync, Grounds, SyncedFor
<1>3. ASSUME NEW c \in CRs, c \in queued', queued \subseteq queued',
             UNCHANGED <<exists, uses, pc, op, copy, latest>>,
             \A e \in CRs : e # c => cr'[e] = cr[e] /\ cond'[e] = cond[e],
             cr[c].deleting => cr'[c].deleting,
             cr'[c].deleting => cr'[c].here /\ cr'[c].managed
      PROVE  Grounds(d)'
  <2>1. CASE d = c
    BY <1>1, <1>3, <2>1 DEF Grounds, SyncedFor
  <2>2. CASE d # c
    BY <1>1, <1>3, <2>2 DEF Grounds, SyncedFor
  <2> QED
    BY <2>1, <2>2
<1>4. ASSUME NEW c \in CRs, cr[c] \in CRType(c), CreateCR(c) PROVE Grounds(d)'
  <2>1. ~cr[c].deleting
    BY <1>4 DEF Solid, Grounds, CreateCR
  <2>2. ~cr'[c].deleting /\ \A e \in CRs : e # c => cr'[e] = cr[e] /\ cond'[e] = cond[e]
    BY <1>4 DEF CreateCR, Blank, Typed, TypeOK
  <2> QED
    BY <1>3, <1>4, <2>1, <2>2 DEF CreateCR
<1>5. ASSUME NEW c \in CRs, cr[c] \in CRType(c), EditSpec(c) PROVE Grounds(d)'
  <2>1. ~cr'[c].deleting /\ \A e \in CRs : e # c => cr'[e] = cr[e] /\ cond'[e] = cond[e]
    BY <1>5 DEF EditSpec, CRType, Typed, TypeOK
  <2> QED
    BY <1>3, <1>5, <2>1 DEF EditSpec
<1>6. ASSUME NEW c \in CRs, cr[c] \in CRType(c), DeleteCR(c) PROVE Grounds(d)'
  <2>1. /\ cr'[c].deleting => cr'[c].here /\ cr'[c].managed
        /\ \A e \in CRs : e # c => cr'[e] = cr[e] /\ cond'[e] = cond[e]
    BY <1>6 DEF DeleteCR, Blank, CRType, Typed, TypeOK
  <2> QED
    BY <1>3, <1>6, <2>1 DEF DeleteCR
<1>7. ASSUME Crash PROVE Grounds(d)'
  <2>1. pc'[d] = "idle" /\ (cr[d].here => d \in queued') /\ UNCHANGED <<cr, cond, exists, uses>>
    BY <1>7 DEF Crash
  <2> QED
    BY <1>1, <2>1 DEF Grounds, SyncedFor
<1> QED
  BY <1>2, <1>4, <1>5, <1>6, <1>7, Own

LEMMA NextSolid == Typed /\ Solid /\ [Next]_vars => Solid'
<1>1. ASSUME Solid, UNCHANGED vars PROVE Solid'
  BY <1>1 DEF Solid, Grounds, SyncedFor, vars
<1> QED
  BY <1>1, ControllerSolid, EnvironmentSolid DEF Next

\* A CR reports that it is synced only if its object, and all that its spec refers to, are in
\* IAM and wired up, although references are resolved by what other CRs report, at
\* other moments.
THEOREM SyncedIsGrounded == Spec => []Grounded
<1>1. Spec => []Typed
  BY InitTyped, NextTyped, PTL DEF Spec
<1>2. Spec => []Solid
  BY <1>1, InitSolid, NextSolid, PTL DEF Spec
<1>3. Solid => Grounded
  BY DEF Solid, Grounds, SyncedFor, Grounded
<1> QED
  BY <1>2, <1>3, PTL

-----------------------------------------------------------------------------
(* The managers that these reconciles ask for.  MFTypeOK says who holds    *)
(* the locks; that there is one writer is what makes it inductive.         *)

OneWriter == \A v, w \in Workers : stage[v] = "build" /\ stage[w] = "build" => v = w

Locks == MFTypeOK /\ OneWriter

\* Nobody has called yet.
LEMMA InitLocks == MFInit => Locks
  BY ConstantsAssumption DEF MFInit, Locks, MFTypeOK, OneWriter, MFPlaces

\* Each step of a worker keeps the locks' books.
LEMMA NextLocks == Locks /\ [MFNext]_MFvars => Locks'
<1> SUFFICES ASSUME Locks, [MFNext]_MFvars PROVE Locks'
  OBVIOUS
<1> USE DEF Locks, MFTypeOK, OneWriter, MFPlaces
<1>1. CASE UNCHANGED MFvars
  BY <1>1 DEF MFvars
<1>2. ASSUME NEW w \in Workers, Call(w) PROVE Locks'
  BY <1>2 DEF Call, MoveTo
<1>3. ASSUME NEW w \in Workers, RLock(w) PROVE Locks'
  BY <1>3 DEF RLock, MoveTo
<1>4. ASSUME NEW w \in Workers, Lookup(w) PROVE Locks'
  BY <1>4 DEF Lookup, MoveTo
<1>5. ASSUME NEW w \in Workers, AskLock(w) PROVE Locks'
  BY <1>5 DEF AskLock, MoveTo
<1>6. ASSUME NEW w \in Workers, Lock(w) PROVE Locks'
  BY <1>6 DEF Lock, MoveTo
<1>7. ASSUME NEW w \in Workers, Build(w) PROVE Locks'
  BY <1>7 DEF Build, MoveTo
<1> QED
  BY <1>1, <1>2, <1>3, <1>4, <1>5, <1>6, <1>7 DEF MFNext, Inside

\* The two locks are held by exactly the workers that are inside them, whatever the order
\* in which workers ask for managers.
THEOREM LocksTypeCorrect == MFSpec => []MFTypeOK
<1>1. MFSpec => []Locks
  BY InitLocks, NextLocks, PTL DEF MFSpec
<1> QED
  BY <1>1, PTL DEF Locks

-----------------------------------------------------------------------------
(* At most one manager per worker.                                         *)

\* The workers that have missed in the cache and have not built yet.
Missed(i) == {w \in Workers : rmId[w] = i /\ stage[w] \in {"lock", "waiting", "build"}}

\* Who misses does so before the first manager is stored; each of them builds one.
Bounded ==
    \A i \in Ids :
        /\ rmCache[i] = built[i]
        /\ built[i] + Cardinality(Missed(i)) <= Cardinality(Workers)

\* Counting makes sense.
LEMMA MissedCount ==
    ASSUME NEW i PROVE /\ IsFiniteSet(Missed(i))
                       /\ Cardinality(Missed(i)) \in Nat
                       /\ Cardinality(Workers) \in Nat
                       /\ Cardinality(Missed(i)) <= Cardinality(Workers)
<1>1. Missed(i) \subseteq Workers
  BY DEF Missed
<1> QED
  BY <1>1, ConstantsAssumption, FS_Subset, FS_CardinalityType

\* Nobody has missed and nothing is built.
LEMMA InitBounded == MFInit => Bounded
<1> SUFFICES ASSUME MFInit, NEW i \in Ids
             PROVE rmCache[i] = built[i]
                   /\ built[i] + Cardinality(Missed(i)) <= Cardinality(Workers)
  BY DEF Bounded
<1> QED
  BY MissedCount DEF MFInit

\* A step that neither builds nor misses.
LEMMA SameBounded ==
    ASSUME Bounded, UNCHANGED <<rmCache, built>>, \A i \in Ids : Missed(i)' = Missed(i)
    PROVE  Bounded'
  BY DEF Bounded

\* A miss is one more only while nothing is built; a build takes one off.
LEMMA NextBounded == Locks /\ Bounded /\ [MFNext]_MFvars => Bounded'
<1> SUFFICES ASSUME Locks, Bounded, [MFNext]_MFvars PROVE Bounded'
  OBVIOUS
<1> USE DEF Locks, MFTypeOK
<1>1. CASE UNCHANGED MFvars
  BY <1>1, SameBounded DEF MFvars, Missed
<1>2. ASSUME NEW w \in Workers, Call(w) PROVE Bounded'
  <2>1. \A i \in Ids : Missed(i)' = Missed(i)
    BY <1>2 DEF Call, MoveTo, Missed
  <2> QED
    BY <1>2, <2>1, SameBounded DEF Call
<1>3. ASSUME NEW w \in Workers, RLock(w) PROVE Bounded'
  <2>1. \A i \in Ids : Missed(i)' = Missed(i)
    BY <1>3 DEF RLock, MoveTo, Missed
  <2> QED
    BY <1>3, <2>1, SameBounded DEF RLock
<1>4. ASSUME NEW w \in Workers, Lookup(w) PROVE Bounded'
  <2> SUFFICES ASSUME NEW i \in Ids
               PROVE rmCache'[i] = built'[i]
                     /\ built'[i] + Cardinality(Missed(i)') <= Cardinality(Workers)
    BY DEF Bounded
  <2>1. UNCHANGED <<rmCache, built>>
    BY <1>4 DEF Lookup
  <2>2. CASE rmCache[i] = 0
    <3>1. Missed(i)' \subseteq Workers
      BY DEF Missed
    <3>2. Cardinality(Missed(i)') \in Nat /\ Cardinality(Missed(i)') <= Cardinality(Workers)
      BY <3>1, ConstantsAssumption, FS_Subset, FS_CardinalityType
    <3> QED
      BY <2>1, <2>2, <3>2, MissedCount DEF Bounded
  <2>3. CASE rmCache[i] # 0
    <3>1. Missed(i)' = Missed(i)
      BY <1>4, <2>3 DEF Lookup, MoveTo, Missed
    <3> QED
      BY <2>1, <3>1 DEF Bounded
  <2> QED
    BY <2>2, <2>3
<1>5. ASSUME NEW w \in Workers, AskLock(w) PROVE Bounded'
  <2>1. \A i \in Ids : Missed(i)' = Missed(i)
    BY <1>5 DEF AskLock, MoveTo, Missed
  <2> QED
    BY <1>5, <2>1, SameBounded DEF AskLock
<1>6. ASSUME NEW w \in Workers, Lock(w) PROVE Bounded'
  <2>1. \A i \in Ids : Missed(i)' = Missed(i)
    BY <1>6 DEF Lock, MoveTo, Missed
  <2> QED
    BY <1>6, <2>1, SameBounded DEF Lock
<1>7. ASSUME NEW w \in Workers, Build(w) PROVE Bounded'
  <2> SUFFICES ASSUME NEW i \in Ids
               PROVE rmCache'[i] = built'[i]
                     /\ built'[i] + Cardinality(Missed(i)') <= Cardinality(Workers)
    BY DEF Bounded
  <2>1. CASE i = rmId[w]
    <3>1. w \in Missed(i)
      BY <1>7, <2>1 DEF Build, Missed
    <3>2. Missed(i)' = Missed(i) \ {w}
      BY <1>7, <2>1 DEF Build, MoveTo, Missed
    <3>3. Cardinality(Missed(i)') = Cardinality(Missed(i)) - 1
      BY <3>1, <3>2, MissedCount, FS_RemoveElement
    <3>4. built'[i] = built[i] + 1 /\ rmCache'[i] = built'[i]
      BY <1>7, <2>1 DEF Build
    <3> QED
      BY <3>3, <3>4, MissedCount DEF Bounded
  <2>2. CASE i # rmId[w]
    <3>1. Missed(i)' = Missed(i)
      BY <1>7, <2>2 DEF Build, MoveTo, Missed
    <3>2. built'[i] = built[i] /\ rmCache'[i] = rmCache[i]
      BY <1>7, <2>2 DEF Build
    <3> QED
      BY <3>1, <3>2 DEF Bounded
  <2> QED
    BY <2>1, <2>2
<1> QED
  BY <1>1, <1>2, <1>3, <1>4, <1>5, <1>6, <1>7 DEF MFNext, Inside

\* However many workers there are and however their calls interleave, an id has at most as
\* many managers built for it as there are workers.
THEOREM BuiltOncePerWorker == MFSpec => []AtMostOnePerWorker
<1>1. MFSpec => []Locks
  BY InitLocks, NextLocks, PTL DEF MFSpec
<1>2. MFSpec => []Bounded
  BY <1>1, InitBounded, NextBounded, PTL DEF MFSpec
<1>3. Locks /\ Bounded => AtMostOnePerWorker
  BY MissedCount DEF Locks, MFTypeOK, Bounded, AtMostOnePerWorker
<1> QED
  BY <1>1, <1>2, <1>3, PTL
=============================================================================
