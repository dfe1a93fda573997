----------------------------- MODULE GroupProofs -----------------------------
(***************************************************************************)
(* Proofs about Group for all sets of specs, policies, documents and       *)
(* paths, every quota, Unescape and budget: its types, that an update      *)
(* leaves all the old policies attached or all the new ones, and that no   *)
(* CR is forgotten before its group is what it says.                       *)
(***************************************************************************)
EXTENDS Group, ReconcilerProofs

SoundGroup == Sound(Content, Places, Calls)

Reads == {"listPolicies", "listInline", "readInline"}

\* The calls that are left: only after a reading that is complete, and what is put has
\* a document.
Shape ==
    /\ SoundGroup
    /\ (todo # {}) = (pc \in {"readInline", "update"})
    /\ pc \in Reads \cup {"update", "patch"} => latest \in Content
    /\ pc \in Reads \cup {"read", "manage", "update"} => op # "create"
    /\ pc = "update" => \A n \in InlineNames :
                            <<"PutGroupPolicy", n>> \in todo => desired.inline[n] # None

\* A reconcile of a CR that is to stay, without anybody else at work.
Alone == op = "sync" /\ ~drift

\* What has been read is what is there.
ReadProgress ==
    pc \in Reads =>
        /\ exists
        /\ latest.path = object.path
        /\ pc # "listPolicies" => latest.policies = object.policies
        /\ pc = "readInline" => \A n \in InlineNames :
               latest.inline[n] = object.inline[n] \/ <<"GetGroupPolicy", n>> \in todo

\* Old policies go when all the new ones are there.
PoliciesProgress ==
    /\ \A p \in latest.policies :
           \/ p \in object.policies
           \/ \A q \in PolicyARNs : <<"AttachGroupPolicy", q>> \notin todo
    /\ \A p \in desired.policies :
           p \in object.policies \/ <<"AttachGroupPolicy", p>> \in todo
    /\ \A p \in object.policies \ desired.policies : <<"DetachGroupPolicy", p>> \in todo
    /\ \A p \in PolicyARNs :
           /\ <<"DetachGroupPolicy", p>> \in todo => p \notin desired.policies
           /\ <<"AttachGroupPolicy", p>> \in todo => p \in desired.policies

InlineProgress ==
    \A n \in InlineNames :
        IF desired.inline[n] = None
        THEN object.inline[n] = None \/ <<"DeleteGroupPolicy", n>> \in todo
        ELSE /\ \/ object.inline[n] \in {desired.inline[n], Unescape[desired.inline[n]]}
                \/ <<"PutGroupPolicy", n>> \in todo
             /\ <<"DeleteGroupPolicy", n>> \notin todo

PathProgress ==
    /\ desired.path \in {None, object.path} \/ <<"UpdateGroup", desired.path>> \in todo
    /\ \A p \in Maybe(Paths) : <<"UpdateGroup", p>> \in todo => p = desired.path

\* What the group is not yet is still to be done.
UpdateProgress ==
    pc \in {"update", "lateInit", "patch"} =>
        /\ exists
        /\ PoliciesProgress
        /\ InlineProgress
        /\ PathProgress
        /\ pc = "patch" => latest.path = object.path

Progress == Alone => ReadProgress /\ UpdateProgress

Undisturbed == budget["drift"] = Budget["drift"]

\* The queue knows what the reconcile does not.
QueueInv ==
    /\ budget["drift"] <= Budget["drift"]
    /\ Undisturbed =>
           /\ ~drift
           /\ pc # "idle" /\ op = "sync" => queued \/ ~cr.here \/ cr.spec = desired
           /\ pc # "idle" /\ op = "delete" => cr.deleting
           /\ pc \in {"lateInit", "patch"} => op # "delete"
           /\ NothingForgotten

Inv == Shape /\ Progress /\ QueueInv

-----------------------------------------------------------------------------
\* A reconcile that is over leaves nothing behind in its todo, and the CR in the queue
\* unless that is all there is to say.
LEMMA EndInv ==
  ASSUME Inv, SoundGroup', Idle, budget'["drift"] = budget["drift"],
         queued' \/ cond' = "Terminal" \/ ~cr'.here
  PROVE  Inv'
<1>1. pc' = "idle" /\ op' = "sync" /\ todo' = {} /\ drift' = drift
  BY DEF Idle
<1>2. Shape'
  BY <1>1 DEF Shape, Reads
<1>3. Progress'
  BY <1>1 DEF Progress, ReadProgress, UpdateProgress, Reads
<1>4. QueueInv'
  BY <1>1 DEF Inv, QueueInv, Undisturbed, NothingForgotten
<1> QED
  BY <1>2, <1>3, <1>4 DEF Inv

LEMMA SpendDrift ==
  ASSUME Inv, NEW w \in Misfortunes, w # "drift", Spend(w)
  PROVE  budget'["drift"] = budget["drift"] /\ budget' \in [Misfortunes -> Nat]
<1>1. budget \in [Misfortunes -> Nat] /\ "drift" \in Misfortunes /\ SoundGroup
  BY DEF Inv, Shape, SoundGroup, Sound, CommonTypes, Misfortunes
<1>2. budget' = [budget EXCEPT ![w] = @ - 1] /\ budget[w] > 0
  BY DEF Spend
<1>3. budget'["drift"] = budget["drift"]
  BY <1>1, <1>2
<1> QED
  BY <1>1, <1>3, SpendSound DEF SoundGroup

LEMMA RefusedInv ==
  ASSUME Inv, (\E o \in {"Recoverable", "Terminal"} : Refused(o)) \/ CallFails
  PROVE  Inv'
<1>1. SoundGroup
  BY DEF Inv, Shape
<1>2. {"Recoverable", "Terminal"} \subseteq Outcomes /\ "fault" \in Misfortunes
  BY DEF Outcomes, Misfortunes
<1>3. SoundGroup'
  BY <1>1, <1>2, RefusedSound DEF SoundGroup
<1>4. CASE CallFails
  <2>1. budget'["drift"] = budget["drift"]
    BY <1>2, <1>4, SpendDrift DEF CallFails
  <2> QED
    BY <1>3, <1>4, <2>1, EndInv DEF CallFails, Finish, FinishWith
<1>5. ASSUME NEW o \in {"Recoverable", "Terminal"}, Refused(o)
      PROVE  Inv'
  <2>1. budget'["drift"] = budget["drift"]
    BY <1>5 DEF Refused
  <2>2. Idle /\ cond' = o /\ queued' = (queued \/ o \in {"Unsynced", "Recoverable"})
    BY <1>5 DEF Refused, Finish, FinishWith
  <2> QED
    BY <1>3, <1>5, <2>1, <2>2, EndInv
<1> QED
  BY <1>4, <1>5

LEMMA CodeOutcome ==
  ASSUME NEW code
  PROVE  terminalAWSError(code) \in {"Recoverable", "Terminal"}
  BY DEF terminalAWSError

\* A step between two calls leaves what the queue knows as it is.
LEMMA QueueGoesOn ==
  ASSUME Inv, pc # "idle", pc' # "idle", UNCHANGED <<cr, cond, queued, drift, budget>>,
         desired' = desired, op' = op \/ op' = "create",
         pc' \in {"lateInit", "patch"} => op' # "delete"
  PROVE  QueueInv'
<1>1. cr' = cr /\ cond' = cond /\ queued' = queued /\ drift' = drift /\ budget' = budget
  OBVIOUS
<1> QED
  BY <1>1 DEF Inv, QueueInv, Undisturbed, NothingForgotten

-----------------------------------------------------------------------------
\* The types of the calls, and of what the group and its copies hold.
LEMMA ContentTypes ==
  ASSUME NEW o \in Content
  PROVE  /\ o.policies \subseteq PolicyARNs /\ o.inline \in [InlineNames -> Maybe(Docs)]
         /\ o.path \in Maybe(Paths) /\ o # None
         /\ \A n \in InlineNames : o.inline[n] \in Maybe(Docs)
  BY GroupAssumption DEF Content

LEMMA CallTypes ==
  ASSUME NEW d \in Content, NEW l \in Content
  PROVE  /\ SyncManagedPolicies(d, l) \subseteq Calls /\ SyncInlinePolicies(d, l) \subseteq Calls
         /\ Changes(d, l) \subseteq Calls
<1>1. SyncManagedPolicies(d, l) \subseteq Calls
  BY ContentTypes DEF SyncManagedPolicies, Calls
<1>2. SyncInlinePolicies(d, l) \subseteq Calls
  BY DEF SyncInlinePolicies, Calls
<1>3. <<"UpdateGroup", d.path>> \in Calls
  BY ContentTypes DEF Calls
<1> QED
  BY <1>1, <1>2, <1>3 DEF Changes

\* The calls of an update are just those for the differences.
LEMMA ChangesAre ==
  ASSUME NEW d \in Content, NEW l \in Content
  PROVE  /\ \A p \in PolicyARNs :
               /\ <<"AttachGroupPolicy", p>> \in Changes(d, l) <=> p \in d.policies \ l.policies
               /\ <<"DetachGroupPolicy", p>> \in Changes(d, l) <=> p \in l.policies \ d.policies
         /\ \A n \in InlineNames :
               /\ <<"PutGroupPolicy", n>> \in Changes(d, l)
                     <=> d.inline[n] \notin {None, l.inline[n]}
               /\ <<"DeleteGroupPolicy", n>> \in Changes(d, l)
                     <=> l.inline[n] # None /\ d.inline[n] = None
         /\ \A p \in Maybe(Paths) :
               <<"UpdateGroup", p>> \in Changes(d, l) <=> d.path # l.path /\ p = d.path
  BY DEF Changes, SyncManagedPolicies, SyncInlinePolicies

LEMMA EmptyingIs ==
  ASSUME NEW l \in Content
  PROVE  /\ Emptying(l) \subseteq Calls
         /\ \A n \in InlineNames : <<"PutGroupPolicy", n>> \notin Emptying(l)
<1> DEFINE bare == [l EXCEPT !.policies = {}]
           blank == [l EXCEPT !.inline = NoInline]
<1>1. bare \in Content /\ blank \in Content /\ blank.inline = NoInline
  BY DEF Content, NoInline, Maybe
<1>2. Emptying(l) = SyncManagedPolicies(bare, l) \cup SyncInlinePolicies(blank, l)
  BY DEF Emptying
<1>3. \A n \in InlineNames : blank.inline[n] = None
  BY <1>1 DEF NoInline
<1> HIDE DEF bare, blank
<1>4. Emptying(l) \subseteq Calls
  BY <1>1, <1>2, CallTypes
<1>5. ASSUME NEW n \in InlineNames
      PROVE  <<"PutGroupPolicy", n>> \notin Emptying(l)
  BY <1>2, <1>3 DEF SyncManagedPolicies, SyncInlinePolicies
<1> QED
  BY <1>4, <1>5

-----------------------------------------------------------------------------
\* The next call of a reading.
LEMMA ReadingInv ==
  ASSUME Inv, exists, NEW q \in Reads, NEW l \in Content, NEW calls \in SUBSET Calls,
         pc \in Reads \cup {"read"}, Goto(q), latest' = l, todo' = calls,
         UNCHANGED <<object, op, id, desired>>,
         (calls # {}) = (q = "readInline"),
         Alone =>
            /\ l.path = object.path
            /\ q # "listPolicies" => l.policies = object.policies
            /\ q = "readInline" => \A n \in InlineNames :
                   l.inline[n] = object.inline[n] \/ <<"GetGroupPolicy", n>> \in calls
  PROVE  Inv'
<1>1. /\ SoundGroup /\ pc # "idle" /\ op # "create"
      /\ op \in {"sync", "create", "delete"} /\ id \in BOOLEAN /\ desired \in Content
      /\ object \in Content \cup {None}
  BY DEF Inv, Shape, SoundGroup, Sound, CommonTypes, Reads
<1>2. /\ pc' = q /\ object' = object /\ op' = op /\ id' = id /\ desired' = desired
      /\ drift' = drift /\ UNCHANGED <<cr, cond, queued, drift, budget>>
  BY DEF Goto
<1>3. q \in Places /\ q \notin {"idle", "update", "lateInit", "patch"}
  BY DEF Reads, Places
<1>4. SoundGroup'
  BY <1>1, <1>2, <1>3, GotoSound DEF SoundGroup
<1>5. Shape'
  BY <1>1, <1>2, <1>3, <1>4 DEF Shape
<1>6. Progress'
  BY <1>2, <1>3 DEF Progress, ReadProgress, UpdateProgress, Alone, exists
<1>7. QueueInv'
  BY <1>1, <1>2, <1>3, QueueGoesOn
<1> QED
  BY <1>5, <1>6, <1>7 DEF Inv

\* An update, or what follows when there is nothing to update, begins with what was read.
LEMMA BegunInv ==
  ASSUME Inv, exists, NEW l \in Content, pc \in {"listInline", "readInline"},
         NEW calls, calls = IF op = "delete" THEN Emptying(l) ELSE Changes(desired, l),
         latest' = l, todo' = calls, Goto(After(calls)), UNCHANGED <<object, op, id, desired>>,
         Alone => l.path = object.path /\ l.policies = object.policies
                  /\ \A n \in InlineNames : l.inline[n] = object.inline[n]
  PROVE  Inv'
<1>1. /\ SoundGroup /\ pc # "idle" /\ op # "create"
      /\ op \in {"sync", "create", "delete"} /\ id \in BOOLEAN /\ desired \in Content
      /\ object \in Content
  BY DEF Inv, Shape, SoundGroup, Sound, CommonTypes, Reads, exists
<1>2. /\ pc' = After(calls) /\ object' = object /\ op' = op /\ id' = id /\ desired' = desired
      /\ drift' = drift /\ UNCHANGED <<cr, cond, queued, drift, budget>>
  BY DEF Goto
<1>3. /\ After(calls) \in Places \cup SharedPlaces
      /\ After(calls) \in {"update", "deleteGroup", "lateInit"}
      /\ (calls # {}) = (After(calls) = "update")
      /\ After(calls) = "lateInit" => op # "delete"
  BY DEF After, Places, SharedPlaces
<1>4. calls \subseteq Calls
      /\ \A n \in InlineNames : <<"PutGroupPolicy", n>> \in calls => desired.inline[n] # None
  <2>1. CASE op = "delete"
    BY <2>1, EmptyingIs
  <2>2. CASE op # "delete"
    BY <1>1, <2>2, CallTypes, ChangesAre
  <2> QED
    BY <2>1, <2>2
<1>5. SoundGroup'
  BY <1>1, <1>2, <1>3, <1>4, GotoSound DEF SoundGroup
<1>6. Shape'
  BY <1>1, <1>2, <1>3, <1>4, <1>5 DEF Shape, Reads
<1>7. Progress'
  <2> SUFFICES ASSUME Alone
               PROVE  (ReadProgress /\ UpdateProgress)'
    BY <1>2 DEF Progress, Alone
  <2>1. calls = Changes(desired, l)
    BY DEF Alone
  <2>2. PoliciesProgress'
    <3>1. \A p \in PolicyARNs :
              /\ <<"AttachGroupPolicy", p>> \in calls <=> p \in desired.policies \ l.policies
              /\ <<"DetachGroupPolicy", p>> \in calls <=> p \in l.policies \ desired.policies
      BY <1>1, <2>1, ChangesAre
    <3>2. l.policies \subseteq PolicyARNs /\ desired.policies \subseteq PolicyARNs
      BY <1>1, ContentTypes
    <3>3. /\ object'.policies = l.policies /\ latest'.policies = l.policies
          /\ desired'.policies = desired.policies /\ todo' = calls
      BY <1>2
    <3> QED
      BY <3>1, <3>2, <3>3 DEF PoliciesProgress
  <2>3. InlineProgress'
    <3>1. \A n \in InlineNames :
              /\ <<"PutGroupPolicy", n>> \in calls <=> desired.inline[n] \notin {None, l.inline[n]}
              /\ <<"DeleteGroupPolicy", n>> \in calls
                     <=> l.inline[n] # None /\ desired.inline[n] = None
      BY <1>1, <2>1, ChangesAre
    <3>2. \A n \in InlineNames : object'.inline[n] = l.inline[n]
      BY <1>2
    <3>3. desired' = desired /\ todo' = calls
      BY <1>2
    <3> QED
      BY <3>1, <3>2, <3>3 DEF InlineProgress
  <2>4. PathProgress'
    BY <1>1, <1>2, <2>1, ChangesAre, ContentTypes DEF PathProgress
  <2> QED
    BY <1>2, <1>3, <2>2, <2>3, <2>4 DEF ReadProgress, UpdateProgress, Reads, exists
<1>8. QueueInv'
  BY <1>1, <1>2, <1>3, QueueGoesOn
<1> QED
  BY <1>6, <1>7, <1>8 DEF Inv

LEMMA GetGroupInv ==
  ASSUME Inv, GetGroup
  PROVE  Inv'
<1>1. SoundGroup /\ pc = "read" /\ todo = {} /\ op # "create" /\ object \in Content \cup {None}
  BY DEF Inv, Shape, SoundGroup, Sound, CommonTypes, GetGroup
<1>2. ASSUME exists, latest' = object, Goto("listPolicies"),
             UNCHANGED <<object, op, id, desired, todo>>
      PROVE  Inv'
  <2>1. object \in Content
    BY <1>1, <1>2 DEF exists
  <2>2. todo' = {} /\ UNCHANGED <<object, op, id, desired>>
    BY <1>1, <1>2
  <2>3. "listPolicies" \in Reads
    BY DEF Reads
  <2> QED
    BY <1>1, <1>2, <2>1, <2>2, <2>3, ReadingInv
<1>3. CASE NotFound
  <2>1. SoundGroup' /\ UNCHANGED copies /\ pc' \in {"manage", "unmanage"}
    BY <1>1, <1>3, NotFoundSound DEF SoundGroup
  <2>2. op' = op /\ todo' = {} /\ desired' = desired /\ UNCHANGED <<cr, cond, queued, drift, budget>>
    BY <1>1, <1>3, <2>1 DEF copies, NotFound, Goto
  <2>3. QueueInv'
    BY <1>1, <2>1, <2>2, QueueGoesOn
  <2> QED
    BY <1>1, <2>1, <2>2, <2>3 DEF Inv, Shape, Progress, ReadProgress, UpdateProgress, Reads
<1> QED
  BY <1>2, <1>3, RefusedInv DEF GetGroup

LEMMA ListAttachedInv ==
  ASSUME Inv, ListAttachedGroupPolicies
  PROVE  Inv'
<1>1. SoundGroup /\ pc = "listPolicies" /\ todo = {} /\ object \in Content \cup {None}
      /\ latest \in Content
  BY DEF Inv, Shape, SoundGroup, Sound, CommonTypes, ListAttachedGroupPolicies, Reads
<1>2. ASSUME exists, latest' = [latest EXCEPT !.policies = object.policies], Goto("listInline"),
             UNCHANGED <<object, op, id, desired, todo>>
      PROVE  Inv'
  <2> DEFINE l == [latest EXCEPT !.policies = object.policies]
  <2>1. object.policies \subseteq PolicyARNs
    BY <1>1, <1>2, ContentTypes DEF exists
  <2>2. l \in Content /\ l.policies = object.policies /\ l.path = latest.path
    BY <1>1, <2>1 DEF Content
  <2>3. Alone => latest.path = object.path
    BY <1>1 DEF Inv, Progress, ReadProgress, Reads
  <2>4. todo' = {} /\ UNCHANGED <<object, op, id, desired>> /\ latest' = l
    BY <1>1, <1>2
  <2>5. "listInline" \in Reads
    BY DEF Reads
  <2> HIDE DEF l
  <2> QED
    BY <1>1, <1>2, <2>2, <2>3, <2>4, <2>5, ReadingInv DEF Reads
<1> QED
  BY <1>2, RefusedInv, CodeOutcome DEF ListAttachedGroupPolicies

\* What there is still to be read, or the beginning of an update.
LEMMA ReadInv ==
  ASSUME Inv, exists, pc \in {"listInline", "readInline"}, NEW l \in Content,
         NEW pending \in SUBSET Calls, Read(l, pending),
         Alone => /\ l.path = object.path /\ l.policies = object.policies
                  /\ \A n \in InlineNames :
                         l.inline[n] = object.inline[n] \/ <<"GetGroupPolicy", n>> \in pending
  PROVE  Inv'
<1> DEFINE calls == IF op = "delete" THEN Emptying(l) ELSE Changes(desired, l)
<1>1. latest' = l /\ UNCHANGED <<object, op, id, desired>>
  BY DEF Read
<1>2. CASE pending # {}
  <2>1. todo' = pending /\ Goto("readInline")
    BY <1>2 DEF Read
  <2> QED
    BY <1>1, <1>2, <2>1, ReadingInv DEF Reads
<1>3. CASE pending = {}
  <2>1. todo' = calls /\ Goto(After(calls))
    BY <1>3 DEF Read
  <2> HIDE DEF calls
  <2> QED
    BY <1>1, <1>3, <2>1, BegunInv DEF calls
<1> QED
  BY <1>2, <1>3

LEMMA ListInlineInv ==
  ASSUME Inv, ListGroupPolicies
  PROVE  Inv'
<1>1. pc = "listInline" /\ object \in Content \cup {None} /\ latest \in Content
  BY DEF Inv, Shape, SoundGroup, Sound, CommonTypes, ListGroupPolicies, Reads
<1> DEFINE l == [latest EXCEPT !.inline = NoInline]
           pending == {<<"GetGroupPolicy", n>> : n \in {m \in InlineNames : object.inline[m] # None}}
<1>2. ASSUME exists, Read(l, pending)
      PROVE  Inv'
  <2>1. l \in Content /\ l.policies = latest.policies /\ l.path = latest.path /\ l.inline = NoInline
    BY <1>1 DEF Content, NoInline, Maybe
  <2>2. pending \in SUBSET Calls
    BY DEF Calls
  <2>3. \A n \in InlineNames :
            l.inline[n] = object.inline[n] \/ <<"GetGroupPolicy", n>> \in pending
    BY <2>1 DEF NoInline
  <2>4. Alone => latest.path = object.path /\ latest.policies = object.policies
    BY <1>1 DEF Inv, Progress, ReadProgress, Reads
  <2> HIDE DEF l, pending
  <2> QED
    BY <1>1, <1>2, <2>1, <2>2, <2>3, <2>4, ReadInv
<1> QED
  BY <1>2, RefusedInv, CodeOutcome DEF ListGroupPolicies

LEMMA GetPolicyInv ==
  ASSUME Inv, GetGroupPolicy
  PROVE  Inv'
<1>1. pc = "readInline" /\ object \in Content \cup {None} /\ latest \in Content /\ todo \subseteq Calls
  BY DEF Inv, Shape, SoundGroup, Sound, CommonTypes, GetGroupPolicy, Reads
<1>2. ASSUME NEW n \in InlineNames, exists,
             Read([latest EXCEPT !.inline[n] = object.inline[n]], todo \ {<<"GetGroupPolicy", n>>})
      PROVE  Inv'
  <2> DEFINE l == [latest EXCEPT !.inline[n] = object.inline[n]]
             pending == todo \ {<<"GetGroupPolicy", n>>}
  <2>1. object.inline[n] \in Maybe(Docs) /\ latest.inline \in [InlineNames -> Maybe(Docs)]
    BY <1>1, <1>2, ContentTypes DEF exists
  <2>2. [latest.inline EXCEPT ![n] = object.inline[n]] \in [InlineNames -> Maybe(Docs)]
    BY <2>1
  <2>3. l \in Content /\ l.policies = latest.policies /\ l.path = latest.path
        /\ l.inline = [latest.inline EXCEPT ![n] = object.inline[n]]
    BY <1>1, <2>2 DEF Content
  <2>4. Alone => /\ latest.path = object.path /\ latest.policies = object.policies
                 /\ \A m \in InlineNames :
                        latest.inline[m] = object.inline[m] \/ <<"GetGroupPolicy", m>> \in todo
    BY <1>1 DEF Inv, Progress, ReadProgress, Reads
  <2>5. ASSUME Alone, NEW m \in InlineNames
        PROVE  l.inline[m] = object.inline[m] \/ <<"GetGroupPolicy", m>> \in pending
    <3>1. CASE m = n
      BY <2>1, <2>3, <3>1
    <3>2. CASE m # n
      BY <2>1, <2>3, <2>4, <2>5, <3>2
    <3> QED
      BY <3>1, <3>2
  <2>6. pending \in SUBSET Calls
    BY <1>1
  <2> HIDE DEF l, pending
  <2> QED
    BY <1>1, <1>2, <2>3, <2>4, <2>5, <2>6, ReadInv DEF l, pending
<1> QED
  BY <1>2, RefusedInv, CodeOutcome DEF GetGroupPolicy

-----------------------------------------------------------------------------
\* No policy is detached while another is to be attached.
LEMMA AttachFirst ==
  ASSUME NEW p \in PolicyARNs, Due(<<"DetachGroupPolicy", p>>), NEW q \in PolicyARNs
  PROVE  <<"AttachGroupPolicy", q>> \notin todo
<1>1. Rank(<<"AttachGroupPolicy", q>>) = 1 /\ Rank(<<"DetachGroupPolicy", p>>) = 2
  <2>1. DOMAIN Order = 1..5 /\ Order[1] = "AttachGroupPolicy" /\ Order[2] = "DetachGroupPolicy"
        /\ Order[3] = "PutGroupPolicy" /\ Order[4] = "DeleteGroupPolicy"
        /\ Order[5] = "UpdateGroup"
    BY DEF Order
  <2>2. \A i \in DOMAIN Order :
            /\ Order[i] = "AttachGroupPolicy" <=> i = 1
            /\ Order[i] = "DetachGroupPolicy" <=> i = 2
    BY <2>1
  <2>3. 1 \in DOMAIN Order /\ 2 \in DOMAIN Order
    BY <2>1
  <2>4. (CHOOSE i \in DOMAIN Order : Order[i] = "AttachGroupPolicy") = 1
    BY <2>2, <2>3
  <2>5. (CHOOSE i \in DOMAIN Order : Order[i] = "DetachGroupPolicy") = 2
    BY <2>2, <2>3
  <2> QED
    BY <2>4, <2>5 DEF Rank
<1> QED
  BY <1>1 DEF Due

\* A call is made and leaves less to do.
LEMMA DoneInv ==
  ASSUME Inv, pc = "update", exists, NEW call \in todo, NEW o \in Content,
         object' = o, todo' = todo \ {call}, Goto(After(todo \ {call})),
         UNCHANGED <<op, id, desired, latest>>,
         Alone => (PoliciesProgress /\ InlineProgress /\ PathProgress)'
  PROVE  Inv'
<1>1. /\ SoundGroup /\ pc # "idle" /\ op # "create" /\ todo \subseteq Calls
      /\ op \in {"sync", "create", "delete"} /\ id \in BOOLEAN /\ desired \in Content
      /\ latest \in Content
  BY DEF Inv, Shape, SoundGroup, Sound, CommonTypes
<1>2. /\ pc' = After(todo') /\ op' = op /\ id' = id /\ desired' = desired /\ latest' = latest
      /\ drift' = drift /\ UNCHANGED <<cr, cond, queued, drift, budget>>
  BY DEF Goto
<1>3. /\ After(todo') \in Places \cup SharedPlaces
      /\ After(todo') \in {"update", "deleteGroup", "lateInit"}
      /\ (todo' # {}) = (After(todo') = "update")
      /\ After(todo') = "lateInit" => op # "delete"
  BY DEF After, Places, SharedPlaces
<1>4. SoundGroup'
  BY <1>1, <1>2, <1>3, GotoSound DEF SoundGroup
<1>5. Shape'
  BY <1>1, <1>2, <1>3, <1>4 DEF Inv, Shape, Reads
<1>6. Progress'
  <2>1. exists'
    BY ContentTypes DEF exists
  <2> QED
    BY <1>2, <1>3, <2>1 DEF Progress, Alone, ReadProgress, UpdateProgress, Reads
<1>7. QueueInv'
  BY <1>1, <1>2, <1>3, QueueGoesOn
<1> QED
  BY <1>5, <1>6, <1>7 DEF Inv

LEMMA AttemptInv ==
  ASSUME Inv, NEW call, NEW condition, NEW o, NEW code, Attempt(call, condition, o, code),
         pc = "update" /\ exists /\ condition => o \in Content,
         /\ Alone /\ exists /\ condition /\ pc = "update" /\ Due(call) /\ call \in todo
         /\ object' = o /\ todo' = todo \ {call} /\ desired' = desired /\ latest' = latest
         => (PoliciesProgress /\ InlineProgress /\ PathProgress)'
  PROVE  Inv'
<1>1. pc = "update" /\ Due(call) /\ call \in todo
  BY DEF Attempt, Due
<1>2. CASE exists /\ condition /\ object' = o /\ todo' = todo \ {call}
           /\ Goto(After(todo \ {call})) /\ UNCHANGED <<op, id, desired, latest>>
  BY <1>1, <1>2, DoneInv
<1>3. CASE Refused(terminalAWSError("NoSuchEntity")) \/ Refused(terminalAWSError(code)) \/ CallFails
  BY <1>3, RefusedInv, CodeOutcome
<1> QED
  BY <1>2, <1>3 DEF Attempt

\* What the group and its copies hold during an update.
LEMMA UpdateTypes ==
  ASSUME Inv, pc = "update", exists
  PROVE  /\ object \in Content /\ desired \in Content /\ latest \in Content
         /\ Alone => PoliciesProgress /\ InlineProgress /\ PathProgress
<1>1. object \in Content /\ desired \in Content /\ latest \in Content
  BY DEF Inv, Shape, SoundGroup, Sound, CommonTypes, exists
<1> QED
  BY <1>1 DEF Inv, Progress, UpdateProgress

LEMMA AttachInv ==
  ASSUME Inv, AttachGroupPolicy
  PROVE  Inv'
<1>1. PICK p \in PolicyARNs :
          Attempt(<<"AttachGroupPolicy", p>>, Cardinality(object.policies \cup {p}) <= Quota,
                  [object EXCEPT !.policies = @ \cup {p}], "LimitExceeded")
  BY DEF AttachGroupPolicy
<1> DEFINE call == <<"AttachGroupPolicy", p>>
           o == [object EXCEPT !.policies = object.policies \cup {p}]
<1>2. ASSUME pc = "update", exists
      PROVE  /\ o \in Content /\ o.policies = object.policies \cup {p}
             /\ o.inline = object.inline /\ o.path = object.path
  BY <1>2, UpdateTypes DEF Content
<1>3. ASSUME Alone, exists, pc = "update", Due(call), call \in todo,
             object' = o, todo' = todo \ {call}, desired' = desired, latest' = latest
      PROVE  (PoliciesProgress /\ InlineProgress /\ PathProgress)'
  <2>1. PoliciesProgress /\ InlineProgress /\ PathProgress /\ desired \in Content
    BY <1>3, UpdateTypes
  <2>2. object'.policies = object.policies \cup {p} /\ object'.inline = object.inline
        /\ object'.path = object.path /\ todo' = todo \ {<<"AttachGroupPolicy", p>>}
    BY <1>2, <1>3
  <2>3. PoliciesProgress'
    BY <1>3, <2>1, <2>2 DEF PoliciesProgress
  <2>4. InlineProgress'
    BY <1>3, <2>1, <2>2 DEF InlineProgress
  <2>5. PathProgress'
    BY <1>3, <2>1, <2>2 DEF PathProgress
  <2> QED
    BY <2>3, <2>4, <2>5
<1>4. Attempt(call, Cardinality(object.policies \cup {p}) <= Quota, o, "LimitExceeded")
  BY <1>1
<1> HIDE DEF call, o
<1> QED
  BY <1>2, <1>3, <1>4, AttemptInv

LEMMA DetachInv ==
  ASSUME Inv, DetachGroupPolicy
  PROVE  Inv'
<1>1. PICK p \in PolicyARNs :
          Attempt(<<"DetachGroupPolicy", p>>, p \in object.policies,
                  [object EXCEPT !.policies = @ \ {p}], "NoSuchEntity")
  BY DEF DetachGroupPolicy
<1> DEFINE call == <<"DetachGroupPolicy", p>>
           o == [object EXCEPT !.policies = object.policies \ {p}]
<1>2. ASSUME pc = "update", exists
      PROVE  /\ o \in Content /\ o.policies = object.policies \ {p}
             /\ o.inline = object.inline /\ o.path = object.path
  BY <1>2, UpdateTypes DEF Content
<1>3. ASSUME Alone, exists, pc = "update", Due(call), call \in todo,
             object' = o, todo' = todo \ {call}, desired' = desired, latest' = latest
      PROVE  (PoliciesProgress /\ InlineProgress /\ PathProgress)'
  <2>1. PoliciesProgress /\ InlineProgress /\ PathProgress /\ desired \in Content
    BY <1>3, UpdateTypes
  <2>2. object'.policies = object.policies \ {p} /\ object'.inline = object.inline
        /\ object'.path = object.path /\ todo' = todo \ {<<"DetachGroupPolicy", p>>}
    BY <1>2, <1>3
  <2>3. p \notin desired.policies
        /\ \A q \in PolicyARNs : <<"AttachGroupPolicy", q>> \notin todo
    BY <1>3, <2>1, AttachFirst DEF PoliciesProgress
  <2>4. PoliciesProgress'
    BY <1>3, <2>1, <2>2, <2>3 DEF PoliciesProgress
  <2>5. InlineProgress'
    BY <1>3, <2>1, <2>2 DEF InlineProgress
  <2>6. PathProgress'
    BY <1>3, <2>1, <2>2 DEF PathProgress
  <2> QED
    BY <2>4, <2>5, <2>6
<1>4. Attempt(call, p \in object.policies, o, "NoSuchEntity")
  BY <1>1
<1> HIDE DEF call, o
<1> QED
  BY <1>2, <1>3, <1>4, AttemptInv

\* An inline policy is changed: the others, the managed policies and the path stay.
LEMMA InlineCallInv ==
  ASSUME Inv, NEW name \in {"PutGroupPolicy", "DeleteGroupPolicy"}, NEW n \in InlineNames,
         NEW condition, NEW doc, NEW code,
         Attempt(<<name, n>>, condition, [object EXCEPT !.inline[n] = doc], code),
         pc = "update" /\ condition /\ <<name, n>> \in todo => doc \in Maybe(Docs),
         pc = "update" /\ Alone /\ <<name, n>> \in todo /\ InlineProgress =>
            IF name = "DeleteGroupPolicy" THEN doc = None ELSE doc = Unescape[desired.inline[n]]
  PROVE  Inv'
<1> DEFINE call == <<name, n>>
           o == [object EXCEPT !.inline[n] = doc]
<1>1. pc = "update" /\ call \in todo
  BY DEF Attempt, Due
<1>2. ASSUME exists, condition
      PROVE  /\ o \in Content /\ o.policies = object.policies /\ o.path = object.path
             /\ o.inline = [object.inline EXCEPT ![n] = doc]
             /\ object.inline \in [InlineNames -> Maybe(Docs)]
  <2>1. object \in Content /\ object.inline \in [InlineNames -> Maybe(Docs)]
    BY <1>1, <1>2, UpdateTypes, ContentTypes
  <2>2. [object.inline EXCEPT ![n] = doc] \in [InlineNames -> Maybe(Docs)]
    BY <1>1, <1>2, <2>1
  <2> QED
    BY <2>1, <2>2 DEF Content
<1>3. ASSUME Alone, exists, condition,
             object' = o, todo' = todo \ {call}, desired' = desired, latest' = latest
      PROVE  (PoliciesProgress /\ InlineProgress /\ PathProgress)'
  <2>1. PoliciesProgress /\ InlineProgress /\ PathProgress /\ desired \in Content
    BY <1>1, <1>3, UpdateTypes
  <2>2. /\ object'.policies = object.policies /\ object'.path = object.path
        /\ object'.inline = [object.inline EXCEPT ![n] = doc]
        /\ todo' = todo \ {<<name, n>>}
    BY <1>2, <1>3
  <2>3. PoliciesProgress'
    BY <1>3, <2>1, <2>2 DEF PoliciesProgress
  <2>4. PathProgress'
    BY <1>3, <2>1, <2>2 DEF PathProgress
  <2>5. InlineProgress'
    <3> SUFFICES ASSUME NEW m \in InlineNames
                 PROVE  IF desired.inline[m] = None
                        THEN object'.inline[m] = None \/ <<"DeleteGroupPolicy", m>> \in todo'
                        ELSE /\ \/ object'.inline[m] \in {desired.inline[m], Unescape[desired.inline[m]]}
                                \/ <<"PutGroupPolicy", m>> \in todo'
                             /\ <<"DeleteGroupPolicy", m>> \notin todo'
      BY <1>3 DEF InlineProgress
    <3>1. object'.inline[m] = IF m = n THEN doc ELSE object.inline[m]
      BY <1>2, <1>3, <2>2
    <3>2. CASE m # n
      BY <2>1, <2>2, <3>1, <3>2 DEF InlineProgress
    <3>3. CASE m = n /\ name = "DeleteGroupPolicy"
      BY <1>1, <1>3, <2>1, <2>2, <3>1, <3>3 DEF InlineProgress
    <3>4. CASE m = n /\ name = "PutGroupPolicy"
      <4>1. desired.inline[n] # None
        BY <1>1, <3>4 DEF Inv, Shape
      <4>2. doc = Unescape[desired.inline[n]]
        BY <1>1, <1>3, <2>1, <3>4
      <4> QED
        BY <2>1, <2>2, <3>1, <3>4, <4>1, <4>2 DEF InlineProgress
    <3> QED
      BY <3>2, <3>3, <3>4
  <2> QED
    BY <2>3, <2>4, <2>5
<1> HIDE DEF call, o
<1>4. Attempt(call, condition, o, code)
  BY DEF call, o
<1> QED
  BY <1>1, <1>2, <1>3, <1>4, AttemptInv

LEMMA PutInv ==
  ASSUME Inv, PutGroupPolicy
  PROVE  Inv'
<1>1. PICK n \in InlineNames :
          Attempt(<<"PutGroupPolicy", n>>, Unescape[desired.inline[n]] \notin BadDocs \cup {None},
                  [object EXCEPT !.inline[n] = Unescape[desired.inline[n]]],
                  IF Unescape[desired.inline[n]] = None THEN "EscapeError"
                  ELSE "MalformedPolicyDocument")
  BY DEF PutGroupPolicy
<1>2. ASSUME pc = "update", <<"PutGroupPolicy", n>> \in todo
      PROVE  Unescape[desired.inline[n]] \in Maybe(Docs)
  <2>1. desired.inline[n] # None
    BY <1>2 DEF Inv, Shape
  <2>2. desired \in Content
    BY <1>2 DEF Inv, Shape, SoundGroup, Sound
  <2>3. desired.inline[n] \in Docs
    BY <2>1, <2>2, ContentTypes DEF Maybe
  <2> QED
    BY <2>3, GroupAssumption
<1> QED
  BY <1>1, <1>2, InlineCallInv

LEMMA DeleteInlineInv ==
  ASSUME Inv, DeleteGroupPolicy
  PROVE  Inv'
<1>1. None \in Maybe(Docs)
  BY DEF Maybe
<1> QED
  BY <1>1, InlineCallInv DEF DeleteGroupPolicy

LEMMA UpdateGroupInv ==
  ASSUME Inv, UpdateGroup
  PROVE  Inv'
<1>1. PICK p \in Maybe(Paths) :
          Attempt(<<"UpdateGroup", p>>, TRUE,
                  [object EXCEPT !.path = IF p = None THEN @ ELSE p], "NoSuchEntity")
  BY DEF UpdateGroup
<1> DEFINE call == <<"UpdateGroup", p>>
           o == [object EXCEPT !.path = IF p = None THEN object.path ELSE p]
<1>2. ASSUME pc = "update", exists
      PROVE  /\ o \in Content /\ o.policies = object.policies /\ o.inline = object.inline
             /\ o.path = IF p = None THEN object.path ELSE p
  BY <1>2, UpdateTypes DEF Content
<1>3. ASSUME Alone, exists, pc = "update", Due(call), call \in todo,
             object' = o, todo' = todo \ {call}, desired' = desired, latest' = latest
      PROVE  (PoliciesProgress /\ InlineProgress /\ PathProgress)'
  <2>1. PoliciesProgress /\ InlineProgress /\ PathProgress
    BY <1>3, UpdateTypes
  <2>2. object'.policies = object.policies /\ object'.inline = object.inline
        /\ object'.path = (IF p = None THEN object.path ELSE p)
        /\ todo' = todo \ {<<"UpdateGroup", p>>}
    BY <1>2, <1>3
  <2>3. PoliciesProgress'
    BY <1>3, <2>1, <2>2 DEF PoliciesProgress
  <2>4. InlineProgress'
    BY <1>3, <2>1, <2>2 DEF InlineProgress
  <2>5. p = desired.path
    BY <1>3, <2>1 DEF PathProgress
  <2>6. PathProgress'
    BY <1>3, <2>1, <2>2, <2>5 DEF PathProgress
  <2> QED
    BY <2>3, <2>4, <2>6
<1>4. Attempt(call, TRUE, o, "NoSuchEntity")
  BY <1>1
<1> HIDE DEF call, o
<1> QED
  BY <1>2, <1>3, <1>4, AttemptInv

-----------------------------------------------------------------------------
LEMMA CreateInv ==
  ASSUME Inv, CreateGroup
  PROVE  Inv'
<1>1. /\ SoundGroup /\ pc = "create" /\ todo = {} /\ id \in BOOLEAN /\ desired \in Content
      /\ latest \in Content \cup {None}
  BY DEF Inv, Shape, SoundGroup, Sound, CommonTypes, CreateGroup
<1>2. ASSUME object' = [policies |-> {}, inline |-> NoInline,
                        path |-> IF desired.path = None THEN DefaultPath ELSE desired.path],
             op' = "create", Goto("lateInit"), UNCHANGED <<id, desired, latest, todo>>
      PROVE  Inv'
  <2>1. desired.path \in Maybe(Paths)
    BY <1>1, ContentTypes
  <2>2. object' \in Content
    BY <1>2, <2>1, GroupAssumption DEF Content, NoInline, Maybe
  <2>3. pc' = "lateInit" /\ todo' = {} /\ desired' = desired
        /\ UNCHANGED <<cr, cond, queued, drift, budget>>
    BY <1>1, <1>2 DEF Goto
  <2>4. SoundGroup'
    BY <1>1, <1>2, <2>2, GotoSound DEF SoundGroup, SharedPlaces
  <2>5. QueueInv'
    BY <1>1, <1>2, <2>3, QueueGoesOn
  <2> QED
    BY <1>2, <2>3, <2>4, <2>5 DEF Inv, Shape, Progress, Alone, Reads
<1> QED
  BY <1>2, RefusedInv DEF CreateGroup

LEMMA LateInitializeInv ==
  ASSUME Inv, LateInitialize
  PROVE  Inv'
<1>1. /\ SoundGroup /\ pc = "lateInit" /\ todo = {} /\ id \in BOOLEAN /\ desired \in Content
      /\ object \in Content \cup {None} /\ op \in {"sync", "create", "delete"}
  BY DEF Inv, Shape, SoundGroup, Sound, CommonTypes, LateInitialize
<1>2. ASSUME exists, latest' = object, Goto("patch"), UNCHANGED <<object, op, id, desired, todo>>
      PROVE  Inv'
  <2>1. /\ object \in Content /\ object' = object /\ op' = op /\ id' = id /\ desired' = desired
        /\ todo' = {} /\ pc' = "patch" /\ drift' = drift
        /\ UNCHANGED <<cr, cond, queued, drift, budget>>
    BY <1>1, <1>2 DEF Goto, exists
  <2>2. SoundGroup'
    BY <1>1, <1>2, <2>1, GotoSound DEF SoundGroup, SharedPlaces
  <2>3. Undisturbed => op # "delete"
    BY <1>1 DEF Inv, QueueInv
  <2>4. QueueInv'
    BY <1>1, <2>1, <2>3 DEF Inv, QueueInv, Undisturbed, NothingForgotten
  <2>5. Progress'
    <3> SUFFICES ASSUME Alone
                 PROVE  (ReadProgress /\ UpdateProgress)'
      BY <2>1 DEF Progress, Alone
    <3>1. PoliciesProgress /\ InlineProgress /\ PathProgress
      BY <1>1 DEF Inv, Progress, UpdateProgress
    <3>2. PoliciesProgress'
      BY <1>1, <1>2, <2>1, <3>1 DEF PoliciesProgress
    <3>3. InlineProgress' /\ PathProgress'
      BY <1>1, <2>1, <3>1 DEF InlineProgress, PathProgress
    <3> QED
      BY <1>2, <2>1, <3>2, <3>3 DEF ReadProgress, UpdateProgress, Reads, exists
  <2>6. Shape'
    BY <1>2, <2>1, <2>2 DEF Shape, Reads
  <2> QED
    BY <2>4, <2>5, <2>6 DEF Inv
<1> QED
  BY <1>2, RefusedInv, CodeOutcome DEF LateInitialize

\* The end of a reconcile that reports success: the group is what the CR says, unless it is
\* in the queue again.
LEMMA PatchInv ==
  ASSUME Inv, PatchCR
  PROVE  Inv'
<1>1. /\ SoundGroup /\ pc = "patch" /\ todo = {} /\ desired \in Content /\ latest \in Content
      /\ cr \in CRType(Content) /\ queued \in BOOLEAN
      /\ op \in {"sync", "create", "delete"} /\ {"Synced", "Unsynced"} \subseteq Outcomes
      /\ "patch" \in Misfortunes
  BY DEF Inv, Shape, SoundGroup, Sound, CommonTypes, PatchCR, Patch, Outcomes, CRType, Misfortunes
<1> DEFINE s == IF desired.path # None THEN cr.spec ELSE [cr.spec EXCEPT !.path = latest.path]
           o == IF op = "create" THEN "Unsynced" ELSE "Synced"
<1>2. cr.spec \in Content /\ latest.path \in Maybe(Paths)
  BY <1>1, ContentTypes DEF CRType
<1>3. /\ s \in Content /\ s.policies = cr.spec.policies /\ s.inline = cr.spec.inline
      /\ s.path = IF desired.path # None THEN cr.spec.path ELSE latest.path
  BY <1>2 DEF Content
<1>4. o \in Outcomes /\ Patch(o, s)
  BY <1>1 DEF PatchCR
<1>5. o = "Unsynced" \/ op # "create"
  OBVIOUS
<1> HIDE DEF s, o
<1>6. SoundGroup' /\ pc' = "idle" /\ todo' = {} /\ UNCHANGED object
  BY <1>1, <1>3, <1>4, PatchSound DEF SoundGroup
<1>7. ASSUME FinishWith(o, [cr EXCEPT !.spec = s]), UNCHANGED budget
      PROVE  Inv'
  <2>1. /\ cond' = o /\ queued' = (queued \/ o \in {"Unsynced", "Recoverable"}) /\ Idle
        /\ cr' = [[cr EXCEPT !.spec = s] EXCEPT !.id = @ \/ id]
    BY <1>7 DEF FinishWith
  <2>2. cr'.here = cr.here /\ cr'.deleting = cr.deleting /\ cr'.spec = s
    BY <1>1, <2>1 DEF CRType
  <2>3. CASE op = "create" \/ queued \/ ~cr.here
    BY <1>5, <1>6, <1>7, <2>1, <2>2, <2>3, EndInv
  <2>4. CASE op # "create" /\ ~queued /\ cr.here
    <3>1. Undisturbed => cr.spec = desired /\ Alone
      BY <1>1, <2>4 DEF Inv, QueueInv, Alone
    <3>2. ASSUME Undisturbed
          PROVE  Matches(cr.spec)'
      <4>1. /\ exists /\ PoliciesProgress /\ InlineProgress /\ PathProgress
            /\ latest.path = object.path
        BY <1>1, <3>1, <3>2 DEF Inv, Progress, UpdateProgress
      <4>2. object \in Content /\ object' = object /\ exists'
        BY <1>1, <1>6, <4>1 DEF exists, SoundGroup, Sound, CommonTypes
      <4>3. object.policies = s.policies
        BY <1>1, <1>3, <3>1, <3>2, <4>1, <4>2, ContentTypes DEF PoliciesProgress
      <4>4. \A n \in InlineNames :
               IF s.inline[n] = None THEN object.inline[n] = None
               ELSE object.inline[n] \in {s.inline[n], Unescape[s.inline[n]]}
        BY <1>1, <1>3, <3>1, <3>2, <4>1 DEF InlineProgress
      <4>5. desired.path \in {None, object.path}
        BY <1>1, <4>1 DEF PathProgress
      <4>6. s.path = object.path
        BY <1>3, <3>1, <3>2, <4>1, <4>5
      <4>7. cr'.spec = s
        BY <2>2
      <4> QED
        BY <4>2, <4>3, <4>4, <4>6, <4>7 DEF Matches
    <3>4. drift' = drift /\ op' = "sync" /\ budget' = budget
      BY <1>7, <2>1 DEF Idle
    <3>5. QueueInv'
      BY <1>6, <3>2, <3>4 DEF Inv, QueueInv, Undisturbed, NothingForgotten
    <3>6. Shape' /\ Progress'
      BY <1>6, <3>4 DEF Shape, Progress, ReadProgress, UpdateProgress, Reads
    <3> QED
      BY <3>5, <3>6 DEF Inv
  <2> QED
    BY <2>3, <2>4
<1>8. ASSUME Spend("patch"), queued' = TRUE, Idle
      PROVE  Inv'
  <2>1. budget'["drift"] = budget["drift"]
    BY <1>1, <1>8, SpendDrift
  <2> QED
    BY <1>6, <1>8, <2>1, EndInv
<1> QED
  BY <1>4, <1>7, <1>8 DEF Patch

\* The rest of a deletion, the finalizer, and a crash.
LEMMA DeleteInv ==
  ASSUME Inv, DeleteGroup
  PROVE  Inv'
<1>1. SoundGroup /\ pc = "deleteGroup" /\ todo = {}
  BY DEF Inv, Shape, DeleteGroup
<1>2. CASE Answered(None, "unmanage")
  <2>1. SoundGroup' /\ UNCHANGED copies /\ pc' = "unmanage"
    BY <1>1, <1>2, AnsweredSound DEF SoundGroup, SharedPlaces
  <2>2. /\ op' = op /\ desired' = desired /\ todo' = {}
        /\ UNCHANGED <<cr, cond, queued, drift, budget>>
    BY <1>1, <1>2, <2>1 DEF copies, Answered, Goto
  <2>3. QueueInv'
    BY <1>1, <2>1, <2>2, QueueGoesOn
  <2> QED
    BY <2>1, <2>2, <2>3 DEF Inv, Shape, Progress, ReadProgress, UpdateProgress, Reads
<1> QED
  BY <1>2, RefusedInv DEF DeleteGroup

LEMMA FinalizerInv ==
  ASSUME Inv, MarkManaged \/ MarkUnmanaged \/ Crash
  PROVE  Inv'
<1>1. SoundGroup /\ cr \in CRType(Content) /\ "crash" \in Misfortunes
  BY DEF Inv, Shape, SoundGroup, Sound, CommonTypes, CRType, Misfortunes
<1>2. CASE MarkManaged /\ cr.here
  <2>1. SoundGroup'
    BY <1>1, <1>2, MarkManagedSound DEF SoundGroup
  <2>2. /\ cr' = [cr EXCEPT !.managed = TRUE] /\ pc = "manage" /\ pc' = "create"
        /\ cond' = cond /\ queued' = queued /\ drift' = drift /\ budget' = budget
        /\ op' = op /\ desired' = desired /\ todo' = todo
    BY <1>2 DEF MarkManaged, copies
  <2>3. cr'.here = cr.here /\ cr'.deleting = cr.deleting /\ cr'.spec = cr.spec
    BY <1>1, <2>2 DEF CRType
  <2>4. QueueInv'
    BY <2>2, <2>3 DEF Inv, QueueInv, Undisturbed, NothingForgotten
  <2> QED
    BY <2>1, <2>2, <2>4 DEF Inv, Shape, Progress, ReadProgress, UpdateProgress, Reads
<1>3. CASE MarkManaged /\ ~cr.here
  <2>1. SoundGroup'
    BY <1>1, <1>3, MarkManagedSound DEF SoundGroup
  <2>2. budget' = budget /\ Idle /\ cr' = [cr EXCEPT !.id = @ \/ id]
    BY <1>3 DEF MarkManaged, Finish, FinishWith
  <2>3. ~cr'.here
    BY <1>1, <1>3, <2>2 DEF CRType
  <2> QED
    BY <2>1, <2>2, <2>3, EndInv
<1>4. CASE MarkUnmanaged
  <2>1. SoundGroup'
    BY <1>1, <1>4, MarkUnmanagedSound DEF SoundGroup
  <2>2. budget' = budget /\ Idle /\ cr' = [cr EXCEPT !.managed = FALSE, !.here = FALSE]
    BY <1>4 DEF MarkUnmanaged
  <2>3. ~cr'.here
    BY <1>1, <2>2 DEF CRType
  <2> QED
    BY <2>1, <2>2, <2>3, EndInv
<1>5. CASE Crash
  <2>1. SoundGroup'
    BY <1>1, <1>5, CrashSound DEF SoundGroup
  <2>2. budget'["drift"] = budget["drift"] /\ Idle /\ queued' = TRUE
    BY <1>1, <1>5, SpendDrift DEF Crash
  <2> QED
    BY <2>1, <2>2, EndInv
<1> QED
  BY <1>2, <1>3, <1>4, <1>5

LEMMA AroundInv ==
  ASSUME Inv, Reconcile \/ Resync \/ EditSpec(Specs) \/ DeleteCR
  PROVE  Inv'
<1>1. SoundGroup /\ cr \in CRType(Content) /\ "edit" \in Misfortunes
  BY DEF Inv, Shape, SoundGroup, Sound, CommonTypes, CRType, Misfortunes
<1>2. CASE Reconcile
  <2>1. SoundGroup' /\ UNCHANGED <<todo, object>> /\ pc' \in {"idle", "read"}
    BY <1>1, <1>2, ReconcileSound DEF SoundGroup, Places
  <2>2. /\ cr' = cr /\ pc = "idle" /\ budget' = budget /\ todo = {}
        /\ pc' = "read" => /\ op' = IF cr.deleting THEN "delete" ELSE "sync"
                           /\ desired' = cr.spec /\ drift' = FALSE
        /\ pc' = "idle" => ~cr.here /\ drift' = drift
    BY <1>2 DEF Reconcile, Inv, Shape
  <2>3. QueueInv'
    BY <2>1, <2>2 DEF Inv, QueueInv, Undisturbed, NothingForgotten
  <2> QED
    BY <2>1, <2>2, <2>3 DEF Inv, Shape, Progress, ReadProgress, UpdateProgress, Reads
<1>3. CASE Resync
  <2>1. SoundGroup'
    BY <1>1, <1>3, ResyncSound DEF SoundGroup
  <2>2. pc = "idle" /\ pc' = "idle" /\ todo' = todo /\ queued' = TRUE /\ drift' = drift
        /\ budget' = budget
    BY <1>3 DEF Resync, copies
  <2> QED
    BY <2>1, <2>2 DEF Inv, Shape, Progress, ReadProgress, UpdateProgress, Reads,
                      QueueInv, Undisturbed, NothingForgotten
<1>4. CASE EditSpec(Specs) \/ DeleteCR
  <2>1. SoundGroup' /\ UNCHANGED <<object, pc, copies, drift>>
    BY <1>1, <1>4, UserSound, GroupAssumption DEF SoundGroup
  <2>2. /\ object' = object /\ pc' = pc /\ drift' = drift /\ queued' = TRUE
        /\ op' = op /\ desired' = desired /\ latest' = latest /\ todo' = todo
    BY <1>4, <2>1 DEF copies, EditSpec, DeleteCR
  <2>3. budget'["drift"] = budget["drift"] /\ (cr.deleting => cr'.deleting)
    BY <1>1, <1>4, SpendDrift DEF EditSpec, DeleteCR
  <2>4. Shape'
    BY <2>1, <2>2 DEF Inv, Shape
  <2>5. Progress'
    BY <2>2 DEF Inv, Progress, Alone, ReadProgress, UpdateProgress, PoliciesProgress,
                InlineProgress, PathProgress, exists
  <2>6. QueueInv'
    BY <2>2, <2>3 DEF Inv, QueueInv, Undisturbed, NothingForgotten
  <2> QED
    BY <2>4, <2>5, <2>6 DEF Inv
<1> QED
  BY <1>2, <1>3, <1>4

LEMMA DriftInv ==
  ASSUME Inv, Drift
  PROVE  Inv'
<1>1. SoundGroup /\ object \in Content \cup {None} /\ budget \in [Misfortunes -> Nat]
      /\ "drift" \in Misfortunes
  BY DEF Inv, Shape, SoundGroup, Sound, CommonTypes, Misfortunes
<1>2. ASSUME NEW o \in Content \cup {None}, Drifts(o)
      PROVE  Inv'
  <2>1. SoundGroup' /\ drift' = TRUE /\ UNCHANGED <<pc, copies>>
    BY <1>1, <1>2, DriftsSound DEF SoundGroup
  <2>2. pc' = pc /\ op' = op /\ desired' = desired /\ latest' = latest /\ todo' = todo
    BY <2>1 DEF copies
  <2>3. budget'["drift"] = budget["drift"] - 1
    BY <1>1, <1>2 DEF Drifts, Spend
  <2>4. budget["drift"] \in Nat /\ Budget["drift"] \in Nat
    BY <1>1, ReconcilerAssumption
  <2>5. QueueInv'
    BY <2>3, <2>4 DEF Inv, QueueInv, Undisturbed
  <2> QED
    BY <2>1, <2>2, <2>5 DEF Inv, Shape, Progress, Alone
<1>3. ASSUME object \in Content
      PROVE  /\ \A P \in SUBSET PolicyARNs : [object EXCEPT !.policies = P] \in Content
             /\ \A p \in Paths : [object EXCEPT !.path = p] \in Content
             /\ \A n \in InlineNames, doc \in Maybe(Docs \ BadDocs) :
                    [object EXCEPT !.inline[n] = doc] \in Content
  <2>1. \A n \in InlineNames, doc \in Maybe(Docs \ BadDocs) :
            [object.inline EXCEPT ![n] = doc] \in [InlineNames -> Maybe(Docs)]
    BY <1>3, ContentTypes DEF Maybe
  <2> QED
    BY <1>3, <2>1 DEF Content, Maybe
<1> QED
  BY <1>1, <1>2, <1>3 DEF Drift, exists

LEMMA InvInit ==
  ASSUME Init(Specs)
  PROVE  Inv
<1>1. SoundGroup
  BY InitSound, GroupAssumption DEF SoundGroup
<1>2. budget["drift"] = Budget["drift"] /\ Budget["drift"] \in Nat
  BY ReconcilerAssumption DEF Init, Misfortunes
<1> QED
  BY <1>1, <1>2 DEF Init, Inv, Shape, Progress, ReadProgress, UpdateProgress, Reads, QueueInv,
                    NothingForgotten

LEMMA InvNext ==
  ASSUME Inv, [Next]_vars
  PROVE  Inv'
<1>1. CASE UNCHANGED vars
  <2>1. /\ cr' = cr /\ cond' = cond /\ queued' = queued /\ object' = object /\ pc' = pc
        /\ op' = op /\ id' = id /\ desired' = desired /\ latest' = latest /\ todo' = todo
        /\ drift' = drift /\ budget' = budget
    BY <1>1 DEF vars
  <2>2. Shape'
    BY <2>1 DEF Inv, Shape, SoundGroup, Sound, CommonTypes
  <2>3. Progress'
    BY <2>1 DEF Inv, Progress, Alone, ReadProgress, UpdateProgress, PoliciesProgress,
                InlineProgress, PathProgress, exists
  <2>4. QueueInv'
    BY <2>1 DEF Inv, QueueInv, Undisturbed, NothingForgotten, Matches, exists
  <2> QED
    BY <2>2, <2>3, <2>4 DEF Inv
<1> QED
  BY <1>1, GetGroupInv, ListAttachedInv, ListInlineInv, GetPolicyInv, AttachInv, DetachInv, PutInv,
     DeleteInlineInv, UpdateGroupInv, CreateInv, LateInitializeInv, PatchInv, DeleteInv, FinalizerInv,
     AroundInv, DriftInv
     DEF Next, Controller, ReadOne, Update, Environment

LEMMA Invariant == Spec => []Inv
<1> QED
  BY InvInit, InvNext, PTL DEF Spec

\* The variables keep their types, and there are calls left to make exactly while policies
\* are read or an update is under way.
THEOREM TypeCorrect == Spec => []TypeOK
<1>1. Inv => TypeOK
  BY DEF Inv, Shape, SoundGroup, Sound, TypeOK
<1> QED
  BY <1>1, Invariant, PTL

\* No update takes a policy away before all that the new spec gives are attached
\* (the two loops of syncManagedPolicies).
THEOREM PoliciesKept == Spec => []PoliciesNeverDip
<1>1. Inv => PoliciesNeverDip
  <2> SUFFICES ASSUME Inv, pc = "update", op = "sync", exists, ~drift
               PROVE  latest.policies \subseteq object.policies
                      \/ desired.policies \subseteq object.policies
    BY DEF PoliciesNeverDip
  <2>1. PoliciesProgress /\ desired \in Content
    BY UpdateTypes DEF Alone
  <2>2. desired.policies \subseteq PolicyARNs
    BY <2>1, ContentTypes
  <2> QED
    BY <2>1, <2>2 DEF PoliciesProgress
<1> QED
  BY <1>1, Invariant, PTL

\* A CR leaves the queue, as long as nobody else touches its group, only when the group is
\* what it says or its spec is refused: not after a creation, an edit that came while it
\* was reconciled, a call that failed, a lost patch or a crash.
THEOREM NeverForgotten == Spec => []NothingForgotten
<1>1. Inv => NothingForgotten
  BY DEF Inv, QueueInv, Undisturbed, NothingForgotten
<1> QED
  BY <1>1, Invariant, PTL

-----------------------------------------------------------------------------
(* Group implements Lifecycle.                                             *)

InvLife == Inv /\ LifeInv("deleteGroup")

LEMMA LifeTypes ==
  ASSUME InvLife
  PROVE  /\ LifeInv("deleteGroup") /\ cr \in CRType(Content) /\ cr.spec \in Content
         /\ cond \in Outcomes /\ ByName /\ (exists => object \in Content)
         /\ {"Unsynced", "Synced", "Recoverable", "Terminal"} \subseteq Outcomes
  BY GroupAssumption DEF InvLife, Inv, Shape, SoundGroup, Sound, CommonTypes, CRType, Outcomes, exists

LEMMA RefusedLife ==
  ASSUME InvLife, CallFails \/ Refused("Recoverable") \/ \E code : Refused(terminalAWSError(code))
  PROVE  LifeInv("deleteGroup")' /\ Mapped
<1>1. CallFails \/ \E o \in Outcomes : Refused(o)
  BY LifeTypes, CodeOutcome
<1>2. "deleteGroup" # "idle"
  OBVIOUS
<1> QED
  BY <1>1, <1>2, LifeTypes, FinishLife

LEMMA GroupGoesOn ==
  ASSUME InvLife, pc # "idle", NEW q, Goto(q), UNCHANGED <<op, id>>, exists' = exists,
         q \in Reads \cup {"patch"} \/ \E calls : q = After(calls)
  PROVE  LifeInv("deleteGroup")' /\ Mapped
<1>1. q \notin {"manage", "create", "unmanage"} /\ (q = "deleteGroup" => op = "delete")
  BY DEF After, Reads
<1> QED
  BY <1>1, LifeTypes, GoesOnLife

LEMMA ReadLife ==
  ASSUME InvLife, ReadOne
  PROVE  LifeInv("deleteGroup")' /\ Mapped
<1>1. ASSUME NEW l, NEW pending, Read(l, pending), pc # "idle"
      PROVE  LifeInv("deleteGroup")' /\ Mapped
  <2>1. UNCHANGED <<op, id>> /\ exists' = exists
    BY <1>1 DEF Read, exists
  <2>2. Goto("readInline") \/ \E calls : Goto(After(calls))
    BY <1>1 DEF Read
  <2> QED
    BY <1>1, <2>1, <2>2, GroupGoesOn DEF Reads
<1>2. CASE GetGroup
  <2>1. CASE ~exists /\ NotFound
    BY <1>2, <2>1, LifeTypes, NotFoundLife DEF GetGroup
  <2>2. CASE Goto("listPolicies") /\ UNCHANGED <<object, op, id, desired, todo>>
    BY <1>2, <2>2, GroupGoesOn DEF GetGroup, Reads, exists
  <2> QED
    BY <1>2, <2>1, <2>2, RefusedLife DEF GetGroup
<1>3. CASE ListAttachedGroupPolicies
  <2>1. CASE Goto("listInline") /\ UNCHANGED <<object, op, id, desired, todo>>
    BY <1>3, <2>1, GroupGoesOn DEF ListAttachedGroupPolicies, Reads, exists
  <2> QED
    BY <1>3, <2>1, RefusedLife DEF ListAttachedGroupPolicies
<1>4. CASE ListGroupPolicies
  BY <1>1, <1>4, RefusedLife DEF ListGroupPolicies
<1>5. CASE GetGroupPolicy
  BY <1>1, <1>5, RefusedLife DEF GetGroupPolicy
<1> QED
  BY <1>2, <1>3, <1>4, <1>5 DEF ReadOne

\* No call of an update makes a group come or go.
LEMMA AttemptLife ==
  ASSUME InvLife, NEW call, NEW condition, NEW o, NEW code, Attempt(call, condition, o, code),
         pc = "update" /\ exists /\ condition /\ call \in todo => o \in Content
  PROVE  LifeInv("deleteGroup")' /\ Mapped
<1>1. pc = "update" /\ call \in todo
  BY DEF Attempt, Due
<1>2. CASE exists /\ condition /\ object' = o /\ Goto(After(todo \ {call})) /\ UNCHANGED <<op, id>>
  <2>1. object' # None
    BY <1>1, <1>2, GroupAssumption
  <2>2. exists' = exists
    BY <1>2, <2>1 DEF exists
  <2> QED
    BY <1>1, <1>2, <2>2, GroupGoesOn
<1> QED
  BY <1>2, RefusedLife DEF Attempt

LEMMA UpdateLife ==
  ASSUME InvLife, Update
  PROVE  LifeInv("deleteGroup")' /\ Mapped
<1>1. ASSUME exists
      PROVE  /\ \A P \in SUBSET PolicyARNs : [object EXCEPT !.policies = P] \in Content
             /\ \A p \in Paths : [object EXCEPT !.path = p] \in Content
             /\ \A n \in InlineNames, doc \in Maybe(Docs) :
                    [object EXCEPT !.inline[n] = doc] \in Content
             /\ object.policies \subseteq PolicyARNs /\ object \in Content
  <2>1. object \in Content
    BY <1>1, LifeTypes
  <2>2. \A n \in InlineNames, doc \in Maybe(Docs) :
            [object.inline EXCEPT ![n] = doc] \in [InlineNames -> Maybe(Docs)]
    BY <2>1, ContentTypes
  <2> QED
    BY <2>1, <2>2 DEF Content, Maybe
<1>2. CASE AttachGroupPolicy
  <2>1. PICK p \in PolicyARNs :
            Attempt(<<"AttachGroupPolicy", p>>, Cardinality(object.policies \cup {p}) <= Quota,
                    [object EXCEPT !.policies = object.policies \cup {p}], "LimitExceeded")
    BY <1>2 DEF AttachGroupPolicy
  <2>2. exists => [object EXCEPT !.policies = object.policies \cup {p}] \in Content
    BY <1>1
  <2> QED
    BY <2>1, <2>2, AttemptLife
<1>3. CASE DetachGroupPolicy
  <2>1. PICK p \in PolicyARNs :
            Attempt(<<"DetachGroupPolicy", p>>, p \in object.policies,
                    [object EXCEPT !.policies = object.policies \ {p}], "NoSuchEntity")
    BY <1>3 DEF DetachGroupPolicy
  <2>2. exists => [object EXCEPT !.policies = object.policies \ {p}] \in Content
    BY <1>1
  <2> QED
    BY <2>1, <2>2, AttemptLife
<1>4. CASE PutGroupPolicy
  <2>1. PICK n \in InlineNames :
            Attempt(<<"PutGroupPolicy", n>>, Unescape[desired.inline[n]] \notin BadDocs \cup {None},
                    [object EXCEPT !.inline[n] = Unescape[desired.inline[n]]],
                    IF Unescape[desired.inline[n]] = None THEN "EscapeError"
                    ELSE "MalformedPolicyDocument")
    BY <1>4 DEF PutGroupPolicy
  <2>2. ASSUME pc = "update", <<"PutGroupPolicy", n>> \in todo
        PROVE  Unescape[desired.inline[n]] \in Maybe(Docs)
    <3>1. desired.inline[n] # None
      BY <2>2 DEF InvLife, Inv, Shape
    <3>2. desired \in Content
      BY <2>2 DEF InvLife, Inv, Shape, SoundGroup, Sound
    <3>3. desired.inline[n] \in Docs
      BY <3>1, <3>2, ContentTypes DEF Maybe
    <3> QED
      BY <3>3, GroupAssumption
  <2>3. pc = "update" /\ exists /\ <<"PutGroupPolicy", n>> \in todo =>
            [object EXCEPT !.inline[n] = Unescape[desired.inline[n]]] \in Content
    BY <1>1, <2>2
  <2> QED
    BY <2>1, <2>3, AttemptLife
<1>5. CASE DeleteGroupPolicy
  <2>1. PICK n \in InlineNames :
            Attempt(<<"DeleteGroupPolicy", n>>, object.inline[n] # None,
                    [object EXCEPT !.inline[n] = None], "NoSuchEntity")
    BY <1>5 DEF DeleteGroupPolicy
  <2>2. exists => [object EXCEPT !.inline[n] = None] \in Content
    BY <1>1 DEF Maybe
  <2> QED
    BY <2>1, <2>2, AttemptLife
<1>6. CASE UpdateGroup
  <2>1. PICK p \in Maybe(Paths) :
            Attempt(<<"UpdateGroup", p>>, TRUE,
                    [object EXCEPT !.path = IF p = None THEN object.path ELSE p], "NoSuchEntity")
    BY <1>6 DEF UpdateGroup
  <2>2. exists => [object EXCEPT !.path = IF p = None THEN object.path ELSE p] \in Content
    BY <1>1 DEF Content, Maybe
  <2> QED
    BY <2>1, <2>2, AttemptLife
<1> QED
  BY <1>2, <1>3, <1>4, <1>5, <1>6 DEF Update

LEMMA OtherCallsLife ==
  ASSUME InvLife, CreateGroup \/ LateInitialize \/ PatchCR \/ DeleteGroup
  PROVE  LifeInv("deleteGroup")' /\ Mapped
<1>1. CASE CreateGroup
  <2>1. CASE /\ object' = [policies |-> {}, inline |-> NoInline,
                           path |-> IF desired.path = None THEN DefaultPath ELSE desired.path]
             /\ op' = "create" /\ Goto("lateInit") /\ id' = id
    <3>1. desired.path \in Maybe(Paths) /\ pc = "create"
      BY <1>1, ContentTypes DEF CreateGroup, InvLife, Inv, Shape, SoundGroup, Sound
    <3>2. object' \in Content
      BY <2>1, <3>1, GroupAssumption DEF Content, NoInline, Maybe
    <3>3. exists'
      BY <3>2, GroupAssumption DEF exists
    <3> QED
      BY <2>1, <3>1, <3>3, LifeTypes, CreateLife
  <2> QED
    BY <1>1, <2>1, RefusedLife DEF CreateGroup
<1>2. CASE LateInitialize
  <2>1. CASE Goto("patch") /\ UNCHANGED <<object, op, id, desired, todo>>
    BY <1>2, <2>1, GroupGoesOn DEF LateInitialize, exists
  <2> QED
    BY <1>2, <2>1, RefusedLife DEF LateInitialize
<1>3. CASE PatchCR
  <2> DEFINE s == IF desired.path # None THEN cr.spec ELSE [cr.spec EXCEPT !.path = latest.path]
  <2>1. latest \in Content
    BY <1>3 DEF PatchCR, Patch, InvLife, Inv, Shape
  <2>2. s \in Content
    BY <2>1, LifeTypes DEF Content
  <2>3. \E o \in Outcomes : Patch(o, s)
    BY <1>3, LifeTypes DEF PatchCR
  <2> HIDE DEF s
  <2>4. "deleteGroup" # "idle"
    OBVIOUS
  <2> QED
    BY <2>2, <2>3, <2>4, LifeTypes, FinishLife
<1>4. CASE DeleteGroup
  <2>1. CASE exists /\ Answered(None, "unmanage")
    BY <1>4, <2>1, LifeTypes, DeleteLife DEF DeleteGroup
  <2> QED
    BY <1>4, <2>1, RefusedLife DEF DeleteGroup
<1> QED
  BY <1>1, <1>2, <1>3, <1>4

LEMMA StepLife == InvLife /\ [Next]_vars => InvLife' /\ Mapped
<1> SUFFICES ASSUME InvLife, [Next]_vars
             PROVE  LifeInv("deleteGroup")' /\ Mapped
  BY InvNext DEF InvLife
<1>1. "deleteGroup" \notin {"idle", "read", "create"}
  OBVIOUS
<1>2. CASE Reconcile \/ Resync
  BY <1>1, <1>2, LifeTypes, ReconcileLife
<1>3. CASE MarkManaged \/ MarkUnmanaged
  BY <1>1, <1>3, LifeTypes, FinalizerLife
<1>4. CASE Crash
  BY <1>1, <1>4, LifeTypes, FinishLife
<1>5. CASE EditSpec(Specs) \/ DeleteCR
  BY <1>1, <1>5, LifeTypes, UserLife
<1>6. CASE Drift
  BY <1>6, LifeTypes, DriftsLife DEF Drift
<1>7. CASE UNCHANGED vars
  <2>1. /\ cr' = cr /\ pc' = pc /\ id' = id /\ op' = op /\ object' = object
    BY <1>7 DEF vars
  <2> QED
    BY <2>1, LifeTypes DEF LifeInv, Mapped, LifeVars, known, exists
<1> QED
  BY <1>2, <1>3, <1>4, <1>5, <1>6, <1>7, ReadLife, UpdateLife, OtherCallsLife
     DEF Next, Controller, Environment

\* The detailed manager implements the abstract life cycle: a group is created only for a CR
\* with the finalizer, which goes only after the group.
THEOREM GroupImplementsLifecycle == Spec => ImplementsLifecycle
<1>1. Init(Specs) => InvLife /\ L!Init
  BY InvInit, InitLife, GroupAssumption DEF InvLife
<1>2. InvLife /\ [Next]_vars => InvLife' /\ [L!Next]_(L!vars)
  BY StepLife DEF Mapped, LifeVars, L!vars
<1> QED
  BY <1>1, <1>2, PTL DEF Spec, ImplementsLifecycle, L!Spec
=============================================================================
