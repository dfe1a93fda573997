--------------------------- MODULE ManagerFactory ---------------------------
(***************************************************************************)
(* resourceManagerFactory.ManagerFor (src/pkg/resource/role; the factories *)
(* of the other kinds are the same generated code): reconcile workers ask  *)
(* for the resource manager of an account/region/role combination.  The    *)
(* cache is looked up under the read lock of an RWMutex, which is let go   *)
(* before the write lock is taken to build and store a missing manager.    *)
(*                                                                         *)
(* sync.RWMutex is modelled by what its documentation promises: a writer   *)
(* excludes everybody, and a waiting writer holds off new readers.         *)
(*                                                                         *)
(* The names that every specification has begin with MF here, so that a    *)
(* module may extend this one next to another.                             *)
(***************************************************************************)
EXTENDS Naturals, FiniteSets

CONSTANTS
    Workers,    \* goroutines that reconcile
    Ids,        \* account/region/roleARN combinations
    MaxCalls    \* bound: calls that a worker makes

ASSUME ConstantsAssumption ==
    MaxCalls \in Nat /\ Workers # {} /\ Ids # {} /\ IsFiniteSet(Workers)

VARIABLES
    rmCache,    \* id -> the serial number of its manager, 0 when there is none
    built,      \* id -> how many managers have been built for it
    readers,    \* workers inside the read lock
    writer,     \* workers inside the write lock
    stage,      \* where each worker is
    rmId,       \* what each worker asks for
    calls       \* how many calls each worker has made

MFvars == <<rmCache, built, readers, writer, stage, rmId, calls>>

MFPlaces == {"idle", "rlock", "lookup", "lock", "waiting", "build"}

MFTypeOK ==
    /\ rmCache \in [Ids -> Nat]
    /\ built \in [Ids -> Nat]
    /\ stage \in [Workers -> MFPlaces]
    /\ readers = {w \in Workers : stage[w] = "lookup"}
    /\ writer = {w \in Workers : stage[w] = "build"}
    /\ rmId \in [Workers -> Ids]
    /\ calls \in [Workers -> Nat]

MFInit ==
    /\ rmCache = [i \in Ids |-> 0]
    /\ built = [i \in Ids |-> 0]
    /\ readers = {} /\ writer = {}
    /\ stage = [w \in Workers |-> "idle"]
    /\ rmId = [w \in Workers |-> CHOOSE i \in Ids : TRUE]
    /\ calls = [w \in Workers |-> 0]

MoveTo(w, p) == stage' = [stage EXCEPT ![w] = p]

\* A reconcile begins for a CR of some account, region and role.
Call(w) ==
    /\ stage[w] = "idle"
    /\ calls[w] < MaxCalls
    /\ calls' = [calls EXCEPT ![w] = @ + 1]
    /\ \E i \in Ids : rmId' = [rmId EXCEPT ![w] = i]
    /\ MoveTo(w, "rlock")
    /\ UNCHANGED <<rmCache, built, readers, writer>>

RLock(w) ==
    /\ stage[w] = "rlock"
    /\ writer = {}
    /\ \A o \in Workers : stage[o] # "waiting"
    /\ readers' = readers \cup {w}
    /\ MoveTo(w, "lookup")
    /\ UNCHANGED <<rmCache, built, writer, rmId, calls>>

Lookup_NoRUnlock(w) ==  \* mutant: the read lock is let go on the early return only
    /\ stage[w] = "lookup"
    /\ IF rmCache[rmId[w]] # 0
       THEN readers' = readers \ {w} /\ MoveTo(w, "idle")
       ELSE MoveTo(w, "lock") /\ UNCHANGED readers
    /\ UNCHANGED <<rmCache, built, writer, rmId, calls>>

Lookup(w) ==
    /\ stage[w] = "lookup"
    /\ readers' = readers \ {w}
    /\ IF rmCache[rmId[w]] # 0
       THEN MoveTo(w, "idle")     \* the manager found is returned
       ELSE MoveTo(w, "lock")
    /\ UNCHANGED <<rmCache, built, writer, rmId, calls>>

\* Lock is called: from now on new readers are held off.
AskLock(w) ==
    /\ stage[w] = "lock"
    /\ MoveTo(w, "waiting")
    /\ UNCHANGED <<rmCache, built, readers, writer, rmId, calls>>

Lock(w) ==
    /\ stage[w] = "waiting"
    /\ readers = {} /\ writer = {}
    /\ writer' = {w}
    /\ MoveTo(w, "build")
    /\ UNCHANGED <<rmCache, built, readers, rmId, calls>>

Build_NotStored(w) ==  \* mutant: the new manager is not put into the cache
    /\ stage[w] = "build"
    /\ built' = [built EXCEPT ![rmId[w]] = @ + 1]
    /\ writer' = {}
    /\ MoveTo(w, "idle")
    /\ UNCHANGED <<rmCache, readers, rmId, calls>>

Build_NoUnlock(w) ==  \* mutant: without the deferred Unlock
    /\ stage[w] = "build"
    /\ built' = [built EXCEPT ![rmId[w]] = @ + 1]
    /\ rmCache' = [rmCache EXCEPT ![rmId[w]] = built'[rmId[w]]]
    /\ MoveTo(w, "idle")
    /\ UNCHANGED <<readers, writer, rmId, calls>>

\* The manager is built without another look at the cache.
Build(w) ==
    /\ stage[w] = "build"
    /\ built' = [built EXCEPT ![rmId[w]] = @ + 1]
    /\ rmCache' = [rmCache EXCEPT ![rmId[w]] = built'[rmId[w]]]
    /\ writer' = {}
    /\ MoveTo(w, "idle")
    /\ UNCHANGED <<readers, rmId, calls>>

Inside(w) == RLock(w) \/ Lookup(w) \/ AskLock(w) \/ Lock(w) \/ Build(w)

MFNext == \E w \in Workers : Call(w) \/ Inside(w)

MFSpec == MFInit /\ [][MFNext]_MFvars

\* A goroutine that is inside ManagerFor goes on when it can; nobody is bound to call.
MFFairSpec == MFSpec /\ \A w \in Workers : WF_MFvars(Inside(w))

-----------------------------------------------------------------------------
(* Properties.                                                             *)

\* However the calls interleave, no more managers are built for a combination than there
\* are workers: two workers that both miss may build one each, but what is once stored
\* is found from then on.
AtMostOnePerWorker == \A i \in Ids : built[i] <= Cardinality(Workers)

\* Every call returns: the two locks leave nobody waiting for ever.
CallsReturn == \A w \in Workers : stage[w] # "idle" ~> stage[w] = "idle"
=============================================================================
