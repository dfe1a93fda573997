------------------------------ MODULE Lifecycle ------------------------------
(***************************************************************************)
(* What every resource kind of the controller promises about the life of   *)
(* one custom resource (CR) and of the IAM object that it stands for:      *)
(*                                                                         *)
(*   - the IAM object is created only for a CR that carries the            *)
(*     controller's finalizer (MarkManaged),                               *)
(*   - the finalizer is taken off (MarkUnmanaged), and Kubernetes lets the *)
(*     CR go, only once the IAM object is gone.                            *)
(*                                                                         *)
(* The detailed modules implement this one under a refinement mapping;     *)
(* nothing here says how the object is found, filled in or emptied.        *)
(***************************************************************************)

VARIABLES
    here,       \* the CR is stored in Kubernetes
    managed,    \* the CR carries the controller's finalizer
    deleting,   \* a user asked Kubernetes to delete the CR
    exists      \* the IAM object exists

vars == <<here, managed, deleting, exists>>

Init == here = TRUE /\ managed = FALSE /\ deleting = FALSE /\ exists = FALSE

\* The finalizer is put on the CR.
Claim ==
    /\ here /\ ~managed /\ ~deleting
    /\ managed' = TRUE
    /\ UNCHANGED <<here, deleting, exists>>

\* The IAM object comes to be.
Create ==
    /\ here /\ managed /\ ~exists
    /\ exists' = TRUE
    /\ UNCHANGED <<here, managed, deleting>>

\* The IAM object is deleted, by the controller or behind its back.
Destroy ==
    /\ exists
    /\ exists' = FALSE
    /\ UNCHANGED <<here, managed, deleting>>

\* A user deletes the CR; without a finalizer it is gone at once.
AskDelete ==
    /\ here /\ ~deleting
    /\ deleting' = managed
    /\ here' = managed
    /\ UNCHANGED <<managed, exists>>

\* The finalizer is taken off and Kubernetes removes the CR.
Release ==
    /\ here /\ managed /\ deleting /\ ~exists
    /\ managed' = FALSE
    /\ here' = FALSE
    /\ UNCHANGED <<deleting, exists>>

Next == Claim \/ Create \/ Destroy \/ AskDelete \/ Release

Spec == Init /\ [][Next]_vars
==============================================================================
