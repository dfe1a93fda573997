-------------------------- MODULE MCManagerFactory --------------------------
(* A small instance of ManagerFactory for TLC. *)
EXTENDS ManagerFactory

CONSTANTS w1, w2, w3
=============================================================================
