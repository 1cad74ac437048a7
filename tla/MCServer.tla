------------------------------ MODULE MCServer ------------------------------
(* Instances of Server for TLC. *)
EXTENDS Server, TLC

\* The sockets are interchangeable: no definition names one of them.
ClientSymmetry == Permutations(Client)
=============================================================================
