------------------------------- MODULE MCServer -------------------------------
(***************************************************************************)
(* Model values for Server: clients are interchangeable.                   *)
(***************************************************************************)
EXTENDS Server, TLC

AllFaults == FaultKinds

MCSymmetry == Permutations(Clients)
===============================================================================
