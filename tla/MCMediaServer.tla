----------------------------- MODULE MCMediaServer -----------------------------
(***************************************************************************)
(* What the runs of MediaServer let go wrong.                              *)
(***************************************************************************)
EXTENDS MediaServer

AllFaults == FaultKinds
===============================================================================
