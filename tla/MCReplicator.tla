----------------------------- MODULE MCReplicator -----------------------------
(***************************************************************************)
(* What the runs of Replicator let go wrong and let statistics show.       *)
(***************************************************************************)
EXTENDS Replicator

AllFaults == FaultKinds

AllReports == {"running", "receiving"}

\* "running" repeats what LoopEnters has sent: safety runs on two calls leave it out.
ReceivingOnly == {"receiving"}
=============================================================================
