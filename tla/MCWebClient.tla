------------------------------ MODULE MCWebClient ------------------------------
(***************************************************************************)
(* Model values for WebClient.                                             *)
(***************************************************************************)
EXTENDS WebClient
===============================================================================
