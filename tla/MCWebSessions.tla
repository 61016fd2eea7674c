----------------------------- MODULE MCWebSessions -----------------------------
(***************************************************************************)
(* Model values for WebSessions: sessions and requests are interchangeable *)
(***************************************************************************)
EXTENDS WebSessions, TLC

MCSymmetry == Permutations(Sessions) \union Permutations(Requests)
================================================================================
