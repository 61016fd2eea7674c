---------------------------- MODULE MCDestinations ----------------------------
(***************************************************************************)
(* Model values for Destinations: IDs and URLs are interchangeable.        *)
(***************************************************************************)
EXTENDS Destinations, TLC

MCSymmetry == Permutations(IDs) \union Permutations(URLs)
MCURLSymmetry == Permutations(URLs)
=============================================================================
