--------------------------- MODULE MCTokenScraper ---------------------------
(***************************************************************************)
(* TokenScraper on small sets of pairs. Pairs are interchangeable, so the  *)
(* safety runs reduce the state space by their permutations; the runs of   *)
(* liveness properties do not.                                             *)
(***************************************************************************)
EXTENDS TokenScraper, TLC

PairSymmetry == Permutations(Pairs)
=============================================================================
