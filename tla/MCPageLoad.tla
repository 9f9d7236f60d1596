------------------------------ MODULE MCPageLoad ------------------------------
(* TLC instance of PageLoad; the addresses are interchangeable, which
   only the runs without a liveness property may use. *)
EXTENDS PageLoad, TLC

UrlSymmetry == Permutations(Url)
=============================================================================
