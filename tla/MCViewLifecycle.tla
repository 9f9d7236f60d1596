--------------------------- MODULE MCViewLifecycle ---------------------------
(* TLC instance of ViewLifecycle; the windows are interchangeable, which only
   the runs without a liveness property may use. *)
EXTENDS ViewLifecycle, TLC

WindowSymmetry == Permutations(Window)
=============================================================================
