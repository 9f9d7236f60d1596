--------------------------- MODULE MCFramePipeline ---------------------------
(* TLC instance of FramePipeline; the buffers are interchangeable. *)
EXTENDS FramePipeline, TLC

ImageSymmetry == Permutations(Image)
=============================================================================
