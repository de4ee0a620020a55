--------------------------- MODULE MCLivePipeline ---------------------------
(* Two sources, so that a third generation returns to the first source.     *)
EXTENDS LivePipeline
=============================================================================
