----------------------------- MODULE MCRenderCache -----------------------------
(* RenderCache for TLC: keys and values are interchangeable. *)
EXTENDS RenderCache, TLC

Symmetry == Permutations(Keys) \cup Permutations(Values)
===============================================================================
