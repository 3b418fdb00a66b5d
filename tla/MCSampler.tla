----------------------------- MODULE MCSampler -----------------------------
(***************************************************************************)
(* TLC instance of Sampler: threads that decide and ask for statistics at  *)
(* the same time, while seconds pass.                                      *)
(***************************************************************************)
EXTENDS Sampler, TLC

Symmetry == Permutations(Threads)
=============================================================================
