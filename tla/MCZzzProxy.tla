----------------------------- MODULE MCZzzProxy -----------------------------
(* The model-checking instance of ZzzProxy.  The connections of Allowed are  *)
(* interchangeable.                                                          *)
EXTENDS ZzzProxy, TLC
ConnSymmetry == Permutations(Allowed)
=============================================================================
