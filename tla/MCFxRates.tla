------------------------------ MODULE MCFxRates ------------------------------
EXTENDS FxRates, TLC

CONSTANTS r1, r2, r3, NGN_USD

(* Lookups only name themselves.                                           *)
LookupSymmetry == Permutations(Lookups)
=============================================================================
