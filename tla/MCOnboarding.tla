----------------------------- MODULE MCOnboarding -----------------------------
EXTENDS Onboarding, TLC

CONSTANTS NG, GB, US, g1, g2, v1, v2, lagos, leeds, ada, ben

(* Ada and Ben may share a number, register twice, or give one of a        *)
(* country that is not seeded.                                             *)
MCCountryOf == (lagos :> NG) @@ (leeds :> GB)

MCForms ==
  {[email |-> p, name |-> p, phone |-> n] : p \in {ada, ben}, n \in {lagos, leeds}}

RequestSymmetry ==
  Permutations({g1, g2}) \cup Permutations({v1, v2}) \cup Permutations({ada, ben})
=============================================================================
