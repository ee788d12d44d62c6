---------------------------- MODULE EgressProxyMC ----------------------------
(* Instances of the egress proxy for TLC. *)
EXTENDS EgressProxyGate, EgressProxyInv, TLC

CONSTANTS s1, s2, s3

(* What random.sample may draw. *)
Pair == {<<s1, s2>>}
PairOfThree == {<<s1, s2>>, <<s2, s3>>}
PairOrTriple == {<<s2, s1>>, <<s1, s2, s3>>}

Symmetry == Permutations(Calls) \cup Permutations(Sessions) \cup Permutations(Contents)
            \cup Permutations(Ids)
=============================================================================
