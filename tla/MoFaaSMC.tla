------------------------------ MODULE MoFaaSMC ------------------------------
(* Instances of a MoFaaS function for TLC. *)
EXTENDS MoFaaS, TLC

CONSTANTS s1, s2, s3, x1, x2

PairEitherOrder == {<<s1, s2>>, <<s2, s1>>}
AnyPair == {<<s, t>> : s, t \in Services} \ {<<s, s>> : s \in Services}

TwoCalls == <<x1, x2>>
OneCall == <<x1>>
=============================================================================
