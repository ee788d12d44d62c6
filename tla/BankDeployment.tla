---------------------------- MODULE BankDeployment ----------------------------
(***************************************************************************)
(* The bank with what is computed before it runs, the Envoy configuration  *)
(* of its sidecars, and with the way replies are compared.                 *)
(***************************************************************************)
EXTENDS Bank, EnvoyAddress, VerifyResponses

(* Enough replies are compared for every draw that succeeds. *)
ASSUME RepliesAssumption ==
    /\ MaxReplies \in Nat
    /\ \A r \in Resources :
          r.concurrency \in 1 .. Cardinality(Choosable(r)) => r.concurrency <= MaxReplies

(* The verdict of the chooser is that all bodies agree, and all headers    *)
(* that are not to be ignored, so it does not depend on which variant is   *)
(* first: whatever headers come with the replies, if they write their      *)
(* names alike (chooser.py:97-125).                                        *)
VerdictIsAgreement ==
    pc = "closing" =>
        LET chosen == attempt[session].chosen
        IN  \A headers \in UniformHeaders[Len(chosen)] :
                VerifyReplies([i \in DOMAIN chosen |->
                                  [body |-> attempt[session].reply[chosen[i]], headers |-> headers[i]]])
                    <=> attempt[session].verified /\ headers \in AgreeingHeaders[Len(chosen)]

(* The calls of several variants are compared, none goes past the egress   *)
(* proxy because a part of the Envoy configuration was skipped when its    *)
(* address was put there (envoy_utils.go:27-66, 75-154).                   *)
RoutedToEgress ==
    resource.concurrency > 1 /\ (\E s \in VariantNames : asked[session][s] # <<>>) => Routed
=============================================================================
