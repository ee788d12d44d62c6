--------------------------- MODULE EgressProxyGate ---------------------------
(***************************************************************************)
(* The egress proxy as an implementation of UnanimityGate.  It is one when *)
(* no id is started twice and every variant waits for the answer to a call *)
(* before it makes the next; EgressProxy shows what is left otherwise.     *)
(***************************************************************************)
EXTENDS EgressProxy

Answered(g, s) == {i \in DOMAIN accepted[g][s] : handler[accepted[g][s][i]].pc = "answered"}

GateMembers == [g \in Sessions |-> ServicesOf(g)]
GateAsked   == [g \in Sessions |-> [s \in Services |->
                  [i \in DOMAIN accepted[g][s] |-> handler[accepted[g][s][i]].content]]]
GateDecided == [g \in Sessions |-> [n \in DOMAIN rounds[g] |-> rounds[g][n].forwarded]]
GateTold    == [g \in Sessions |-> [s \in Services |->
                  [i \in 1 .. Cardinality(Answered(g, s)) |->
                     handler[accepted[g][s][i]].answer.nth]]]

Gate == INSTANCE UnanimityGate WITH
    members <- GateMembers, asked <- GateAsked, decided <- GateDecided, told <- GateTold

(* Rounds, verdicts and answers of the proxy are those of a gate, whatever *)
(* starts, stops, failures and interleavings of handlers and loops occur   *)
(* (proxy_handler and handle_requests).                                    *)
ImplementsGate == Gate!GateSpec
=============================================================================
