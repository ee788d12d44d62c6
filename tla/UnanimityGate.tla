---------------------------- MODULE UnanimityGate ----------------------------
(***************************************************************************)
(* What the egress proxy promises the members of a session: their calls    *)
(* are compared in step, the n-th calls of all of them are decided on once *)
(* everyone has made an n-th call, they are approved exactly if all are    *)
(* the same, and each member learns the decision on each of its calls, in  *)
(* the order of its calls.                                                 *)
(***************************************************************************)
EXTENDS Naturals, Sequences

CONSTANTS Sessions, Services, Contents

VARIABLES
    members, \* the services of each session, none before it opens
    asked,   \* the calls of each member, in order
    decided, \* for each session, whether its n-th calls were approved
    told     \* the decision each call of a member was answered with

gateVars == <<members, asked, decided, told>>

GateInit ==
    /\ members = [g \in Sessions |-> {}]
    /\ asked   = [g \in Sessions |-> [s \in Services |-> <<>>]]
    /\ decided = [g \in Sessions |-> <<>>]
    /\ told    = [g \in Sessions |-> [s \in Services |-> <<>>]]

Open(g, services) ==
    /\ members[g] = {} /\ services # {}
    /\ members' = [members EXCEPT ![g] = services]
    /\ UNCHANGED <<asked, decided, told>>

Ask(g, s, x) ==
    /\ s \in members[g]
    /\ asked' = [asked EXCEPT ![g][s] = Append(@, x)]
    /\ UNCHANGED <<members, decided, told>>

Decide(g) ==
    LET n == Len(decided[g]) + 1
    IN  /\ members[g] # {}
        /\ \A s \in members[g] : n <= Len(asked[g][s])
        /\ decided' = [decided EXCEPT ![g] =
              Append(@, \A s, t \in members[g] : asked[g][s][n] = asked[g][t][n])]
        /\ UNCHANGED <<members, asked, told>>

Tell(g, s) ==
    /\ s \in members[g]
    /\ Len(told[g][s]) < Len(decided[g])
    /\ told' = [told EXCEPT ![g][s] = Append(@, Len(@) + 1)]
    /\ UNCHANGED <<members, asked, decided>>

GateNext ==
    \E g \in Sessions :
        \/ \E S \in SUBSET Services : Open(g, S)
        \/ \E s \in Services, x \in Contents : Ask(g, s, x)
        \/ Decide(g)
        \/ \E s \in Services : Tell(g, s)

GateSpec == GateInit /\ [][GateNext]_gateVars
=============================================================================
