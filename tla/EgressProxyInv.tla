---------------------------- MODULE EgressProxyInv ----------------------------
(***************************************************************************)
(* What every state of the egress proxy satisfies besides its types: how   *)
(* the state of a coroutine, the registries and the waiting lists of the   *)
(* queues fit together.  With TypeOK it is inductive; EgressProxyProofs    *)
(* rests on it.                                                            *)
(***************************************************************************)
EXTENDS EgressProxy

Distinct(w) == \A i, j \in DOMAIN w : w[i] = w[j] => i = j

(* A session that exists was started with an id and a list of services.    *)
LaunchInv ==
    \A g \in Sessions :
        /\ loop[g].pc # "none" =>
              launch[g].id \in Ids /\ launch[g].services \in ServiceLists
        /\ loop[g].pc = "none" => launch[g].id = None /\ launch[g].services = <<>>

(* The entry of an id is a session started for that id.                    *)
RegistryInv ==
    \A r \in Ids : registry[r] # None =>
        loop[registry[r]].pc # "none" /\ launch[registry[r]].id = r

(* A loop that holds on to a queue waits for the call of a service, and    *)
(* the queue is one of that service; a round being answered is recorded.   *)
LoopInv ==
    \A g \in Sessions :
        /\ loop[g].pc \in {"none", "created"} => loop[g].store = <<>>
        /\ loop[g].pc \in {"none", "created", "forwarding", "rejecting"} => loop[g].on = None
        /\ loop[g].pc \in {"waiting", "woken"} => loop[g].on # None
        /\ loop[g].on # None => /\ Len(loop[g].store) < Len(launch[g].services)
                                /\ Awaited(g) \in ServicesOf(loop[g].on)
        /\ loop[g].pc \in {"forwarding", "rejecting"} => rounds[g] # <<>>

(* A handler that waits does so for a response to a variant that called.   *)
HandlerInv ==
    \A c \in Calls : handler[c].pc \in {"waiting", "woken"} =>
        handler[c].on # None /\ handler[c].sender # None

(* Whoever is in the waiting list of a queue waits on that queue, and is   *)
(* there once: a wake-up never reaches a coroutine that is past its get()  *)
(* (asyncio.Queue.get, put_nowait, Task.cancel).                           *)
LoopGetters ==
    \A x \in Sessions, s \in Services :
        /\ \A i \in DOMAIN requests[x][s].getters :
              /\ loop[requests[x][s].getters[i]].pc = "waiting"
              /\ loop[requests[x][s].getters[i]].on = x
              /\ Awaited(requests[x][s].getters[i]) = s
        /\ Distinct(requests[x][s].getters)

HandlerGetters ==
    \A x \in Sessions, s \in Services :
        /\ \A i \in DOMAIN responses[x][s].getters :
              /\ handler[responses[x][s].getters[i]].pc = "waiting"
              /\ handler[responses[x][s].getters[i]].on = x
              /\ handler[responses[x][s].getters[i]].sender = s
        /\ Distinct(responses[x][s].getters)

IInv ==
    /\ TypeOK
    /\ LaunchInv /\ RegistryInv /\ LoopInv /\ HandlerInv
    /\ LoopGetters /\ HandlerGetters
=============================================================================
