----------------------------- MODULE EgressProxy -----------------------------
(***************************************************************************)
(* The egress proxy of a MoFaaS function (src/egress-proxy/main.py).       *)
(*                                                                         *)
(* For every request the chooser starts a session: a task that runs the    *)
(* loop handle_requests, and one queue of calls and one queue of responses *)
(* for each chosen variant.  A call a variant makes to the outside is put  *)
(* in its queue and waits for a response.  The loop takes one call of each *)
(* variant (a round), compares them, forwards the call if all agree and    *)
(* rejects it otherwise, and puts the response in every response queue.    *)
(*                                                                         *)
(* Everything runs on one asyncio event loop, so a coroutine is atomic     *)
(* from one await that really suspends to the next: an empty queue, an     *)
(* outgoing HTTP request, a task switched in for the first time.  One such *)
(* stretch is one action.  The environment (chooser, variants, broker) is  *)
(* the choice of the next request and of its parameters.                   *)
(***************************************************************************)
EXTENDS AsyncioQueue, FiniteSets

CONSTANTS
    Ids,          \* CloudEvent ids of requests
    Services,     \* names of the variants
    ServiceLists, \* the lists of chosen variants a start may carry
    Sessions,     \* one task with its queues, created by one start
    Calls,        \* calls of variants, one handler each
    Contents,     \* what the comparison of calls sees of a call
    Hosts,        \* X-Forwarded-Host, which the comparison ignores
    None,
    Retry,        \* may an id be started again (broker redelivery)?
    Parallel      \* may a variant call while a call of its is unanswered
                  \* (a concurrent caller, or one whose sidecar timed out)?

ASSUME NoneAssumption ==
    None \notin Ids \cup Services \cup Sessions \cup Calls \cup Contents \cup Hosts

(* The chooser draws the variants with random.sample: no one twice.        *)
ASSUME ServiceListsAssumption ==
    /\ ServiceLists \subseteq Seq(Services)
    /\ \A l \in ServiceLists :
          /\ l # <<>>
          /\ \A i, j \in DOMAIN l : l[i] = l[j] => i = j

ASSUME FlagsAssumption == Retry \in BOOLEAN /\ Parallel \in BOOLEAN

VARIABLES
    registry,  \* the entry of an id in tasks, requests_queues, response_queues
    launch,    \* the parameters each session was started with
    loop,      \* the task of each session
    requests,  \* the request queues of each session
    responses, \* the response queues of each session
    handler,   \* the handler of each call
    accepted,  \* history: the calls put in each request queue
    rounds     \* history: the rounds each loop completed, with its verdict

vars == <<registry, launch, loop, requests, responses, handler, accepted, rounds>>

-----------------------------------------------------------------------------

(* The response a loop delivers names the round it belongs to.             *)
Answer   == [by : Sessions, nth : Nat \ {0}]
NoAnswer == [by |-> None, nth |-> 0]

LoopPCs    == {"none", "created", "waiting", "woken", "forwarding", "rejecting",
               "cancelled", "returned", "failed"}
HandlerPCs == {"idle", "waiting", "woken", "answered", "error"}

(* store: the calls of the round so far, in the order of the services.     *)
(* on: the session whose queue the loop waits for, or was woken from.      *)
Loop    == [pc : LoopPCs, on : Sessions \cup {None}, store : Seq(Calls)]
Round   == [store : Seq(Calls), forwarded : BOOLEAN]
Handler == [pc : HandlerPCs, on : Sessions \cup {None},
            origin : Sessions \cup {None}, sender : Services \cup {None},
            content : Contents \cup {None}, host : Hosts \cup {None},
            answer : Answer \cup {NoAnswer}]

TypeOK ==
    /\ registry  \in [Ids -> Sessions \cup {None}]
    /\ launch    \in [Sessions -> [id : Ids \cup {None}, services : Seq(Services)]]
    /\ loop      \in [Sessions -> Loop]
    /\ requests  \in [Sessions -> [Services -> Queue(Calls, Sessions)]]
    /\ responses \in [Sessions -> [Services -> Queue(Answer, Calls)]]
    /\ handler   \in [Calls -> Handler]
    /\ accepted  \in [Sessions -> [Services -> Seq(Calls)]]
    /\ rounds    \in [Sessions -> Seq(Round)]

Init ==
    /\ registry  = [r \in Ids |-> None]
    /\ launch    = [g \in Sessions |-> [id |-> None, services |-> <<>>]]
    /\ loop      = [g \in Sessions |-> [pc |-> "none", on |-> None, store |-> <<>>]]
    /\ requests  = [g \in Sessions |-> [s \in Services |-> EmptyQueue]]
    /\ responses = [g \in Sessions |-> [s \in Services |-> EmptyQueue]]
    /\ handler   = [c \in Calls |->
                      [pc |-> "idle", on |-> None, origin |-> None, sender |-> None,
                       content |-> None, host |-> None, answer |-> NoAnswer]]
    /\ accepted  = [g \in Sessions |-> [s \in Services |-> <<>>]]
    /\ rounds    = [g \in Sessions |-> <<>>]

-----------------------------------------------------------------------------
(* Helpers.                                                                *)

ServicesOf(g) == {launch[g].services[i] : i \in DOMAIN launch[g].services}

Started(g) == launch[g].id # None

(* Do requests_queues[req_id][s] and response_queues[req_id][s] exist when *)
(* the entries of req_id are those of session x?                           *)
HasQueue(x, s) == x # None /\ s \in ServicesOf(x)

(* Mutant of Unanimous: the last service is not compared. *)
UnanimousButLast(store) ==
    \A i \in 2 .. Len(store) - 1 : handler[store[i]].content = handler[store[1]].content

(* verify_requests_equal: every call is compared with the first one.       *)
Unanimous(store) ==
    \A i \in 2 .. Len(store) : handler[store[i]].content = handler[store[1]].content

(* The loop looks the queues up by id each time it calls get(); a get() it *)
(* is woken from holds the queue it was called on.                         *)
Source(g, i) ==
    IF loop[g].pc = "woken" /\ i = Len(loop[g].store) + 1
    THEN loop[g].on
    ELSE registry[launch[g].id]

(* The service whose call the loop collects next. *)
Awaited(g) == launch[g].services[Len(loop[g].store) + 1]

(* Would the get() for the i-th service return without suspending?         *)
Readable(g, i) ==
    LET s == launch[g].services[i]
    IN  HasQueue(Source(g, i), s) /\ ~IsEmpty(requests[Source(g, i)][s])

Wake(loops) ==
    [g \in Sessions |-> IF g \in loops THEN [loop[g] EXCEPT !.pc = "woken"] ELSE loop[g]]

-----------------------------------------------------------------------------
(* handle_requests.                                                        *)

(* The loop goes on collecting after it holds store: it takes calls until  *)
(* the round is complete, a queue is empty, or there is no such queue (the *)
(* KeyError ends the task).                                                *)
Collect(g, store) ==
    LET services == launch[g].services
        from     == Len(store) + 1
    IN  \E stop \in from .. Len(services) + 1 :
          LET got == [i \in 1 .. stop - 1 |->
                        IF i < from THEN store[i]
                        ELSE Head(requests[Source(g, i)][services[i]].items)]
              Took(x, s) == \E i \in from .. stop - 1 : Source(g, i) = x /\ services[i] = s
              rest == [x \in Sessions |-> [s \in Services |->
                         IF Took(x, s) THEN GetNowait(requests[x][s]) ELSE requests[x][s]]]
          IN  /\ \A i \in from .. stop - 1 : Readable(g, i)
              /\ \/ /\ stop = Len(services) + 1
                    /\ requests' = rest
                    /\ rounds' = [rounds EXCEPT ![g] =
                         Append(@, [store |-> got, forwarded |-> Unanimous(got)])]
                    /\ loop' = [loop EXCEPT ![g] =
                         [pc |-> IF Unanimous(got) THEN "forwarding" ELSE "rejecting",
                          on |-> None, store |-> got]]
                 \/ /\ stop <= Len(services)
                    /\ ~Readable(g, stop)
                    /\ HasQueue(Source(g, stop), services[stop])
                    /\ requests' = [rest EXCEPT ![Source(g, stop)][services[stop]] = BlockOn(@, g)]
                    /\ loop' = [loop EXCEPT ![g] =
                         [pc |-> "waiting", on |-> Source(g, stop), store |-> got]]
                    /\ UNCHANGED rounds
                 \/ /\ stop <= Len(services)
                    /\ ~HasQueue(Source(g, stop), services[stop])
                    /\ requests' = rest
                    /\ loop' = [loop EXCEPT ![g] = [pc |-> "failed", on |-> None, store |-> got]]
                    /\ UNCHANGED rounds

(* Mutant of RunLoop: a woken task starts the round over. *)
RunLoopAfresh(g) ==
    /\ loop[g].pc \in {"created", "woken"}
    /\ Collect(g, <<>>)
    /\ UNCHANGED <<registry, launch, responses, handler, accepted>>

(* The task runs for the first time, or its get() was woken.               *)
RunLoop(g) ==
    /\ loop[g].pc \in {"created", "woken"}
    /\ Collect(g, loop[g].store)
    /\ UNCHANGED <<registry, launch, responses, handler, accepted>>

(* Mutants of Response: the wrong round is named; the first response is    *)
(* kept for the rounds that follow.                                        *)
ResponseOfPrevious(g) == [by |-> g, nth |-> Len(rounds[g]) - 1]

ResponseOfFirst(g) == [by |-> g, nth |-> 1]

(* What the loop delivers: the outcome of the round it completed last.     *)
Response(g) == [by |-> g, nth |-> Len(rounds[g])]

(* The response is put for the services in order, until one has no queue.  *)
Recipients(g) ==
    LET services == launch[g].services
    IN  {services[i] : i \in {j \in DOMAIN services :
           \A k \in 1 .. j : HasQueue(registry[launch[g].id], services[k])}}

(* Mutant of NewStore: the calls of the last round are kept. *)
OldStore(g) == loop[g].store

(* What a round starts with. *)
NewStore(g) == <<>>

(* The response of the destination, or the rejection, is put in the        *)
(* response queues; the loop goes on with the next round.                  *)
DeliverResponse(g) ==
    LET target == registry[launch[g].id]
        woken  == UNION {WokenBy(responses[target][s]) : s \in Recipients(g)}
    IN  /\ loop[g].pc \in {"forwarding", "rejecting"}
        /\ responses' = [x \in Sessions |-> [s \in Services |->
             IF x = target /\ s \in Recipients(g)
             THEN PutNowait(responses[x][s], Response(g)) ELSE responses[x][s]]]
        /\ handler' = [c \in Calls |->
             IF c \in woken THEN [handler[c] EXCEPT !.pc = "woken"] ELSE handler[c]]
        /\ IF Recipients(g) = ServicesOf(g)
           THEN Collect(g, NewStore(g))
           ELSE /\ loop' = [loop EXCEPT ![g].pc = "failed"]
                /\ UNCHANGED <<requests, rounds>>
        /\ UNCHANGED <<registry, launch, accepted>>

(* The comparison, the outgoing request or the error report raises an      *)
(* exception (bad JSON, connection error, timeout): nothing catches it and *)
(* the task ends.                                                          *)
RoundFails(g) ==
    /\ loop[g].pc \in {"forwarding", "rejecting"}
    /\ loop' = [loop EXCEPT ![g].pc = "failed"]
    /\ UNCHANGED <<registry, launch, requests, responses, handler, accepted, rounds>>

(* CancelledError reaches the task, which returns; a get() that had        *)
(* already been woken wakes the next getter in its place.                  *)
HandleCancelled(g) ==
    LET x == loop[g].on
        s == Awaited(g)
    IN  /\ loop[g].pc = "cancelled"
        /\ IF x # None /\ ~IsEmpty(requests[x][s])
           THEN /\ requests' = [requests EXCEPT ![x][s] = PassOn(@)]
                /\ loop' = [Wake(WokenBy(requests[x][s])) EXCEPT ![g].pc = "returned"]
           ELSE /\ loop' = [loop EXCEPT ![g].pc = "returned"]
                /\ UNCHANGED requests
        /\ UNCHANGED <<registry, launch, responses, handler, accepted, rounds>>

-----------------------------------------------------------------------------
(* proxy_handler.                                                          *)

(* A start request replaces whatever the registries hold for the id.       *)
Start(r, services) ==
    /\ Retry \/ \A g \in Sessions : launch[g].id # r
    /\ \E g \in Sessions :
         /\ loop[g].pc = "none"
         /\ registry' = [registry EXCEPT ![r] = g]
         /\ launch' = [launch EXCEPT ![g] = [id |-> r, services |-> services]]
         /\ loop' = [loop EXCEPT ![g].pc = "created"]
    /\ UNCHANGED <<requests, responses, handler, accepted, rounds>>

(* Mutants of Cancel: the task is only forgotten; the task is cancelled    *)
(* only where it is blocked.                                               *)
CancelNothing(g) == UNCHANGED <<loop, requests>>

CancelBlocked(g) ==
    LET x == loop[g].on
        s == Awaited(g)
    IN  IF loop[g].pc = "waiting"
        THEN /\ loop' = [loop EXCEPT ![g].pc = "cancelled", ![g].on = None]
             /\ requests' = [requests EXCEPT ![x][s] = Withdraw(@, g)]
        ELSE UNCHANGED <<loop, requests>>

(* Task.cancel: a suspended get() leaves the waiting list at once, a       *)
(* finished task is left alone.                                            *)
Cancel(g) ==
    LET x == loop[g].on
        s == Awaited(g)
    IN  CASE loop[g].pc = "waiting" ->
               /\ loop' = [loop EXCEPT ![g].pc = "cancelled", ![g].on = None]
               /\ requests' = [requests EXCEPT ![x][s] = Withdraw(@, g)]
          [] loop[g].pc \in {"created", "woken", "forwarding", "rejecting"} ->
               /\ loop' = [loop EXCEPT ![g].pc = "cancelled"]
               /\ UNCHANGED requests
          [] OTHER -> UNCHANGED <<loop, requests>>

(* A stop request; for an id without entries it raises KeyError and        *)
(* changes nothing.                                                        *)
Stop(r) ==
    /\ registry[r] # None
    /\ Cancel(registry[r])
    /\ registry' = [registry EXCEPT ![r] = None]
    /\ UNCHANGED <<launch, responses, handler, accepted, rounds>>

Outstanding(g, s) ==
    \E c \in Calls : /\ handler[c].origin = g /\ handler[c].sender = s
                     /\ handler[c].pc \in {"waiting", "woken"}

(* A variant s, run by the chooser for session g, calls out with content x *)
(* for host h.  The call joins the request queue of s; its handler takes a *)
(* response that is already there or waits for one.  Without queues it is  *)
(* answered with an error (KeyError).                                      *)
Submit(c, g, s, x, h) ==
    LET q    == registry[launch[g].id]
        call == [pc |-> "error", on |-> None, origin |-> g, sender |-> s,
                 content |-> x, host |-> h, answer |-> NoAnswer]
    IN  /\ handler[c].pc = "idle"
        /\ Started(g) /\ s \in ServicesOf(g)
        /\ Parallel \/ ~Outstanding(g, s)
        /\ IF ~HasQueue(q, s)
           THEN /\ handler' = [handler EXCEPT ![c] = call]
                /\ UNCHANGED <<requests, responses, loop, accepted>>
           ELSE /\ requests' = [requests EXCEPT ![q][s] = PutNowait(@, c)]
                /\ loop' = Wake(WokenBy(requests[q][s]))
                /\ accepted' = [accepted EXCEPT ![q][s] = Append(@, c)]
                /\ IF IsEmpty(responses[q][s])
                   THEN /\ handler' = [handler EXCEPT ![c] =
                             [call EXCEPT !.pc = "waiting", !.on = q]]
                        /\ responses' = [responses EXCEPT ![q][s] = BlockOn(@, c)]
                   ELSE /\ handler' = [handler EXCEPT ![c] =
                             [call EXCEPT !.pc = "answered", !.on = q,
                                          !.answer = Head(responses[q][s].items)]]
                        /\ responses' = [responses EXCEPT ![q][s] = GetNowait(@)]
        /\ UNCHANGED <<registry, launch, rounds>>

(* The handler of a call is scheduled after a response woke it: it takes   *)
(* the first response, or waits again if another handler took it.          *)
ResumeHandler(c) ==
    LET q == handler[c].on
        s == handler[c].sender
    IN  /\ handler[c].pc = "woken"
        /\ IF IsEmpty(responses[q][s])
           THEN /\ handler' = [handler EXCEPT ![c].pc = "waiting"]
                /\ responses' = [responses EXCEPT ![q][s] = BlockOn(@, c)]
           ELSE /\ handler' = [handler EXCEPT ![c].pc = "answered",
                                              ![c].answer = Head(responses[q][s].items)]
                /\ responses' = [responses EXCEPT ![q][s] = GetNowait(@)]
        /\ UNCHANGED <<registry, launch, loop, requests, accepted, rounds>>

-----------------------------------------------------------------------------

Next ==
    \/ \E r \in Ids, l \in ServiceLists : Start(r, l)
    \/ \E r \in Ids : Stop(r)
    \/ \E c \in Calls, g \in Sessions, s \in Services, x \in Contents, h \in Hosts :
          Submit(c, g, s, x, h)
    \/ \E c \in Calls : ResumeHandler(c)
    \/ \E g \in Sessions : RunLoop(g)
    \/ \E g \in Sessions : DeliverResponse(g)
    \/ \E g \in Sessions : RoundFails(g)
    \/ \E g \in Sessions : HandleCancelled(g)

Spec == Init /\ [][Next]_vars

(* What the event loop schedules runs; a request to the outside answers or *)
(* fails (the HTTP client gives up after five minutes).  Nothing obliges   *)
(* the chooser to stop or a variant to call.                               *)
Fairness ==
    /\ \A g \in Sessions : /\ WF_vars(RunLoop(g))
                           /\ WF_vars(HandleCancelled(g))
                           /\ WF_vars(DeliverResponse(g) \/ RoundFails(g))
    /\ \A c \in Calls : WF_vars(ResumeHandler(c))

FairSpec == Spec /\ Fairness

-----------------------------------------------------------------------------
(* Safety.                                                                 *)

(* A call leaves for its destination only as the call of every chosen      *)
(* variant: a forwarded round holds one call of each, all of one content   *)
(* (verify_requests_equal and the loop that fills request_store).          *)
OnlyUnanimousForwarded ==
    \A g \in Sessions : \A n \in DOMAIN rounds[g] :
        LET r == rounds[g][n]
        IN  r.forwarded =>
              /\ Len(r.store) = Len(launch[g].services)
              /\ \A i \in DOMAIN r.store : handler[r.store[i]].sender = launch[g].services[i]
              /\ \A i, j \in DOMAIN r.store :
                    handler[r.store[i]].content = handler[r.store[j]].content

(* No call counts twice: it takes part in at most one round of at most one *)
(* loop, whatever loops read the same queues (get() in handle_requests).   *)
CallDecidedOnce ==
    \A g, h \in Sessions : \A n \in DOMAIN rounds[g], m \in DOMAIN rounds[h] :
        \A i \in DOMAIN rounds[g][n].store, j \in DOMAIN rounds[h][m].store :
            rounds[g][n].store[i] = rounds[h][m].store[j] => <<g, n, i>> = <<h, m, j>>

(* Calls are compared in step: the n-th round holds the n-th call of every *)
(* variant, although each variant calls at its own pace (the barrier of    *)
(* handle_requests over the queues of proxy_handler).                      *)
PairedInOrder ==
    \A g \in Sessions : \A n \in DOMAIN rounds[g] :
        \A i \in DOMAIN rounds[g][n].store :
            /\ n \in DOMAIN accepted[g][launch[g].services[i]]
            /\ rounds[g][n].store[i] = accepted[g][launch[g].services[i]][n]

(* The response a handler returns is that of the round its own call was    *)
(* in ("Return the response (wait for it)", main.py:67).                   *)
AnswersOwnRound ==
    \A c \in Calls : handler[c].pc = "answered" =>
        LET a == handler[c].answer
        IN  \E i \in DOMAIN rounds[a.by][a.nth].store : rounds[a.by][a.nth].store[i] = c

(* A task that may still take calls is the one its id is registered for,   *)
(* so a stop of that id reaches it (tasks, in start and stop).             *)
NoOrphanLoop ==
    \A g \in Sessions :
        loop[g].pc \in {"created", "waiting", "woken", "forwarding", "rejecting"}
            => registry[launch[g].id] = g

(* No wake-up is lost: whoever waits on a queue that holds an item waits   *)
(* behind a getter already woken (the get() of handle_requests and of      *)
(* proxy_handler, among puts, barging getters and cancellations).          *)
NoLostWakeup ==
    /\ \A g \in Sessions : loop[g].pc = "waiting" =>
          \/ IsEmpty(requests[loop[g].on][Awaited(g)])
          \/ \E h \in Sessions : /\ loop[h].pc \in {"woken", "cancelled"}
                                /\ loop[h].on = loop[g].on /\ Awaited(h) = Awaited(g)
    /\ \A c \in Calls : handler[c].pc = "waiting" =>
          \/ IsEmpty(responses[handler[c].on][handler[c].sender])
          \/ \E d \in Calls : /\ handler[d].pc = "woken" /\ handler[d].on = handler[c].on
                             /\ handler[d].sender = handler[c].sender

(* The response comes from where the call was sent: a forwarded round goes *)
(* to the host of its first call ("Forwards the request to the original    *)
(* destination and returns the response.", main.py:123).                   *)
OriginalDestination ==
    \A g \in Sessions : \A n \in DOMAIN rounds[g] :
        rounds[g][n].forwarded =>
            \A i \in DOMAIN rounds[g][n].store :
                handler[rounds[g][n].store[i]].host = handler[rounds[g][n].store[1]].host

(* After the stop of its id a session decides nothing more.                *)
NoRoundAfterStop ==
    [][\A g \in Sessions : rounds'[g] # rounds[g] => registry[launch[g].id] = g]_vars

-----------------------------------------------------------------------------
(* Liveness, under FairSpec.                                               *)

Over(g) == Started(g) /\ (registry[launch[g].id] # g \/ loop[g].pc = "failed")

(* A round every variant has called for is decided, unless the session is  *)
(* stopped or its task fails first.                                        *)
CompleteRoundDecided ==
    \A g \in Sessions : \A n \in 1 .. Cardinality(Calls) :
        (Started(g) /\ \A s \in ServicesOf(g) : Len(accepted[g][s]) >= n)
            ~> (Len(rounds[g]) >= n \/ Over(g))

(* Each call of a decided round is answered, unless the session is stopped *)
(* or its task fails first.                                                *)
DecidedCallAnswered ==
    \A g \in Sessions, c \in Calls :
        (\E n \in DOMAIN rounds[g] : \E i \in DOMAIN rounds[g][n].store :
            rounds[g][n].store[i] = c)
        ~> (handler[c].pc = "answered" \/ Over(g))
=============================================================================
