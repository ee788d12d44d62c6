-------------------------- MODULE EgressProxyProofs --------------------------
(***************************************************************************)
(* Proofs about the egress proxy, for any sets of ids, services, sessions  *)
(* and calls.  IInv (EgressProxyInv) is shown to be inductive, one lemma   *)
(* for each action; the theorems follow from it.                           *)
(***************************************************************************)
EXTENDS EgressProxyInv, SequenceTheorems, TLAPS

-----------------------------------------------------------------------------
(* What the operations of AsyncioQueue return: the types of the queues and *)
(* who is left in the waiting list.                                        *)

(* A new queue is a queue. *)
LEMMA EmptyQueueType ==
    ASSUME NEW Item, NEW Proc
    PROVE  EmptyQueue \in Queue(Item, Proc)
  BY EmptySeq DEF EmptyQueue, Queue

(* put_nowait keeps a queue a queue; it takes the first getter off the     *)
(* waiting list.                                                           *)
LEMMA PutNowaitType ==
    ASSUME NEW Item, NEW Proc, NEW q \in Queue(Item, Proc), NEW x \in Item
    PROVE  /\ PutNowait(q, x) \in Queue(Item, Proc)
           /\ PutNowait(q, x).items = Append(q.items, x)
           /\ PutNowait(q, x).getters = IF q.getters = <<>> THEN <<>> ELSE Tail(q.getters)
  <1>1. Append(q.items, x) \in Seq(Item)
    BY AppendProperties DEF Queue
  <1>2. (IF q.getters = <<>> THEN <<>> ELSE Tail(q.getters)) \in Seq(Proc)
    BY HeadTailProperties, EmptySeq DEF Queue
  <1>3. QED
    BY <1>1, <1>2 DEF PutNowait, Queue

(* The coroutine a put wakes was the first of the waiting list.            *)
LEMMA WokenByFirst ==
    ASSUME NEW Item, NEW Proc, NEW q \in Queue(Item, Proc), NEW p \in WokenBy(q)
    PROVE  /\ p \in Proc /\ q.getters # <<>>
           /\ 1 \in DOMAIN q.getters /\ p = q.getters[1]
  <1>1. q.getters \in Seq(Proc)
    BY DEF Queue
  <1>2. q.getters # <<>> /\ p = Head(q.getters)
    BY DEF WokenBy
  <1>3. Len(q.getters) \in Nat \ {0} /\ DOMAIN q.getters = 1 .. Len(q.getters)
    BY <1>1, <1>2, EmptySeq, LenProperties
  <1>4. QED
    BY <1>1, <1>2, <1>3, HeadTailProperties

(* get_nowait on a queue with an item leaves a queue and touches no getter. *)
LEMMA GetNowaitType ==
    ASSUME NEW Item, NEW Proc, NEW q \in Queue(Item, Proc), ~IsEmpty(q)
    PROVE  /\ Head(q.items) \in Item
           /\ GetNowait(q) \in Queue(Item, Proc)
           /\ GetNowait(q).items = Tail(q.items)
           /\ GetNowait(q).getters = q.getters
  <1>1. q.items \in Seq(Item) /\ q.items # <<>>
    BY DEF Queue, IsEmpty
  <1>2. Head(q.items) \in Item /\ Tail(q.items) \in Seq(Item)
    BY <1>1, HeadTailProperties
  <1>3. QED
    BY <1>2 DEF GetNowait, Queue

(* A coroutine that blocks is added at the end of the waiting list.        *)
LEMMA BlockOnType ==
    ASSUME NEW Item, NEW Proc, NEW q \in Queue(Item, Proc), NEW p \in Proc
    PROVE  /\ BlockOn(q, p) \in Queue(Item, Proc)
           /\ BlockOn(q, p).items = q.items
           /\ BlockOn(q, p).getters = Append(q.getters, p)
  <1>1. Append(q.getters, p) \in Seq(Proc)
    BY AppendProperties DEF Queue
  <1>2. QED
    BY <1>1 DEF BlockOn, Queue

(* A sequence without repetition stays one when its head is taken off, and *)
(* the head does not occur in the rest.                                    *)
LEMMA TailDistinct ==
    ASSUME NEW S, NEW w \in Seq(S), w # <<>>,
           \A i, j \in DOMAIN w : w[i] = w[j] => i = j
    PROVE  /\ \A i \in DOMAIN Tail(w) : i + 1 \in DOMAIN w /\ Tail(w)[i] = w[i + 1]
           /\ \A i, j \in DOMAIN Tail(w) : Tail(w)[i] = Tail(w)[j] => i = j
           /\ \A i \in DOMAIN Tail(w) : Tail(w)[i] # w[1]
  <1>1. /\ Tail(w) \in Seq(S) /\ Len(Tail(w)) = Len(w) - 1
        /\ \A i \in 1 .. Len(Tail(w)) : Tail(w)[i] = w[i + 1]
    BY HeadTailProperties
  <1>2. /\ DOMAIN w = 1 .. Len(w) /\ Len(w) \in Nat \ {0}
        /\ DOMAIN Tail(w) = 1 .. Len(Tail(w)) /\ Len(Tail(w)) \in Nat
    BY <1>1, LenProperties, EmptySeq
  <1>3. QED
    BY <1>1, <1>2

(* Appending a new element to a sequence without repetition.               *)
LEMMA AppendDistinct ==
    ASSUME NEW S, NEW w \in Seq(S), NEW p \in S,
           \A i, j \in DOMAIN w : w[i] = w[j] => i = j,
           \A i \in DOMAIN w : w[i] # p
    PROVE  /\ \A i \in DOMAIN Append(w, p) :
                 Append(w, p)[i] = p \/ (i \in DOMAIN w /\ Append(w, p)[i] = w[i])
           /\ \A i, j \in DOMAIN Append(w, p) : Append(w, p)[i] = Append(w, p)[j] => i = j
  <1>1. /\ Append(w, p) \in Seq(S) /\ Len(Append(w, p)) = Len(w) + 1
        /\ \A i \in 1 .. Len(w) : Append(w, p)[i] = w[i]
        /\ Append(w, p)[Len(w) + 1] = p
    BY AppendProperties
  <1>2. /\ DOMAIN w = 1 .. Len(w) /\ Len(w) \in Nat
        /\ DOMAIN Append(w, p) = 1 .. Len(w) + 1
    BY <1>1, LenProperties
  <1>3. QED
    BY <1>1, <1>2

(* Taking one element out of a sequence without repetition: the rest keeps *)
(* its order, and the element is gone.                                     *)
LEMMA WithoutDistinct ==
    ASSUME NEW S, NEW w \in Seq(S), NEW k \in DOMAIN w,
           \A i, j \in DOMAIN w : w[i] = w[j] => i = j
    PROVE  /\ Without(w, k) \in Seq(S)
           /\ \A i \in DOMAIN Without(w, k) :
                 \E l \in DOMAIN w : l # k /\ Without(w, k)[i] = w[l]
           /\ \A i, j \in DOMAIN Without(w, k) : Without(w, k)[i] = Without(w, k)[j] => i = j
  <1> DEFINE n == Len(w) - 1
             src(i) == IF i < k THEN i ELSE i + 1
             v == [i \in 1 .. n |-> w[src(i)]]
  <1>1. Len(w) \in Nat /\ DOMAIN w = 1 .. Len(w) /\ w \in [1 .. Len(w) -> S]
    BY LenProperties
  <1>2. n \in Nat
    BY <1>1
  <1>3. /\ \A i \in 1 .. n : src(i) \in 1 .. Len(w) /\ src(i) # k
        /\ \A i, j \in 1 .. n : src(i) = src(j) => i = j
    BY <1>1
  <1>4. Without(w, k) = v
    BY DEF Without
  <1> HIDE DEF n, src
  <1>5. v \in [1 .. n -> S]
    BY <1>1, <1>3
  <1>6. v \in Seq(S)
    BY <1>2, <1>5, SeqDef
  <1>7. DOMAIN v = 1 .. n /\ \A i \in 1 .. n : v[i] = w[src(i)]
    OBVIOUS
  <1> HIDE DEF v
  <1>8. QED
    BY <1>1, <1>3, <1>4, <1>6, <1>7

(* A cancelled getter is gone from the waiting list, the others keep their *)
(* order.                                                                  *)
LEMMA WithdrawType ==
    ASSUME NEW Item, NEW Proc, NEW q \in Queue(Item, Proc), NEW p,
           \A i, j \in DOMAIN q.getters : q.getters[i] = q.getters[j] => i = j
    PROVE  /\ Withdraw(q, p) \in Queue(Item, Proc)
           /\ Withdraw(q, p).items = q.items
           /\ \A i \in DOMAIN Withdraw(q, p).getters :
                 /\ Withdraw(q, p).getters[i] # p
                 /\ \E l \in DOMAIN q.getters : Withdraw(q, p).getters[i] = q.getters[l]
           /\ \A i, j \in DOMAIN Withdraw(q, p).getters :
                 Withdraw(q, p).getters[i] = Withdraw(q, p).getters[j] => i = j
  <1> DEFINE w == q.getters
             k == CHOOSE i \in DOMAIN w : w[i] = p
             v == Without(w, k)
  <1>0. q.items \in Seq(Item) /\ w \in Seq(Proc)
    BY DEF Queue
  <1>1. CASE \E i \in DOMAIN w : w[i] = p
    <2>1. k \in DOMAIN w /\ w[k] = p
      BY <1>1
    <2>2. Withdraw(q, p) = [q EXCEPT !.getters = v]
      BY <1>1 DEF Withdraw
    <2> HIDE DEF k
    <2>3. /\ v \in Seq(Proc)
          /\ \A i \in DOMAIN v : \E l \in DOMAIN w : l # k /\ v[i] = w[l]
          /\ \A i, j \in DOMAIN v : v[i] = v[j] => i = j
      BY <1>0, <2>1, WithoutDistinct
    <2> HIDE DEF v
    <2>4. Withdraw(q, p).getters = v /\ Withdraw(q, p).items = q.items
      BY <2>2 DEF Queue
    <2>5. Withdraw(q, p) \in Queue(Item, Proc)
      BY <1>0, <2>2, <2>3 DEF Queue
    <2>6. QED
      BY <2>1, <2>3, <2>4, <2>5
  <1>2. CASE ~\E i \in DOMAIN w : w[i] = p
    BY <1>2 DEF Withdraw
  <1>3. QED
    BY <1>1, <1>2

(* A wake-up passed on takes at most the first getter off the list.        *)
LEMMA PassOnType ==
    ASSUME NEW Item, NEW Proc, NEW q \in Queue(Item, Proc), ~IsEmpty(q)
    PROVE  /\ PassOn(q) \in Queue(Item, Proc)
           /\ PassOn(q).items = q.items
           /\ PassOn(q).getters = IF q.getters = <<>> THEN <<>> ELSE Tail(q.getters)
  <1>1. (IF q.getters = <<>> THEN <<>> ELSE Tail(q.getters)) \in Seq(Proc)
    BY HeadTailProperties, EmptySeq DEF Queue
  <1>2. QED
    BY <1>1 DEF PassOn, Queue

-----------------------------------------------------------------------------
(* The egress proxy.                                                       *)

USE DEF Distinct

(* The list of services of a start: a nonempty sequence of services.       *)
LEMMA ListType ==
    ASSUME NEW l \in ServiceLists
    PROVE  /\ l \in Seq(Services) /\ l # <<>>
           /\ Len(l) \in Nat \ {0} /\ DOMAIN l = 1 .. Len(l)
           /\ \A i \in 1 .. Len(l) : l[i] \in Services
  <1>1. l \in Seq(Services) /\ l # <<>>
    BY ServiceListsAssumption
  <1>2. QED
    BY <1>1, LenProperties, EmptySeq, ElementOfSeq

(* A queue that exists belongs to a session and a service.                 *)
LEMMA HasQueueType ==
    ASSUME TypeOK, NEW x \in Sessions \cup {None}, NEW s, HasQueue(x, s)
    PROVE  x \in Sessions /\ s \in Services
  <1>1. x \in Sessions /\ s \in ServicesOf(x)
    BY DEF HasQueue
  <1>2. PICK i \in DOMAIN launch[x].services : s = launch[x].services[i]
    BY <1>1 DEF ServicesOf
  <1>3. launch[x].services \in Seq(Services)
    BY <1>1 DEF TypeOK
  <1>4. QED
    BY <1>1, <1>2, <1>3, LenProperties, ElementOfSeq

(* What the loop of a started session reads from.                          *)
LEMMA SourceType ==
    ASSUME IInv, NEW g \in Sessions, loop[g].pc # "none", NEW i
    PROVE  /\ Source(g, i) \in Sessions \cup {None}
           /\ launch[g].services \in ServiceLists
  <1>1. launch[g].id \in Ids /\ launch[g].services \in ServiceLists
    BY DEF IInv, LaunchInv
  <1>2. registry[launch[g].id] \in Sessions \cup {None}
    BY <1>1 DEF IInv, TypeOK
  <1>3. loop[g].on \in Sessions \cup {None}
    BY DEF IInv, TypeOK, Loop
  <1>4. QED
    BY <1>1, <1>2, <1>3 DEF Source

(* The initial states satisfy the invariant. *)
LEMMA InitIInv == Init => IInv
  <1> SUFFICES ASSUME Init PROVE IInv
    OBVIOUS
  <1>1. TypeOK
    <2>1. /\ registry \in [Ids -> Sessions \cup {None}]
          /\ launch \in [Sessions -> [id : Ids \cup {None}, services : Seq(Services)]]
          /\ loop \in [Sessions -> Loop]
          /\ accepted \in [Sessions -> [Services -> Seq(Calls)]]
          /\ rounds \in [Sessions -> Seq(Round)]
      BY EmptySeq DEF Init, Loop, LoopPCs
    <2>2. /\ requests \in [Sessions -> [Services -> Queue(Calls, Sessions)]]
          /\ responses \in [Sessions -> [Services -> Queue(Answer, Calls)]]
      BY EmptyQueueType DEF Init
    <2>3. handler \in [Calls -> Handler]
      BY DEF Init, Handler, HandlerPCs
    <2>4. QED
      BY <2>1, <2>2, <2>3 DEF TypeOK
  <1>2. LaunchInv /\ RegistryInv /\ LoopInv /\ HandlerInv
    BY DEF Init, LaunchInv, RegistryInv, LoopInv, HandlerInv
  <1>3. LoopGetters /\ HandlerGetters
    <2>1. DOMAIN EmptyQueue.getters = {}
      BY EmptySeq DEF EmptyQueue
    <2>2. QED
      BY <2>1 DEF Init, LoopGetters, HandlerGetters
  <1>4. QED
    BY <1>1, <1>2, <1>3 DEF IInv

(* A task that moves on to another program point and keeps the rest.       *)
LEMMA LoopMoves ==
    ASSUME NEW l \in Loop, NEW p \in LoopPCs
    PROVE  /\ [l EXCEPT !.pc = p] \in Loop
           /\ [l EXCEPT !.pc = p].pc = p
           /\ [l EXCEPT !.pc = p].on = l.on
           /\ [l EXCEPT !.pc = p].store = l.store
  BY DEF Loop

(* Waking the first getter of a request queue whose waiting list loses its *)
(* first getter keeps the loops and the waiting lists consistent.          *)
LEMMA WakeLoop ==
    ASSUME IInv, NEW x \in Sessions, NEW s \in Services,
           requests' \in [Sessions -> [Services -> Queue(Calls, Sessions)]],
           requests'[x][s].getters = IF requests[x][s].getters = <<>> THEN <<>>
                                     ELSE Tail(requests[x][s].getters),
           \A y \in Sessions, t \in Services :
              ~(y = x /\ t = s) => requests'[y][t] = requests[y][t],
           NEW lp, lp = Wake(WokenBy(requests[x][s]))
    PROVE  /\ lp \in [Sessions -> Loop]
           /\ \A g \in Sessions :
                /\ lp[g] = loop[g] \/ (lp[g].pc = "woken" /\ loop[g].pc = "waiting")
                /\ lp[g].on = loop[g].on /\ lp[g].store = loop[g].store
           /\ \A y \in Sessions, t \in Services :
                /\ \A i \in DOMAIN requests'[y][t].getters :
                      /\ lp[requests'[y][t].getters[i]].pc = "waiting"
                      /\ loop[requests'[y][t].getters[i]].on = y
                      /\ Awaited(requests'[y][t].getters[i]) = t
                /\ Distinct(requests'[y][t].getters)
  <1> DEFINE w0 == requests[x][s].getters
  <1>1. /\ requests \in [Sessions -> [Services -> Queue(Calls, Sessions)]]
        /\ requests[x][s] \in Queue(Calls, Sessions) /\ w0 \in Seq(Sessions)
        /\ loop \in [Sessions -> Loop]
    <2>1. /\ requests \in [Sessions -> [Services -> Queue(Calls, Sessions)]]
          /\ loop \in [Sessions -> Loop]
      BY DEF IInv, TypeOK
    <2>2. requests[x][s] \in Queue(Calls, Sessions)
      BY <2>1
    <2>3. QED
      BY <2>1, <2>2 DEF Queue
  <1>2. "woken" \in LoopPCs
    BY DEF LoopPCs
  <1>3. lp \in [Sessions -> Loop]
    <2>1. \A g \in Sessions : loop[g] \in Loop /\ [loop[g] EXCEPT !.pc = "woken"] \in Loop
      BY <1>1, <1>2, LoopMoves
    <2>2. QED
      BY <2>1 DEF Wake
  <1>4. \A p \in WokenBy(requests[x][s]) :
          p \in Sessions /\ w0 # <<>> /\ 1 \in DOMAIN w0 /\ p = w0[1]
    BY <1>1, WokenByFirst
  <1>5. /\ \A i \in DOMAIN w0 : loop[w0[i]].pc = "waiting" /\ loop[w0[i]].on = x /\ Awaited(w0[i]) = s
        /\ \A i, j \in DOMAIN w0 : w0[i] = w0[j] => i = j
    BY DEF IInv, LoopGetters
  <1>6. \A g \in Sessions :
           lp[g] = IF g \in WokenBy(requests[x][s]) THEN [loop[g] EXCEPT !.pc = "woken"] ELSE loop[g]
    BY DEF Wake
  <1>7. \A g \in Sessions :
           /\ lp[g] = loop[g] \/ (lp[g].pc = "woken" /\ loop[g].pc = "waiting")
           /\ lp[g].on = loop[g].on /\ lp[g].store = loop[g].store
    <2>1. ASSUME NEW g \in Sessions, g \in WokenBy(requests[x][s])
          PROVE  /\ lp[g].pc = "woken" /\ loop[g].pc = "waiting"
                 /\ lp[g].on = loop[g].on /\ lp[g].store = loop[g].store
      <3>1. loop[g].pc = "waiting"
        BY <1>4, <1>5, <2>1
      <3>2. loop[g] \in Loop /\ lp[g] = [loop[g] EXCEPT !.pc = "woken"]
        BY <1>1, <1>6, <2>1
      <3>3. QED
        BY <1>2, <3>1, <3>2, LoopMoves
    <2>2. QED
      BY <1>6, <2>1
  <1>8. ASSUME NEW y \in Sessions, NEW t \in Services
        PROVE  /\ \A i \in DOMAIN requests'[y][t].getters :
                     /\ lp[requests'[y][t].getters[i]].pc = "waiting"
                     /\ loop[requests'[y][t].getters[i]].on = y
                     /\ Awaited(requests'[y][t].getters[i]) = t
               /\ Distinct(requests'[y][t].getters)
    <2> DEFINE w == requests'[y][t].getters
    <2>1. CASE y = x /\ t = s
      <3>1. w = IF w0 = <<>> THEN <<>> ELSE Tail(w0)
        BY <1>1, <2>1
      <3>2. CASE w0 = <<>>
        BY <3>1, <3>2, EmptySeq
      <3>3. CASE w0 # <<>>
        <4> w = Tail(w0) /\ \A i, j \in DOMAIN w0 : w0[i] = w0[j] => i = j
          BY <1>5, <3>1, <3>3
        <4> HIDE DEF w, w0
        <4>0. w \in Seq(Sessions)
          BY <1>1, <3>3, HeadTailProperties
        <4>1. /\ \A i \in DOMAIN w : i + 1 \in DOMAIN w0 /\ w[i] = w0[i + 1]
              /\ \A i, j \in DOMAIN w : w[i] = w[j] => i = j
              /\ \A i \in DOMAIN w : w[i] # w0[1]
          BY <1>1, <3>3, TailDistinct
        <4>2. \A i \in DOMAIN w : w[i] \in Sessions
          BY <4>0, LenProperties, ElementOfSeq
        <4>3. \A i \in DOMAIN w : lp[w[i]] = loop[w[i]]
          BY <1>4, <1>6, <4>1, <4>2
        <4>4. QED
          BY <1>5, <2>1, <4>1, <4>3 DEF w
      <3>4. QED
        BY <3>2, <3>3
    <2>2. CASE ~(y = x /\ t = s)
      <3>1. requests'[y][t] = requests[y][t]
        BY <1>1, <2>2
      <3>2. /\ \A i \in DOMAIN w : loop[w[i]].pc = "waiting" /\ loop[w[i]].on = y /\ Awaited(w[i]) = t
            /\ \A i, j \in DOMAIN w : w[i] = w[j] => i = j
        BY <3>1 DEF IInv, LoopGetters
      <3>3. w \in Seq(Sessions)
        BY <1>1, <3>1 DEF Queue
      <3>4. \A i \in DOMAIN w : w[i] \in Sessions
        BY <3>3, LenProperties, ElementOfSeq
      <3> HIDE DEF w
      <3>5. \A i \in DOMAIN w : w[i] \notin WokenBy(requests[x][s])
        BY <1>4, <1>5, <2>2, <3>2
      <3>6. \A i \in DOMAIN w : lp[w[i]] = loop[w[i]]
        BY <1>6, <3>4, <3>5
      <3>7. QED
        BY <3>2, <3>6 DEF w
    <2>3. QED
      BY <2>1, <2>2
  <1>9. QED
    BY <1>3, <1>7, <1>8

(* Who is in a waiting list is a session, or a call. *)
LEMMA GetterType ==
    ASSUME TypeOK, NEW x \in Sessions, NEW s \in Services
    PROVE  /\ \A i \in DOMAIN requests[x][s].getters : requests[x][s].getters[i] \in Sessions
           /\ \A i \in DOMAIN responses[x][s].getters : responses[x][s].getters[i] \in Calls
  <1>1. /\ requests[x][s] \in Queue(Calls, Sessions)
        /\ responses[x][s] \in Queue(Answer, Calls)
    BY DEF TypeOK
  <1>2. requests[x][s].getters \in Seq(Sessions) /\ responses[x][s].getters \in Seq(Calls)
    BY <1>1 DEF Queue
  <1>3. QED
    BY <1>2, LenProperties, ElementOfSeq

(* A step that leaves the waiting lists alone, and the loops that wait,    *)
(* keeps them consistent.                                                  *)
LEMMA LoopGettersFrame ==
    ASSUME IInv,
           \A x \in Sessions, s \in Services :
              requests'[x][s].getters = requests[x][s].getters,
           \A g \in Sessions : loop[g].pc = "waiting" =>
              loop'[g] = loop[g] /\ launch'[g] = launch[g]
    PROVE  LoopGetters'
  <1> SUFFICES ASSUME NEW x \in Sessions, NEW s \in Services
               PROVE  /\ \A i \in DOMAIN requests'[x][s].getters :
                            /\ loop'[requests'[x][s].getters[i]].pc = "waiting"
                            /\ loop'[requests'[x][s].getters[i]].on = x
                            /\ Awaited(requests[x][s].getters[i])' = s
                      /\ Distinct(requests'[x][s].getters)
    BY DEF LoopGetters, Distinct
  <1> DEFINE w == requests[x][s].getters
  <1>1. /\ \A i \in DOMAIN w : /\ loop[w[i]].pc = "waiting"
                               /\ loop[w[i]].on = x /\ Awaited(w[i]) = s
        /\ \A i, j \in DOMAIN w : w[i] = w[j] => i = j
    BY DEF IInv, LoopGetters
  <1>2. \A i \in DOMAIN w : w[i] \in Sessions
    BY GetterType DEF IInv
  <1>3. requests'[x][s].getters = w
    OBVIOUS
  <1> HIDE DEF w
  <1>4. \A i \in DOMAIN w : loop'[w[i]] = loop[w[i]] /\ launch'[w[i]] = launch[w[i]]
    BY <1>1, <1>2
  <1>5. QED
    BY <1>1, <1>3, <1>4 DEF Awaited

(* What LoopGetters says of one waiting list. *)
LEMMA LoopGettersAt ==
    ASSUME IInv, NEW y \in Sessions, NEW t \in Services
    PROVE  /\ \A i \in DOMAIN requests[y][t].getters :
                /\ loop[requests[y][t].getters[i]].pc = "waiting"
                /\ loop[requests[y][t].getters[i]].on = y
                /\ launch[requests[y][t].getters[i]].services
                     [Len(loop[requests[y][t].getters[i]].store) + 1] = t
           /\ \A i, j \in DOMAIN requests[y][t].getters :
                requests[y][t].getters[i] = requests[y][t].getters[j] => i = j
  <1>1. LoopGetters
    BY DEF IInv
  <1>2. /\ \A i \in DOMAIN requests[y][t].getters :
             /\ loop[requests[y][t].getters[i]].pc = "waiting"
             /\ loop[requests[y][t].getters[i]].on = y
             /\ Awaited(requests[y][t].getters[i]) = t
        /\ Distinct(requests[y][t].getters)
    BY <1>1 DEF LoopGetters
  <1>3. QED
    BY <1>2 DEF Awaited, Distinct

(* A step that leaves each loop where it is, wakes it or ends it.          *)
LEMMA LoopInvFrame ==
    ASSUME LoopInv, UNCHANGED <<launch, rounds>>,
           \A g \in Sessions :
              /\ loop'[g].on = loop[g].on /\ loop'[g].store = loop[g].store
              /\ \/ loop'[g].pc = loop[g].pc
                 \/ loop'[g].pc = "woken" /\ loop[g].pc = "waiting"
                 \/ loop'[g].pc \in {"failed", "returned"}
    PROVE  LoopInv'
  <1>1. ASSUME NEW g \in Sessions
        PROVE  Awaited(g)' = Awaited(g) /\ ServicesOf(loop[g].on)' = ServicesOf(loop[g].on)
    BY <1>1 DEF Awaited, ServicesOf
  <1>2. QED
    BY <1>1 DEF LoopInv

(* The same for the response queues and the handlers.                      *)
LEMMA HandlerGettersFrame ==
    ASSUME IInv,
           \A x \in Sessions, s \in Services :
              responses'[x][s].getters = responses[x][s].getters,
           \A c \in Calls : handler[c].pc = "waiting" => handler'[c] = handler[c]
    PROVE  HandlerGetters'
  <1> SUFFICES ASSUME NEW x \in Sessions, NEW s \in Services
               PROVE  /\ \A i \in DOMAIN responses'[x][s].getters :
                            /\ handler'[responses'[x][s].getters[i]].pc = "waiting"
                            /\ handler'[responses'[x][s].getters[i]].on = x
                            /\ handler'[responses'[x][s].getters[i]].sender = s
                      /\ Distinct(responses'[x][s].getters)
    BY DEF HandlerGetters, Distinct
  <1> DEFINE w == responses[x][s].getters
  <1>1. /\ \A i \in DOMAIN w : /\ handler[w[i]].pc = "waiting"
                               /\ handler[w[i]].on = x /\ handler[w[i]].sender = s
        /\ \A i, j \in DOMAIN w : w[i] = w[j] => i = j
    BY DEF IInv, HandlerGetters
  <1>2. \A i \in DOMAIN w : w[i] \in Calls
    BY GetterType DEF IInv
  <1> HIDE DEF w
  <1>3. QED
    BY <1>1, <1>2 DEF w

-----------------------------------------------------------------------------
(* The actions. *)

(* A start registers a session that did not exist.                         *)
LEMMA StartIInv ==
    ASSUME IInv, NEW r \in Ids, NEW l \in ServiceLists, Start(r, l)
    PROVE  IInv'
  <1> PICK g \in Sessions :
         /\ loop[g].pc = "none"
         /\ registry' = [registry EXCEPT ![r] = g]
         /\ launch' = [launch EXCEPT ![g] = [id |-> r, services |-> l]]
         /\ loop' = [loop EXCEPT ![g].pc = "created"]
         /\ UNCHANGED <<requests, responses, handler, accepted, rounds>>
    BY DEF Start
  <1>0. r # None /\ None \notin Sessions
    BY NoneAssumption
  <1>1. TypeOK'
    <2>1. l \in Seq(Services)
      BY ListType
    <2>2. /\ registry' \in [Ids -> Sessions \cup {None}]
          /\ launch' \in [Sessions -> [id : Ids \cup {None}, services : Seq(Services)]]
      BY <2>1 DEF IInv, TypeOK
    <2>3. loop' \in [Sessions -> Loop]
      BY DEF IInv, TypeOK, Loop, LoopPCs
    <2>4. QED
      BY <2>2, <2>3 DEF IInv, TypeOK
  <1>2. /\ loop \in [Sessions -> Loop] /\ launch \in [Sessions -> [id : Ids \cup {None}, services : Seq(Services)]]
        /\ registry \in [Ids -> Sessions \cup {None}]
    BY DEF IInv, TypeOK
  <1>3. /\ loop'[g].pc = "created" /\ loop'[g].on = loop[g].on /\ loop'[g].store = loop[g].store
        /\ launch'[g].id = r /\ launch'[g].services = l
        /\ \A h \in Sessions \ {g} : loop'[h] = loop[h] /\ launch'[h] = launch[h]
    BY <1>2 DEF Loop
  <1>4. LaunchInv'
    BY <1>3 DEF IInv, LaunchInv
  <1>5. RegistryInv'
    BY <1>0, <1>2, <1>3 DEF IInv, RegistryInv
  <1>6. LoopInv'
    <2>1. loop[g].on = None /\ loop[g].store = <<>>
      BY DEF IInv, LoopInv
    <2>2. ASSUME NEW h \in Sessions, h # g, loop[h].on # None
          PROVE  ServicesOf(loop[h].on)' = ServicesOf(loop[h].on)
      <3>1. loop[h].on \in Sessions /\ Awaited(h) \in ServicesOf(loop[h].on)
        BY <1>2, <2>2 DEF Loop, IInv, LoopInv
      <3>2. loop[h].on # g
        <4>1. DOMAIN launch[g].services = {}
          BY EmptySeq DEF IInv, LaunchInv
        <4>2. QED
          BY <3>1, <4>1 DEF ServicesOf
      <3>3. QED
        BY <1>3, <2>2, <3>1, <3>2 DEF ServicesOf
    <2>3. QED
      BY <1>3, <2>1, <2>2 DEF IInv, LoopInv, Awaited
  <1>7. HandlerInv'
    BY DEF IInv, HandlerInv
  <1>8. LoopGetters'
    BY <1>3, LoopGettersFrame
  <1>9. HandlerGetters'
    BY HandlerGettersFrame
  <1>10. QED
    BY <1>1, <1>4, <1>5, <1>6, <1>7, <1>8, <1>9 DEF IInv

(* An exception while a round is being answered ends the task.             *)
LEMMA RoundFailsIInv ==
    ASSUME IInv, NEW g \in Sessions, RoundFails(g)
    PROVE  IInv'
  <1>0. /\ loop[g].pc \in {"forwarding", "rejecting"}
        /\ loop' = [loop EXCEPT ![g].pc = "failed"]
        /\ UNCHANGED <<registry, launch, requests, responses, handler, accepted, rounds>>
    BY DEF RoundFails
  <1>1. loop \in [Sessions -> Loop]
    BY DEF IInv, TypeOK
  <1>2. TypeOK'
    <2>1. loop' \in [Sessions -> Loop]
      BY <1>0, <1>1 DEF Loop, LoopPCs
    <2>2. QED
      BY <1>0, <2>1 DEF IInv, TypeOK
  <1>3. /\ loop'[g].pc = "failed" /\ loop'[g].on = loop[g].on /\ loop'[g].store = loop[g].store
        /\ \A h \in Sessions \ {g} : loop'[h] = loop[h]
    BY <1>0, <1>1 DEF Loop
  <1>4. LaunchInv'
    BY <1>0, <1>3 DEF IInv, LaunchInv
  <1>5. RegistryInv'
    BY <1>0, <1>3 DEF IInv, RegistryInv, TypeOK
  <1>6. LoopInv'
    BY <1>0, <1>3, LoopInvFrame DEF IInv
  <1>7. HandlerInv'
    BY <1>0 DEF IInv, HandlerInv
  <1>8. LoopGetters'
    BY <1>0, <1>3, LoopGettersFrame
  <1>9. HandlerGetters'
    BY <1>0, HandlerGettersFrame
  <1>10. QED
    BY <1>2, <1>4, <1>5, <1>6, <1>7, <1>8, <1>9 DEF IInv

(* A handler that takes a response leaves the waiting lists alone.         *)
LEMMA TakeResponse ==
    ASSUME IInv, NEW q \in Sessions, NEW s \in Services, ~IsEmpty(responses[q][s]),
           responses' = [responses EXCEPT ![q][s] = GetNowait(@)],
           NEW c \in Calls, handler[c].pc # "waiting",
           \A d \in Calls \ {c} : handler'[d] = handler[d]
    PROVE  /\ Head(responses[q][s].items) \in Answer
           /\ responses' \in [Sessions -> [Services -> Queue(Answer, Calls)]]
           /\ HandlerGetters'
  <1>1. /\ responses \in [Sessions -> [Services -> Queue(Answer, Calls)]]
        /\ responses[q][s] \in Queue(Answer, Calls)
    BY DEF IInv, TypeOK
  <1>2. /\ Head(responses[q][s].items) \in Answer
        /\ GetNowait(responses[q][s]) \in Queue(Answer, Calls)
        /\ GetNowait(responses[q][s]).getters = responses[q][s].getters
    BY <1>1, GetNowaitType
  <1>3. /\ responses' \in [Sessions -> [Services -> Queue(Answer, Calls)]]
        /\ \A x \in Sessions, t \in Services :
              responses'[x][t].getters = responses[x][t].getters
    BY <1>1, <1>2
  <1>4. HandlerGetters'
    BY <1>3, HandlerGettersFrame
  <1>5. QED
    BY <1>2, <1>3, <1>4

(* A handler that waits for a response joins one waiting list.             *)
LEMMA AwaitResponse ==
    ASSUME IInv, NEW q \in Sessions, NEW s \in Services, NEW c \in Calls,
           responses' = [responses EXCEPT ![q][s] = BlockOn(@, c)],
           handler[c].pc # "waiting",
           handler'[c].pc = "waiting", handler'[c].on = q, handler'[c].sender = s,
           \A d \in Calls \ {c} : handler'[d] = handler[d]
    PROVE  /\ responses' \in [Sessions -> [Services -> Queue(Answer, Calls)]]
           /\ HandlerGetters'
  <1>1. responses \in [Sessions -> [Services -> Queue(Answer, Calls)]]
    BY DEF IInv, TypeOK
  <1>2. responses[q][s] \in Queue(Answer, Calls)
    BY <1>1
  <1>3. /\ BlockOn(responses[q][s], c) \in Queue(Answer, Calls)
        /\ BlockOn(responses[q][s], c).getters = Append(responses[q][s].getters, c)
    BY <1>2, BlockOnType
  <1>4. responses' \in [Sessions -> [Services -> Queue(Answer, Calls)]]
    BY <1>1, <1>3
  <1>5. ASSUME NEW x \in Sessions, NEW t \in Services
        PROVE  /\ \A i \in DOMAIN responses'[x][t].getters :
                     /\ handler'[responses'[x][t].getters[i]].pc = "waiting"
                     /\ handler'[responses'[x][t].getters[i]].on = x
                     /\ handler'[responses'[x][t].getters[i]].sender = t
               /\ Distinct(responses'[x][t].getters)
    <2> DEFINE w  == responses'[x][t].getters
               w0 == responses[x][t].getters
    <2>1. /\ \A i \in DOMAIN w0 : /\ handler[w0[i]].pc = "waiting"
                                  /\ handler[w0[i]].on = x /\ handler[w0[i]].sender = t
          /\ \A i, j \in DOMAIN w0 : w0[i] = w0[j] => i = j
      BY DEF IInv, HandlerGetters
    <2>2. /\ w0 \in Seq(Calls)
          /\ \A i \in DOMAIN w0 : w0[i] \in Calls
      BY <1>1, GetterType DEF IInv, Queue
    <2>3. w = IF x = q /\ t = s THEN Append(w0, c) ELSE w0
      BY <1>1, <1>3
    <2> HIDE DEF w, w0
    <2>4. \A i \in DOMAIN w0 : w0[i] # c /\ handler'[w0[i]] = handler[w0[i]]
      BY <2>1, <2>2
    <2>5. CASE x = q /\ t = s
      <3>1. /\ \A i \in DOMAIN w : w[i] = c \/ (i \in DOMAIN w0 /\ w[i] = w0[i])
            /\ \A i, j \in DOMAIN w : w[i] = w[j] => i = j
        BY <2>1, <2>2, <2>3, <2>4, <2>5, AppendDistinct
      <3>2. QED
        BY <2>1, <2>4, <2>5, <3>1 DEF w, Distinct
    <2>6. CASE ~(x = q /\ t = s)
      <3>1. w = w0
        BY <2>3, <2>6
      <3>2. /\ \A i \in DOMAIN w : /\ handler'[w[i]].pc = "waiting"
                                  /\ handler'[w[i]].on = x /\ handler'[w[i]].sender = t
            /\ \A i, j \in DOMAIN w : w[i] = w[j] => i = j
        BY <2>1, <2>4, <3>1
      <3>3. QED
        BY <3>2 DEF w, Distinct
    <2>7. QED
      BY <2>5, <2>6
  <1>6. HandlerGetters'
    BY <1>5 DEF HandlerGetters, Distinct
  <1>7. QED
    BY <1>4, <1>6

(* A woken handler takes a response or waits again.                        *)
LEMMA ResumeHandlerIInv ==
    ASSUME IInv, NEW c \in Calls, ResumeHandler(c)
    PROVE  IInv'
  <1> DEFINE q == handler[c].on
             s == handler[c].sender
  <1>0. /\ handler[c].pc = "woken"
        /\ UNCHANGED <<registry, launch, loop, requests, accepted, rounds>>
    BY DEF ResumeHandler
  <1>1. handler \in [Calls -> Handler] /\ handler[c] \in Handler
    BY DEF IInv, TypeOK
  <1>2. q \in Sessions /\ s \in Services
    BY <1>0, <1>1 DEF IInv, HandlerInv, Handler
  <1>3. /\ handler' \in [Calls -> Handler]
        /\ responses' \in [Sessions -> [Services -> Queue(Answer, Calls)]]
        /\ HandlerGetters'
        /\ HandlerInv'
    <2>1. CASE IsEmpty(responses[q][s])
      <3>1. /\ handler' = [handler EXCEPT ![c].pc = "waiting"]
            /\ responses' = [responses EXCEPT ![q][s] = BlockOn(@, c)]
        BY <2>1 DEF ResumeHandler
      <3>2. handler' \in [Calls -> Handler]
        BY <1>1, <3>1 DEF Handler, HandlerPCs
      <3>3. /\ handler'[c].pc = "waiting" /\ handler'[c].on = q /\ handler'[c].sender = s
            /\ \A d \in Calls \ {c} : handler'[d] = handler[d]
        BY <1>1, <3>1 DEF Handler
      <3>4. /\ responses' \in [Sessions -> [Services -> Queue(Answer, Calls)]]
            /\ HandlerGetters'
        BY <1>0, <1>2, <3>1, <3>3, AwaitResponse
      <3>5. HandlerInv'
        BY <1>0, <3>3 DEF IInv, HandlerInv
      <3>6. QED
        BY <3>2, <3>4, <3>5
    <2>2. CASE ~IsEmpty(responses[q][s])
      <3>1. /\ handler' = [handler EXCEPT ![c].pc = "answered",
                                          ![c].answer = Head(responses[q][s].items)]
            /\ responses' = [responses EXCEPT ![q][s] = GetNowait(@)]
        BY <2>2 DEF ResumeHandler
      <3>2. /\ handler'[c].pc = "answered"
            /\ \A d \in Calls \ {c} : handler'[d] = handler[d]
        BY <1>1, <3>1 DEF Handler
      <3>3. /\ Head(responses[q][s].items) \in Answer
            /\ responses' \in [Sessions -> [Services -> Queue(Answer, Calls)]]
            /\ HandlerGetters'
        BY <1>0, <1>2, <2>2, <3>1, <3>2, TakeResponse
      <3>4. handler' \in [Calls -> Handler]
        BY <1>1, <3>1, <3>3 DEF Handler, HandlerPCs
      <3>5. HandlerInv'
        BY <3>2 DEF IInv, HandlerInv
      <3>6. QED
        BY <3>3, <3>4, <3>5
    <2>3. QED
      BY <2>1, <2>2
  <1>4. TypeOK'
    BY <1>0, <1>3 DEF IInv, TypeOK
  <1>5. LaunchInv' /\ RegistryInv' /\ LoopInv'
    BY <1>0 DEF IInv, LaunchInv, RegistryInv, LoopInv, Awaited, ServicesOf
  <1>6. LoopGetters'
    BY <1>0, LoopGettersFrame
  <1>7. QED
    BY <1>3, <1>4, <1>5, <1>6 DEF IInv

(* A stop unregisters a session and cancels its task.                      *)
LEMMA StopIInv ==
    ASSUME IInv, NEW r \in Ids, Stop(r)
    PROVE  IInv'
  <1> DEFINE g == registry[r]
             x == loop[g].on
             s == Awaited(g)
  <1>0. /\ g # None /\ Cancel(g)
        /\ registry' = [registry EXCEPT ![r] = None]
        /\ UNCHANGED <<launch, responses, handler, accepted, rounds>>
    BY DEF Stop
  <1>1. /\ registry \in [Ids -> Sessions \cup {None}] /\ loop \in [Sessions -> Loop]
        /\ requests \in [Sessions -> [Services -> Queue(Calls, Sessions)]]
    BY DEF IInv, TypeOK
  <1>2. g \in Sessions /\ loop[g] \in Loop /\ loop[g].pc # "none"
    BY <1>0, <1>1 DEF IInv, RegistryInv
  <1> HIDE DEF g
  <1>3. /\ loop' \in [Sessions -> Loop]
        /\ requests' \in [Sessions -> [Services -> Queue(Calls, Sessions)]]
        /\ \A h \in Sessions \ {g} : loop'[h] = loop[h]
        /\ loop'[g] = loop[g] \/ loop'[g].pc = "cancelled"
        /\ loop'[g].on \in {loop[g].on, None} /\ loop'[g].store = loop[g].store
        /\ LoopGetters'
    <2>1. CASE loop[g].pc = "waiting"
      <3>1. /\ loop' = [loop EXCEPT ![g].pc = "cancelled", ![g].on = None]
            /\ requests' = [requests EXCEPT ![x][s] = Withdraw(@, g)]
        BY <1>0, <2>1 DEF Cancel
      <3>2. x \in Sessions /\ s \in Services
        <4>1. x # None /\ s \in ServicesOf(x)
          BY <1>2, <2>1 DEF IInv, LoopInv
        <4>2. x \in Sessions \cup {None} /\ HasQueue(x, s) /\ TypeOK
          BY <1>2, <4>1 DEF Loop, HasQueue, IInv
        <4>3. QED
          BY <4>2, HasQueueType
      <3> HIDE DEF x, s
      <3>3. /\ loop' \in [Sessions -> Loop]
            /\ \A h \in Sessions \ {g} : loop'[h] = loop[h]
            /\ loop'[g].pc = "cancelled"
            /\ loop'[g].on = None /\ loop'[g].store = loop[g].store
        BY <1>1, <1>2, <3>1 DEF Loop, LoopPCs
      <3>4. /\ requests[x][s] \in Queue(Calls, Sessions)
            /\ \A i, j \in DOMAIN requests[x][s].getters :
                  requests[x][s].getters[i] = requests[x][s].getters[j] => i = j
        BY <1>1, <3>2 DEF IInv, LoopGetters
      <3> DEFINE v == Withdraw(requests[x][s], g)
      <3>5. /\ v \in Queue(Calls, Sessions)
            /\ \A i \in DOMAIN v.getters : /\ v.getters[i] # g
                 /\ \E l \in DOMAIN requests[x][s].getters : v.getters[i] = requests[x][s].getters[l]
            /\ \A i, j \in DOMAIN v.getters : v.getters[i] = v.getters[j] => i = j
        BY <3>4, WithdrawType
      <3> HIDE DEF v
      <3>6. requests' \in [Sessions -> [Services -> Queue(Calls, Sessions)]]
        BY <1>1, <3>1, <3>5 DEF v
      <3>7. ASSUME NEW y \in Sessions, NEW t \in Services
            PROVE  /\ \A i \in DOMAIN requests'[y][t].getters :
                         /\ loop'[requests'[y][t].getters[i]].pc = "waiting"
                         /\ loop'[requests'[y][t].getters[i]].on = y
                         /\ Awaited(requests[y][t].getters[i])' = t
                   /\ Distinct(requests'[y][t].getters)
        <4> DEFINE w  == requests'[y][t].getters
                   w0 == requests[y][t].getters
        <4>1. /\ \A i \in DOMAIN w0 : /\ loop[w0[i]].pc = "waiting" /\ loop[w0[i]].on = y
                   /\ launch[w0[i]].services[Len(loop[w0[i]].store) + 1] = t
              /\ \A i, j \in DOMAIN w0 : w0[i] = w0[j] => i = j
          BY SMTT(30), LoopGettersAt
        <4>2. \A i \in DOMAIN w0 : w0[i] \in Sessions
          BY GetterType DEF IInv
        <4>3. w = IF y = x /\ t = s THEN v.getters ELSE w0
          BY <1>1, <3>1 DEF v
        <4> HIDE DEF w, w0
        <4>4. \A i \in DOMAIN w : w[i] # g
          <5>1. CASE y = x /\ t = s
            BY <3>5, <4>3, <5>1
          <5>2. CASE ~(y = x /\ t = s)
            <6>1. loop[g].on = x /\ launch[g].services[Len(loop[g].store) + 1] = s
              BY DEF x, s, Awaited
            <6>2. w = w0
              BY <4>3, <5>2
            <6>3. QED
              BY <4>1, <5>2, <6>1, <6>2
          <5>3. QED
            BY <5>1, <5>2
        <4>5. /\ \A i \in DOMAIN w : \E l \in DOMAIN w0 : w[i] = w0[l]
              /\ \A i, j \in DOMAIN w : w[i] = w[j] => i = j
          <5>1. CASE y = x /\ t = s
            BY <3>5, <4>3, <5>1 DEF w0
          <5>2. CASE ~(y = x /\ t = s)
            BY <4>1, <4>3, <5>2
          <5>3. QED
            BY <5>1, <5>2
        <4>9. \A i \in DOMAIN w :
                 /\ loop[w[i]].pc = "waiting" /\ loop[w[i]].on = y
                 /\ launch[w[i]].services[Len(loop[w[i]].store) + 1] = t
          BY <4>1, <4>5
        <4>6. \A i \in DOMAIN w : loop'[w[i]] = loop[w[i]] /\ launch'[w[i]] = launch[w[i]]
          BY <1>0, <3>3, <4>2, <4>4, <4>5
        <4>7. /\ \A i \in DOMAIN w : /\ loop'[w[i]].pc = "waiting" /\ loop'[w[i]].on = y
                   /\ launch'[w[i]].services[Len(loop'[w[i]].store) + 1] = t
          BY <4>6, <4>9
        <4>8. QED
          BY <4>5, <4>7 DEF w, Distinct, Awaited
      <3>8. LoopGetters'
        BY <3>7 DEF LoopGetters, Distinct
      <3>9. QED
        BY <3>3, <3>6, <3>8
    <2>2. CASE loop[g].pc \in {"created", "woken", "forwarding", "rejecting"}
      <3>1. /\ loop' = [loop EXCEPT ![g].pc = "cancelled"]
            /\ UNCHANGED requests
        BY <1>0, <2>2 DEF Cancel
      <3>2. /\ loop' \in [Sessions -> Loop]
            /\ \A h \in Sessions \ {g} : loop'[h] = loop[h]
            /\ loop'[g].pc = "cancelled"
            /\ loop'[g].on = loop[g].on /\ loop'[g].store = loop[g].store
        BY <1>1, <1>2, <3>1 DEF Loop, LoopPCs
      <3>3. LoopGetters'
        BY <1>0, <2>2, <3>1, <3>2, LoopGettersFrame
      <3>4. QED
        BY <1>1, <3>1, <3>2, <3>3
    <2>3. CASE loop[g].pc \notin {"waiting", "created", "woken", "forwarding", "rejecting"}
      <3>1. UNCHANGED <<loop, requests>>
        BY <1>0, <2>3 DEF Cancel
      <3>2. LoopGetters'
        BY <1>0, <3>1, LoopGettersFrame
      <3>3. QED
        BY <1>1, <3>1, <3>2
    <2>4. QED
      BY <2>1, <2>2, <2>3
  <1>4. TypeOK'
    <2>1. registry' \in [Ids -> Sessions \cup {None}]
      BY <1>0, <1>1
    <2>2. QED
      BY <1>0, <1>3, <2>1 DEF IInv, TypeOK
  <1>5. LaunchInv'
    BY <1>0, <1>2, <1>3 DEF IInv, LaunchInv
  <1>6. RegistryInv'
    BY <1>0, <1>1, <1>2, <1>3 DEF IInv, RegistryInv
  <1>7. LoopInv'
    <2>1. \A h \in Sessions : loop'[h].store = loop[h].store /\ loop'[h].on \in {loop[h].on, None}
      BY <1>3
    <2>2. \A h \in Sessions : loop'[h] = loop[h] \/ loop'[h].pc = "cancelled"
      BY <1>3
    <2>4. UNCHANGED <<launch, rounds>>
      BY <1>0
    <2>5. LoopInv
      BY DEF IInv
    <2>6. None \notin Sessions
      BY NoneAssumption
    <2>7. ASSUME NEW h \in Sessions, loop'[h].on # None
          PROVE  /\ Len(loop'[h].store) < Len(launch'[h].services)
                 /\ Awaited(h)' \in ServicesOf(loop[h].on)'
                 /\ loop'[h].on = loop[h].on
      <3>1. loop'[h].on = loop[h].on /\ loop'[h].store = loop[h].store /\ launch' = launch
        BY <2>1, <2>4, <2>7
      <3>2. /\ Len(loop[h].store) < Len(launch[h].services)
            /\ Awaited(h) \in ServicesOf(loop[h].on)
        BY <2>5, <2>7, <3>1 DEF LoopInv
      <3>3. QED
        BY <3>1, <3>2 DEF Awaited, ServicesOf
    <2>8. SUFFICES ASSUME NEW h \in Sessions PROVE LoopInv!(h)'
      BY DEF LoopInv
    <2>3. QED
      BY <2>1, <2>2, <2>4, <2>5, <2>7 DEF LoopInv
  <1>8. HandlerInv' /\ HandlerGetters'
    BY <1>0, HandlerGettersFrame DEF IInv, HandlerInv
  <1>9. QED
    BY <1>3, <1>4, <1>5, <1>6, <1>7, <1>8 DEF IInv

(* A call joins the queue of its variant and takes or awaits a response.   *)
LEMMA SubmitIInv ==
    ASSUME IInv, NEW c \in Calls, NEW g \in Sessions, NEW s \in Services,
           NEW x \in Contents, NEW h \in Hosts, Submit(c, g, s, x, h)
    PROVE  IInv'
  <1> DEFINE q    == registry[launch[g].id]
             call == [pc |-> "error", on |-> None, origin |-> g, sender |-> s,
                      content |-> x, host |-> h, answer |-> NoAnswer]
  <1>0. /\ handler[c].pc = "idle" /\ Started(g)
        /\ UNCHANGED <<registry, launch, rounds>>
    BY DEF Submit
  <1>1. handler \in [Calls -> Handler] /\ call \in Handler
    BY DEF IInv, TypeOK, Handler, HandlerPCs
  <1>2. q \in Sessions \cup {None}
    BY <1>0 DEF IInv, TypeOK, Started
  <1>3. LaunchInv' /\ RegistryInv' /\ LoopInv' /\ HandlerInv' /\ LoopGetters'
        /\ HandlerGetters' /\ TypeOK'
    <2>1. CASE ~HasQueue(q, s)
      <3>1. /\ handler' = [handler EXCEPT ![c] = call]
            /\ UNCHANGED <<requests, responses, loop, accepted>>
        BY <2>1 DEF Submit
      <3>2. /\ handler' \in [Calls -> Handler] /\ handler'[c].pc = "error"
            /\ \A d \in Calls \ {c} : handler'[d] = handler[d]
        BY <1>1, <3>1
      <3>3. HandlerInv' /\ HandlerGetters'
        BY <1>0, <3>1, <3>2, HandlerGettersFrame DEF IInv, HandlerInv
      <3>4. TypeOK'
        BY <1>0, <3>1, <3>2 DEF IInv, TypeOK
      <3>7. LaunchInv' /\ RegistryInv' /\ LoopInv'
        <4>1. UNCHANGED <<launch, rounds, loop, registry>>
          BY <1>0, <3>1
        <4>2. LaunchInv' /\ RegistryInv'
          BY <4>1 DEF IInv, LaunchInv, RegistryInv
        <4>3. LoopInv'
          BY <4>1, LoopInvFrame DEF IInv
        <4>4. QED
          BY <4>2, <4>3
      <3>5. LoopGetters'
        BY <1>0, <3>1, LoopGettersFrame
      <3>8. QED
        BY <3>3, <3>4, <3>5, <3>7
    <2>2. CASE HasQueue(q, s)
      <3>1. /\ requests' = [requests EXCEPT ![q][s] = PutNowait(@, c)]
            /\ loop' = Wake(WokenBy(requests[q][s]))
            /\ accepted' = [accepted EXCEPT ![q][s] = Append(@, c)]
        BY <2>2 DEF Submit
      <3>2. q \in Sessions
        BY <1>2, <2>2, HasQueueType DEF IInv
      <3> HIDE DEF q, call
      <3>3. requests[q][s] \in Queue(Calls, Sessions) /\ accepted[q][s] \in Seq(Calls)
            /\ accepted \in [Sessions -> [Services -> Seq(Calls)]]
            /\ requests \in [Sessions -> [Services -> Queue(Calls, Sessions)]]
        BY <3>2 DEF IInv, TypeOK
      <3>4. /\ PutNowait(requests[q][s], c) \in Queue(Calls, Sessions)
            /\ PutNowait(requests[q][s], c).getters =
                  IF requests[q][s].getters = <<>> THEN <<>> ELSE Tail(requests[q][s].getters)
        BY <3>3, PutNowaitType
      <3>5. requests' = [requests EXCEPT ![q][s] = PutNowait(requests[q][s], c)]
        BY <3>1, <3>2, <3>3
      <3>16. /\ requests' \in [Sessions -> [Services -> Queue(Calls, Sessions)]]
             /\ requests'[q][s] = PutNowait(requests[q][s], c)
             /\ \A y \in Sessions, t \in Services :
                  ~(y = q /\ t = s) => requests'[y][t] = requests[y][t]
        BY <3>2, <3>3, <3>4, <3>5
      <3>6. /\ loop' \in [Sessions -> Loop]
            /\ \A k \in Sessions :
                 /\ loop'[k] = loop[k] \/ (loop'[k].pc = "woken" /\ loop[k].pc = "waiting")
                 /\ loop'[k].on = loop[k].on /\ loop'[k].store = loop[k].store
            /\ \A y \in Sessions, t \in Services :
                 /\ \A i \in DOMAIN requests'[y][t].getters :
                       /\ loop'[requests'[y][t].getters[i]].pc = "waiting"
                       /\ loop[requests'[y][t].getters[i]].on = y
                       /\ Awaited(requests'[y][t].getters[i]) = t
                 /\ Distinct(requests'[y][t].getters)
        <4>1. /\ loop' = Wake(WokenBy(requests[q][s])) /\ s \in Services
              /\ requests'[q][s].getters =
                    IF requests[q][s].getters = <<>> THEN <<>> ELSE Tail(requests[q][s].getters)
          BY <3>1, <3>4, <3>16
        <4>2. QED
          BY <3>2, <3>16, <4>1, WakeLoop
      <3>7. accepted' \in [Sessions -> [Services -> Seq(Calls)]]
        <4>1. Append(accepted[q][s], c) \in Seq(Calls)
          BY <3>3, AppendProperties
        <4>2. QED
          BY <3>1, <3>3, <4>1
      <3>8. /\ handler' \in [Calls -> Handler]
            /\ responses' \in [Sessions -> [Services -> Queue(Answer, Calls)]]
            /\ HandlerGetters'
            /\ HandlerInv'
        <4>1. CASE IsEmpty(responses[q][s])
          <5>1. /\ handler' = [handler EXCEPT ![c] = [call EXCEPT !.pc = "waiting", !.on = q]]
                /\ responses' = [responses EXCEPT ![q][s] = BlockOn(@, c)]
            BY <2>2, <4>1 DEF Submit, q, call
          <5>2. /\ [call EXCEPT !.pc = "waiting", !.on = q] \in Handler
                /\ [call EXCEPT !.pc = "waiting", !.on = q].pc = "waiting"
                /\ [call EXCEPT !.pc = "waiting", !.on = q].on = q
                /\ [call EXCEPT !.pc = "waiting", !.on = q].sender = s
            BY <1>1, <3>2 DEF call, Handler, HandlerPCs
          <5>3. /\ handler' \in [Calls -> Handler]
                /\ handler'[c].pc = "waiting" /\ handler'[c].on = q /\ handler'[c].sender = s
                /\ \A d \in Calls \ {c} : handler'[d] = handler[d]
            BY <1>1, <5>1, <5>2
          <5>4. /\ responses' \in [Sessions -> [Services -> Queue(Answer, Calls)]]
                /\ HandlerGetters'
            BY <1>0, <3>2, <5>1, <5>3, AwaitResponse
          <5>5. HandlerInv'
            BY <3>2, <5>3, NoneAssumption DEF IInv, HandlerInv
          <5>6. QED
            BY <5>3, <5>4, <5>5
        <4>2. CASE ~IsEmpty(responses[q][s])
          <5> DEFINE done == [call EXCEPT !.pc = "answered", !.on = q,
                                          !.answer = Head(responses[q][s].items)]
          <5>1. /\ handler' = [handler EXCEPT ![c] = done]
                /\ responses' = [responses EXCEPT ![q][s] = GetNowait(@)]
            BY <2>2, <4>2 DEF Submit, q, call
          <5>2. \A d \in Calls \ {c} : handler'[d] = handler[d]
            BY <1>1, <5>1
          <5>3. /\ Head(responses[q][s].items) \in Answer
                /\ responses' \in [Sessions -> [Services -> Queue(Answer, Calls)]]
                /\ HandlerGetters'
            BY <1>0, <3>2, <4>2, <5>1, <5>2, TakeResponse
          <5>4. done \in Handler /\ done.pc = "answered"
            BY <1>1, <3>2, <5>3 DEF call, Handler, HandlerPCs
          <5> HIDE DEF done
          <5>5. handler' \in [Calls -> Handler] /\ handler'[c].pc = "answered"
            BY <1>1, <5>1, <5>4
          <5>6. HandlerInv'
            BY <5>2, <5>5 DEF IInv, HandlerInv
          <5>7. QED
            BY <5>3, <5>5, <5>6
        <4>3. QED
          BY <4>1, <4>2
      <3>9. TypeOK'
        BY <1>0, <3>6, <3>7, <3>8, <3>16 DEF IInv, TypeOK
      <3>11. LaunchInv'
        BY <1>0, <3>6 DEF IInv, LaunchInv
      <3>15. RegistryInv'
        <4>1. \A r \in Ids : registry[r] # None => registry[r] \in Sessions
          BY DEF IInv, TypeOK
        <4>2. QED
          BY <1>0, <3>6, <4>1 DEF IInv, RegistryInv
      <3>12. LoopInv'
        <4>1. LoopInv /\ UNCHANGED <<launch, rounds>>
          BY <1>0 DEF IInv
        <4>2. QED
          BY <3>6, <4>1, LoopInvFrame
      <3>13. LoopGetters'
        <4>1. ASSUME NEW y \in Sessions, NEW t \in Services
              PROVE  /\ \A i \in DOMAIN requests'[y][t].getters :
                           /\ loop'[requests'[y][t].getters[i]].pc = "waiting"
                           /\ loop'[requests'[y][t].getters[i]].on = y
                           /\ Awaited(requests[y][t].getters[i])' = t
                     /\ Distinct(requests'[y][t].getters)
          <5> DEFINE w == requests'[y][t].getters
          <5>1. /\ \A i \in DOMAIN w : /\ loop'[w[i]].pc = "waiting"
                                       /\ loop[w[i]].on = y
                                       /\ launch[w[i]].services[Len(loop[w[i]].store) + 1] = t
                /\ Distinct(w)
            BY <3>6 DEF Awaited
          <5>2. w \in Seq(Sessions)
            BY <3>16 DEF Queue
          <5> HIDE DEF w
          <5>3. \A i \in DOMAIN w : w[i] \in Sessions
            BY <5>2, LenProperties, ElementOfSeq
          <5>4. \A i \in DOMAIN w : /\ loop'[w[i]].on = y
                                   /\ launch'[w[i]].services[Len(loop'[w[i]].store) + 1] = t
            BY <1>0, <3>6, <5>1, <5>3
          <5>5. QED
            BY <5>1, <5>4 DEF w, Awaited
        <4>2. QED
          BY <4>1 DEF LoopGetters, Distinct
      <3>14. QED
        BY <3>8, <3>9, <3>11, <3>12, <3>13, <3>15
    <2>3. QED
      BY <2>1, <2>2
  <1>4. QED
    BY <1>3 DEF IInv

(* A cancelled task returns, and passes on a wake-up it did not use.       *)
LEMMA HandleCancelledIInv ==
    ASSUME IInv, NEW g \in Sessions, HandleCancelled(g)
    PROVE  IInv'
  <1> DEFINE x == loop[g].on
             s == Awaited(g)
  <1>0. /\ loop[g].pc = "cancelled"
        /\ UNCHANGED <<registry, launch, responses, handler, accepted, rounds>>
    BY DEF HandleCancelled
  <1>1. /\ loop \in [Sessions -> Loop] /\ loop[g] \in Loop /\ "returned" \in LoopPCs
        /\ requests \in [Sessions -> [Services -> Queue(Calls, Sessions)]]
    BY DEF IInv, TypeOK, LoopPCs
  <1>2. HandlerInv' /\ HandlerGetters'
    BY <1>0, HandlerGettersFrame DEF IInv, HandlerInv
  <1>3. /\ loop' \in [Sessions -> Loop]
        /\ requests' \in [Sessions -> [Services -> Queue(Calls, Sessions)]]
        /\ loop'[g].pc = "returned"
        /\ \A k \in Sessions \ {g} :
              loop'[k] = loop[k] \/ (loop'[k].pc = "woken" /\ loop[k].pc = "waiting")
        /\ \A k \in Sessions : loop'[k].on = loop[k].on /\ loop'[k].store = loop[k].store
        /\ LoopGetters'
    <2>1. CASE x # None /\ ~IsEmpty(requests[x][s])
      <3> DEFINE lp == Wake(WokenBy(requests[x][s]))
      <3>1. /\ requests' = [requests EXCEPT ![x][s] = PassOn(@)]
            /\ loop' = [lp EXCEPT ![g].pc = "returned"]
        BY <2>1 DEF HandleCancelled
      <3>2. x \in Sessions /\ s \in Services
        <4>1. x \in Sessions \cup {None} /\ HasQueue(x, s) /\ TypeOK
          BY <1>1, <2>1 DEF Loop, HasQueue, IInv, LoopInv
        <4>2. QED
          BY <4>1, HasQueueType
      <3> HIDE DEF x, s
      <3>3. requests[x][s] \in Queue(Calls, Sessions)
        BY <1>1, <3>2
      <3>4. /\ PassOn(requests[x][s]) \in Queue(Calls, Sessions)
            /\ PassOn(requests[x][s]).getters =
                  IF requests[x][s].getters = <<>> THEN <<>> ELSE Tail(requests[x][s].getters)
        BY <2>1, <3>3, PassOnType
      <3>5. /\ requests' \in [Sessions -> [Services -> Queue(Calls, Sessions)]]
            /\ requests'[x][s] = PassOn(requests[x][s])
            /\ \A y \in Sessions, t \in Services :
                  ~(y = x /\ t = s) => requests'[y][t] = requests[y][t]
        BY <1>1, <3>1, <3>2, <3>4
      <3>6. /\ lp \in [Sessions -> Loop]
            /\ \A k \in Sessions :
                 /\ lp[k] = loop[k] \/ (lp[k].pc = "woken" /\ loop[k].pc = "waiting")
                 /\ lp[k].on = loop[k].on /\ lp[k].store = loop[k].store
            /\ \A y \in Sessions, t \in Services :
                 /\ \A i \in DOMAIN requests'[y][t].getters :
                       /\ lp[requests'[y][t].getters[i]].pc = "waiting"
                       /\ loop[requests'[y][t].getters[i]].on = y
                       /\ Awaited(requests'[y][t].getters[i]) = t
                 /\ Distinct(requests'[y][t].getters)
        BY <3>2, <3>4, <3>5, WakeLoop
      <3> HIDE DEF lp
      <3>7. lp[g] \in Loop /\ lp[g].pc = "cancelled"
        BY <1>0, <3>6
      <3>8. /\ loop'[g] = [lp[g] EXCEPT !.pc = "returned"]
            /\ \A k \in Sessions \ {g} : loop'[k] = lp[k]
        BY <3>1, <3>6
      <3>9. loop'[g] \in Loop /\ loop'[g].pc = "returned"
            /\ loop'[g].on = lp[g].on /\ loop'[g].store = lp[g].store
        BY <1>1, <3>7, <3>8, LoopMoves
      <3>10. loop' \in [Sessions -> Loop]
        BY <3>1, <3>6, <3>8, <3>9
      <3>11. LoopGetters'
        <4>1. ASSUME NEW y \in Sessions, NEW t \in Services
              PROVE  /\ \A i \in DOMAIN requests'[y][t].getters :
                           /\ loop'[requests'[y][t].getters[i]].pc = "waiting"
                           /\ loop'[requests'[y][t].getters[i]].on = y
                           /\ Awaited(requests[y][t].getters[i])' = t
                     /\ Distinct(requests'[y][t].getters)
          <5> DEFINE w == requests'[y][t].getters
          <5>1. /\ \A i \in DOMAIN w : /\ lp[w[i]].pc = "waiting"
                                       /\ loop[w[i]].on = y
                                       /\ launch[w[i]].services[Len(loop[w[i]].store) + 1] = t
                /\ Distinct(w)
            BY <3>6 DEF Awaited
          <5>2. w \in Seq(Sessions)
            BY <3>5 DEF Queue
          <5> HIDE DEF w
          <5>3. \A i \in DOMAIN w : w[i] \in Sessions \ {g}
            BY <3>7, <5>1, <5>2, LenProperties, ElementOfSeq
          <5>4. \A i \in DOMAIN w : /\ loop'[w[i]].on = y /\ loop'[w[i]].pc = "waiting"
                                   /\ launch'[w[i]].services[Len(loop'[w[i]].store) + 1] = t
            BY <1>0, <3>6, <3>8, <5>1, <5>3
          <5>5. QED
            BY <5>1, <5>4 DEF w, Awaited
        <4>2. QED
          BY <4>1 DEF LoopGetters, Distinct
      <3>12. ASSUME NEW k \in Sessions
             PROVE  loop'[k].on = loop[k].on /\ loop'[k].store = loop[k].store
        <4>1. lp[k].on = loop[k].on /\ lp[k].store = loop[k].store
          BY <3>6
        <4>2. CASE k = g
          BY <3>9, <4>1, <4>2
        <4>3. CASE k # g
          BY <3>8, <4>1, <4>3
        <4>4. QED
          BY <4>2, <4>3
      <3>13. QED
        BY <3>5, <3>6, <3>8, <3>9, <3>10, <3>11, <3>12
    <2>2. CASE ~(x # None /\ ~IsEmpty(requests[x][s]))
      <3>1. loop' = [loop EXCEPT ![g].pc = "returned"] /\ UNCHANGED requests
        BY <2>2 DEF HandleCancelled
      <3>2. /\ loop'[g] = [loop[g] EXCEPT !.pc = "returned"]
            /\ \A k \in Sessions \ {g} : loop'[k] = loop[k]
        BY <1>1, <3>1
      <3>3. loop'[g] \in Loop /\ loop'[g].pc = "returned"
            /\ loop'[g].on = loop[g].on /\ loop'[g].store = loop[g].store
        BY <1>1, <3>2, LoopMoves
      <3>4. loop' \in [Sessions -> Loop]
        BY <1>1, <3>1, <3>2, <3>3
      <3>5. LoopGetters'
        BY <1>0, <3>1, <3>2, LoopGettersFrame
      <3>6. QED
        BY <1>1, <3>1, <3>2, <3>3, <3>4, <3>5
    <2>3. QED
      BY <2>1, <2>2
  <1>4. TypeOK'
    BY <1>0, <1>3 DEF IInv, TypeOK
  <1>5. LaunchInv'
    BY <1>0, <1>3 DEF IInv, LaunchInv
  <1>6. RegistryInv'
    <2>1. \A r \in Ids : registry[r] # None => registry[r] \in Sessions
      BY DEF IInv, TypeOK
    <2>2. QED
      BY <1>0, <1>3, <2>1 DEF IInv, RegistryInv
  <1>7. LoopInv'
    <2>1. LoopInv /\ UNCHANGED <<launch, rounds>>
      BY <1>0 DEF IInv
    <2>2. QED
      BY <1>3, <2>1, LoopInvFrame
  <1>8. QED
    BY <1>2, <1>3, <1>4, <1>5, <1>6, <1>7 DEF IInv

(* A loop that goes on collecting ends up deciding a round, waiting for a  *)
(* service whose queue it joined, or failed; whatever it took, it leaves   *)
(* the other waiting lists and the other loops alone.                      *)
LEMMA CollectEffect ==
    ASSUME IInv, NEW g \in Sessions, NEW store \in Seq(Calls),
           loop[g].pc # "none", Collect(g, store)
    PROVE  /\ requests' \in [Sessions -> [Services -> Queue(Calls, Sessions)]]
           /\ rounds' \in [Sessions -> Seq(Round)]
           /\ loop' \in [Sessions -> Loop]
           /\ \A h \in Sessions \ {g} : loop'[h] = loop[h] /\ rounds'[h] = rounds[h]
           /\ loop'[g].pc \in {"forwarding", "rejecting", "waiting", "failed"}
           /\ loop'[g].pc # "waiting" => loop'[g].on = None
           /\ loop'[g].pc \in {"forwarding", "rejecting"} => rounds'[g] # <<>>
           /\ loop'[g].pc = "waiting" =>
                 /\ loop'[g].on \in Sessions
                 /\ Len(loop'[g].store) < Len(launch[g].services)
                 /\ launch[g].services[Len(loop'[g].store) + 1] \in ServicesOf(loop'[g].on)
           /\ \A y \in Sessions, t \in Services :
                 requests'[y][t].getters =
                    IF /\ loop'[g].pc = "waiting" /\ y = loop'[g].on
                       /\ t = launch[g].services[Len(loop'[g].store) + 1]
                    THEN Append(requests[y][t].getters, g)
                    ELSE requests[y][t].getters
  <1> DEFINE services == launch[g].services
             from     == Len(store) + 1
             got(n)   == [i \in 1 .. n - 1 |->
                            IF i < from THEN store[i]
                            ELSE Head(requests[Source(g, i)][services[i]].items)]
             Took(n, x, s) == \E i \in from .. n - 1 : Source(g, i) = x /\ services[i] = s
             rest(n)  == [x \in Sessions |-> [s \in Services |->
                            IF Took(n, x, s) THEN GetNowait(requests[x][s]) ELSE requests[x][s]]]
             Decides(n) ==
               /\ n = Len(services) + 1
               /\ requests' = rest(n)
               /\ rounds' = [rounds EXCEPT ![g] =
                    Append(@, [store |-> got(n), forwarded |-> Unanimous(got(n))])]
               /\ loop' = [loop EXCEPT ![g] =
                    [pc |-> IF Unanimous(got(n)) THEN "forwarding" ELSE "rejecting",
                     on |-> None, store |-> got(n)]]
             Waits(n) ==
               /\ n <= Len(services)
               /\ HasQueue(Source(g, n), services[n])
               /\ requests' = [rest(n) EXCEPT ![Source(g, n)][services[n]] = BlockOn(@, g)]
               /\ loop' = [loop EXCEPT ![g] =
                    [pc |-> "waiting", on |-> Source(g, n), store |-> got(n)]]
               /\ UNCHANGED rounds
             Fails(n) ==
               /\ requests' = rest(n)
               /\ loop' = [loop EXCEPT ![g] = [pc |-> "failed", on |-> None, store |-> got(n)]]
               /\ UNCHANGED rounds
  <1>1. PICK stop \in from .. Len(services) + 1 :
           /\ \A i \in from .. stop - 1 : Readable(g, i)
           /\ Decides(stop) \/ Waits(stop) \/ Fails(stop)
    BY DEF Collect
  <1>2. /\ requests \in [Sessions -> [Services -> Queue(Calls, Sessions)]]
        /\ loop \in [Sessions -> Loop]
        /\ rounds \in [Sessions -> Seq(Round)] /\ rounds[g] \in Seq(Round)
        /\ services \in Seq(Services)
    <2>1. rounds \in [Sessions -> Seq(Round)]
      BY DEF IInv, TypeOK
    <2>2. launch[g].services \in Seq(Services)
      BY DEF IInv, TypeOK
    <2>3. QED
      BY <2>1, <2>2 DEF IInv, TypeOK
  <1>3. \A i : Source(g, i) \in Sessions \cup {None}
    BY SourceType
  <1>4. TypeOK
    BY DEF IInv
  <1>5. Len(services) \in Nat /\ Len(store) \in Nat /\ stop \in Nat \ {0}
    <2>1. Len(services) \in Nat /\ Len(store) \in Nat
      BY <1>2, LenProperties
    <2> HIDE DEF services
    <2>2. stop \in Len(store) + 1 .. Len(services) + 1
      BY <1>1
    <2>3. QED
      BY <2>1, <2>2
  <1> HIDE DEF services
  <1>6. ASSUME NEW i \in from .. stop - 1
        PROVE  /\ Source(g, i) \in Sessions /\ services[i] \in Services
               /\ requests[Source(g, i)][services[i]] \in Queue(Calls, Sessions)
               /\ ~IsEmpty(requests[Source(g, i)][services[i]])
               /\ Head(requests[Source(g, i)][services[i]].items) \in Calls
    <2>1. /\ HasQueue(Source(g, i), services[i])
          /\ ~IsEmpty(requests[Source(g, i)][services[i]])
      BY <1>1 DEF Readable, services
    <2>2. Source(g, i) \in Sessions /\ services[i] \in Services
      BY <1>3, <1>4, <2>1, HasQueueType
    <2>3. requests[Source(g, i)][services[i]] \in Queue(Calls, Sessions)
      BY <1>2, <2>2
    <2>4. QED
      BY <2>1, <2>2, <2>3, GetNowaitType
  <1>7. /\ got(stop) \in Seq(Calls)
        /\ Len(got(stop)) = stop - 1
    <2>1. ASSUME NEW i \in 1 .. stop - 1 PROVE got(stop)[i] \in Calls
      <3>1. CASE i < from
        <4>1. store[i] \in Calls
          BY <1>5, <3>1, LenProperties, ElementOfSeq
        <4>2. QED
          BY <3>1, <4>1
      <3>2. CASE ~(i < from)
        <4>1. i \in from .. stop - 1
          BY <1>5, <3>2
        <4>2. QED
          BY <1>6, <3>2, <4>1
      <3>3. QED
        BY <3>1, <3>2
    <2> DEFINE f == got(stop)
    <2>2. f \in [1 .. stop - 1 -> Calls]
      BY <2>1
    <2> HIDE DEF got, f
    <2>3. stop - 1 \in Nat
      BY <1>5
    <2>4. f \in Seq(Calls) /\ Len(f) = stop - 1
      BY <2>2, <2>3, SeqDef, LenProperties
    <2>5. QED
      BY <2>4 DEF f
  <1>8. /\ rest(stop) \in [Sessions -> [Services -> Queue(Calls, Sessions)]]
        /\ \A x \in Sessions, s \in Services :
              rest(stop)[x][s].getters = requests[x][s].getters
    <2>1. ASSUME NEW x \in Sessions, NEW s \in Services
          PROVE  /\ rest(stop)[x][s] \in Queue(Calls, Sessions)
                 /\ rest(stop)[x][s].getters = requests[x][s].getters
      <3>1. requests[x][s] \in Queue(Calls, Sessions)
        BY <1>2
      <3>2. CASE Took(stop, x, s)
        <4>1. ~IsEmpty(requests[x][s])
          BY <1>6, <3>2
        <4>2. rest(stop)[x][s] = GetNowait(requests[x][s])
          BY <3>2
        <4> HIDE DEF rest
        <4>3. QED
          BY <3>1, <4>1, <4>2, GetNowaitType
      <3>3. CASE ~Took(stop, x, s)
        BY <3>1, <3>3
      <3>4. QED
        BY <3>2, <3>3
    <2>2. QED
      BY <2>1
  <1> HIDE DEF got, rest, Took, from
  <1>9. CASE Decides(stop)
    <2> DEFINE verdict == IF Unanimous(got(stop)) THEN "forwarding" ELSE "rejecting"
               round == [store |-> got(stop), forwarded |-> Unanimous(got(stop))]
               after == [pc |-> verdict, on |-> None, store |-> got(stop)]
    <2>1. /\ requests' = rest(stop)
          /\ rounds' = [rounds EXCEPT ![g] = Append(rounds[g], round)]
          /\ loop' = [loop EXCEPT ![g] = after]
      BY <1>2, <1>9
    <2>2. after \in Loop /\ after.pc \in {"forwarding", "rejecting"} /\ after.on = None
      BY <1>7 DEF Loop, LoopPCs
    <2>3. round \in Round
      <3>1. Unanimous(got(stop)) \in BOOLEAN
        BY DEF Unanimous
      <3>2. QED
        BY <1>7, <3>1 DEF Round
    <2> HIDE DEF round, after
    <2>4. Append(rounds[g], round) \in Seq(Round) /\ Append(rounds[g], round) # <<>>
      <3>1. rounds[g] \in Seq(Round)
        BY <1>2
      <3>2. QED
        BY <2>3, <3>1, AppendProperties
    <2>5. /\ rounds' \in [Sessions -> Seq(Round)] /\ rounds'[g] # <<>>
          /\ \A h \in Sessions \ {g} : rounds'[h] = rounds[h]
      BY <1>2, <2>1, <2>4
    <2>6. /\ loop' \in [Sessions -> Loop] /\ loop'[g] = after
          /\ \A h \in Sessions \ {g} : loop'[h] = loop[h]
      BY <1>2, <2>1, <2>2
    <2>7. loop'[g].pc \in {"forwarding", "rejecting"} /\ loop'[g].on = None
      BY <2>2, <2>6
    <2>8. QED
      BY <1>8, <2>1, <2>5, <2>6, <2>7
  <1>10. CASE Waits(stop)
    <2> DEFINE x == Source(g, stop)
               s == services[stop]
               after == [pc |-> "waiting", on |-> x, store |-> got(stop)]
    <2>1. x \in Sessions /\ s \in Services /\ s \in ServicesOf(x)
      BY <1>3, <1>4, <1>10, HasQueueType DEF HasQueue
    <2>2. /\ requests' = [rest(stop) EXCEPT ![x][s] = BlockOn(rest(stop)[x][s], g)]
          /\ loop' = [loop EXCEPT ![g] = after]
          /\ UNCHANGED rounds
      BY <1>8, <1>10, <2>1
    <2>3. stop <= Len(services)
      BY <1>10
    <2> HIDE DEF x, s
    <2>4. after \in Loop /\ after.pc = "waiting" /\ after.on = x /\ after.store = got(stop)
      BY <1>7, <2>1 DEF Loop, LoopPCs
    <2> HIDE DEF after
    <2>5. /\ loop' \in [Sessions -> Loop] /\ loop'[g] = after
          /\ \A h \in Sessions \ {g} : loop'[h] = loop[h]
      BY <1>2, <2>2, <2>4
    <2>6. /\ loop'[g].pc = "waiting" /\ loop'[g].on = x
          /\ Len(loop'[g].store) = stop - 1
      BY <1>7, <2>4, <2>5
    <2>7. services[Len(loop'[g].store) + 1] = s /\ Len(loop'[g].store) < Len(services)
      BY <1>5, <2>3, <2>6 DEF s
    <2> DEFINE before == rest(stop)[x][s]
    <2>8. before \in Queue(Calls, Sessions) /\ before.getters = requests[x][s].getters
      BY <1>8, <2>1
    <2> HIDE DEF before
    <2>9. /\ BlockOn(before, g) \in Queue(Calls, Sessions)
          /\ BlockOn(before, g).getters = Append(requests[x][s].getters, g)
      <3>1. before \in Queue(Calls, Sessions)
        BY <2>8
      <3>2. /\ BlockOn(before, g) \in Queue(Calls, Sessions)
            /\ BlockOn(before, g).getters = Append(before.getters, g)
        BY <3>1, BlockOnType
      <3>3. QED
        BY <2>8, <3>2
    <2>10. requests' \in [Sessions -> [Services -> Queue(Calls, Sessions)]]
      BY <1>8, <2>1, <2>2, <2>9 DEF before
    <2>11. \A y \in Sessions, t \in Services :
              requests'[y][t].getters = IF y = x /\ t = s THEN Append(requests[y][t].getters, g)
                                        ELSE requests[y][t].getters
      BY <1>8, <2>1, <2>2, <2>9 DEF before
    <2>12. QED
      BY <1>2, <2>1, <2>2, <2>5, <2>6, <2>7, <2>10, <2>11 DEF services
  <1>11. CASE Fails(stop)
    <2> DEFINE after == [pc |-> "failed", on |-> None, store |-> got(stop)]
    <2>1. /\ requests' = rest(stop)
          /\ loop' = [loop EXCEPT ![g] = after]
          /\ UNCHANGED rounds
      BY <1>11
    <2>2. after \in Loop /\ after.pc = "failed" /\ after.on = None
      BY <1>7 DEF Loop, LoopPCs
    <2> HIDE DEF after
    <2>3. /\ loop' \in [Sessions -> Loop] /\ loop'[g] = after
          /\ \A h \in Sessions \ {g} : loop'[h] = loop[h]
      BY <1>2, <2>1, <2>2
    <2>4. QED
      BY <1>2, <1>8, <2>1, <2>2, <2>3
  <1>12. QED
    BY <1>1, <1>9, <1>10, <1>11

(* A loop that goes on collecting keeps the invariant of the loops.        *)
LEMMA CollectKeeps ==
    ASSUME IInv, NEW g \in Sessions, NEW store \in Seq(Calls),
           loop[g].pc \in {"created", "woken", "forwarding", "rejecting"},
           Collect(g, store), UNCHANGED <<registry, launch>>
    PROVE  /\ requests' \in [Sessions -> [Services -> Queue(Calls, Sessions)]]
           /\ rounds' \in [Sessions -> Seq(Round)]
           /\ loop' \in [Sessions -> Loop]
           /\ LaunchInv' /\ RegistryInv' /\ LoopInv' /\ LoopGetters'
  <1> DEFINE awaited == launch[g].services[Len(loop'[g].store) + 1]
  <1>1. loop[g].pc # "none" /\ loop[g].pc # "waiting"
    OBVIOUS
  <1>2. /\ requests' \in [Sessions -> [Services -> Queue(Calls, Sessions)]]
        /\ rounds' \in [Sessions -> Seq(Round)]
        /\ loop' \in [Sessions -> Loop]
        /\ \A h \in Sessions \ {g} : loop'[h] = loop[h] /\ rounds'[h] = rounds[h]
        /\ loop'[g].pc \in {"forwarding", "rejecting", "waiting", "failed"}
        /\ loop'[g].pc # "waiting" => loop'[g].on = None
        /\ loop'[g].pc \in {"forwarding", "rejecting"} => rounds'[g] # <<>>
        /\ loop'[g].pc = "waiting" =>
              /\ loop'[g].on \in Sessions
              /\ Len(loop'[g].store) < Len(launch[g].services)
              /\ awaited \in ServicesOf(loop'[g].on)
        /\ \A y \in Sessions, t \in Services :
              requests'[y][t].getters =
                 IF loop'[g].pc = "waiting" /\ y = loop'[g].on /\ t = awaited
                 THEN Append(requests[y][t].getters, g)
                 ELSE requests[y][t].getters
    BY <1>1, CollectEffect
  <1>3. LaunchInv'
    BY <1>1, <1>2 DEF IInv, LaunchInv
  <1>4. RegistryInv'
    <2>1. \A r \in Ids : registry[r] # None => registry[r] \in Sessions
      BY DEF IInv, TypeOK
    <2>2. QED
      BY <1>2, <2>1 DEF IInv, RegistryInv
  <1>5. LoopInv'
    <2>1. SUFFICES ASSUME NEW h \in Sessions PROVE LoopInv!(h)'
      BY DEF LoopInv
    <2>2. CASE h = g
      <3>1. None \notin Sessions
        BY NoneAssumption
      <3>2. QED
        BY <1>2, <2>2, <3>1 DEF LoopInv, Awaited, ServicesOf
    <2>3. CASE h # g
      <3>1. loop'[h] = loop[h] /\ rounds'[h] = rounds[h] /\ launch' = launch
        BY <1>2, <2>3
      <3>2. QED
        BY <3>1 DEF IInv, LoopInv, Awaited, ServicesOf
    <2>4. QED
      BY <2>2, <2>3
  <1>6. LoopGetters'
    <2>1. ASSUME NEW y \in Sessions, NEW t \in Services
          PROVE  /\ \A i \in DOMAIN requests'[y][t].getters :
                       /\ loop'[requests'[y][t].getters[i]].pc = "waiting"
                       /\ loop'[requests'[y][t].getters[i]].on = y
                       /\ Awaited(requests[y][t].getters[i])' = t
                 /\ Distinct(requests'[y][t].getters)
      <3> DEFINE w  == requests'[y][t].getters
                 w0 == requests[y][t].getters
                 joins == loop'[g].pc = "waiting" /\ y = loop'[g].on /\ t = awaited
      <3>1. w = IF joins THEN Append(w0, g) ELSE w0
        BY <1>2
      <3>2. /\ \A i \in DOMAIN w0 : /\ loop[w0[i]].pc = "waiting" /\ loop[w0[i]].on = y
                 /\ launch[w0[i]].services[Len(loop[w0[i]].store) + 1] = t
            /\ \A i, j \in DOMAIN w0 : w0[i] = w0[j] => i = j
        BY SMTT(30), LoopGettersAt
      <3>3. requests[y][t] \in Queue(Calls, Sessions)
        BY DEF IInv, TypeOK
      <3>4. w0 \in Seq(Sessions)
        BY <3>3 DEF Queue
      <3>5. \A i \in DOMAIN w0 : w0[i] \in Sessions
        BY GetterType DEF IInv
      <3>6. joins => /\ loop'[g].pc = "waiting" /\ loop'[g].on = y
                     /\ launch'[g].services[Len(loop'[g].store) + 1] = t
        OBVIOUS
      <3> HIDE DEF w, w0, joins
      <3>7. \A i \in DOMAIN w0 : w0[i] # g
        BY <1>1, <3>2
      <3>8. \A i \in DOMAIN w0 : /\ loop'[w0[i]].pc = "waiting" /\ loop'[w0[i]].on = y
                 /\ launch'[w0[i]].services[Len(loop'[w0[i]].store) + 1] = t
        BY <1>2, <3>2, <3>5, <3>7
      <3>9. /\ \A i \in DOMAIN w : /\ loop'[w[i]].pc = "waiting" /\ loop'[w[i]].on = y
                 /\ launch'[w[i]].services[Len(loop'[w[i]].store) + 1] = t
            /\ \A i, j \in DOMAIN w : w[i] = w[j] => i = j
        <4>1. CASE joins
          <5>1. /\ \A i \in DOMAIN w : w[i] = g \/ (i \in DOMAIN w0 /\ w[i] = w0[i])
                /\ \A i, j \in DOMAIN w : w[i] = w[j] => i = j
            BY <3>1, <3>2, <3>4, <3>7, <4>1, AppendDistinct
          <5>2. QED
            BY ZenonT(30), <3>6, <3>8, <4>1, <5>1
        <4>2. CASE ~joins
          BY <3>1, <3>2, <3>8, <4>2
        <4>3. QED
          BY <4>1, <4>2
      <3>10. QED
        BY <3>9 DEF w, Awaited
    <2>2. QED
      BY <2>1 DEF LoopGetters
  <1>7. QED
    BY <1>2, <1>3, <1>4, <1>5, <1>6

(* A task that runs for the first time or after a wake-up.                 *)
LEMMA RunLoopIInv ==
    ASSUME IInv, NEW g \in Sessions, RunLoop(g)
    PROVE  IInv'
  <1>0. /\ loop[g].pc \in {"created", "woken", "forwarding", "rejecting"}
        /\ Collect(g, loop[g].store)
        /\ UNCHANGED <<registry, launch, responses, handler, accepted>>
    BY DEF RunLoop
  <1>1. loop[g].store \in Seq(Calls)
    <2>1. loop[g] \in Loop
      BY DEF IInv, TypeOK
    <2>2. QED
      BY <2>1 DEF Loop
  <1>2. /\ requests' \in [Sessions -> [Services -> Queue(Calls, Sessions)]]
        /\ rounds' \in [Sessions -> Seq(Round)]
        /\ loop' \in [Sessions -> Loop]
        /\ LaunchInv' /\ RegistryInv' /\ LoopInv' /\ LoopGetters'
    BY <1>0, <1>1, CollectKeeps
  <1>3. TypeOK'
    BY <1>0, <1>2 DEF IInv, TypeOK
  <1>4. HandlerInv' /\ HandlerGetters'
    BY <1>0, HandlerGettersFrame DEF IInv, HandlerInv
  <1>5. QED
    BY <1>2, <1>3, <1>4 DEF IInv

(* A handler that moves on to another program point and keeps the rest.    *)
LEMMA HandlerMoves ==
    ASSUME NEW h \in Handler, NEW p \in HandlerPCs
    PROVE  /\ [h EXCEPT !.pc = p] \in Handler
           /\ [h EXCEPT !.pc = p].pc = p
           /\ [h EXCEPT !.pc = p].on = h.on
           /\ [h EXCEPT !.pc = p].sender = h.sender
  BY DEF Handler

(* A task whose round fails, before or after the response is delivered.    *)
LEMMA LoopFails ==
    ASSUME IInv, NEW g \in Sessions, loop[g].pc \in {"forwarding", "rejecting"},
           loop' = [loop EXCEPT ![g].pc = "failed"],
           UNCHANGED <<registry, launch, requests, rounds>>
    PROVE  /\ loop' \in [Sessions -> Loop]
           /\ LaunchInv' /\ RegistryInv' /\ LoopInv' /\ LoopGetters'
  <1>1. loop \in [Sessions -> Loop] /\ "failed" \in LoopPCs
    BY DEF IInv, TypeOK, LoopPCs
  <1>2. /\ loop'[g] = [loop[g] EXCEPT !.pc = "failed"]
        /\ \A h \in Sessions \ {g} : loop'[h] = loop[h]
    BY <1>1
  <1>3. /\ loop'[g].pc = "failed" /\ loop'[g].on = loop[g].on
        /\ loop'[g].store = loop[g].store /\ loop'[g] \in Loop
    BY <1>1, <1>2, LoopMoves
  <1>4. loop' \in [Sessions -> Loop]
    BY <1>1, <1>2, <1>3
  <1>5. LaunchInv'
    BY <1>2, <1>3 DEF IInv, LaunchInv
  <1>6. RegistryInv'
    BY <1>2, <1>3 DEF IInv, RegistryInv, TypeOK
  <1>7. LoopInv'
    BY <1>2, <1>3, LoopInvFrame DEF IInv
  <1>8. LoopGetters'
    BY <1>2, LoopGettersFrame
  <1>9. QED
    BY <1>4, <1>5, <1>6, <1>7, <1>8

(* A response is delivered to every variant and the handlers that waited   *)
(* longest for it are woken.                                               *)
LEMMA DeliverResponseIInv ==
    ASSUME IInv, NEW g \in Sessions, DeliverResponse(g)
    PROVE  IInv'
  <1> DEFINE target == registry[launch[g].id]
             woken  == UNION {WokenBy(responses[target][s]) : s \in Recipients(g)}
  <1>1. /\ loop[g].pc \in {"forwarding", "rejecting"}
        /\ responses' = [x \in Sessions |-> [s \in Services |->
             IF x = target /\ s \in Recipients(g)
             THEN PutNowait(responses[x][s], Response(g)) ELSE responses[x][s]]]
        /\ handler' = [c \in Calls |->
             IF c \in woken THEN [handler[c] EXCEPT !.pc = "woken"] ELSE handler[c]]
        /\ UNCHANGED <<registry, launch, accepted>>
    BY DEF DeliverResponse
  <1>2. \/ Collect(g, <<>>)
        \/ loop' = [loop EXCEPT ![g].pc = "failed"] /\ UNCHANGED <<requests, rounds>>
    BY DEF DeliverResponse, NewStore
  <1>3. /\ requests' \in [Sessions -> [Services -> Queue(Calls, Sessions)]]
        /\ rounds' \in [Sessions -> Seq(Round)]
        /\ loop' \in [Sessions -> Loop]
        /\ LaunchInv' /\ RegistryInv' /\ LoopInv' /\ LoopGetters'
    <2>1. CASE Collect(g, <<>>)
      <3>1. <<>> \in Seq(Calls)
        BY EmptySeq
      <3>2. QED
        BY <1>1, <2>1, <3>1, CollectKeeps
    <2>2. CASE loop' = [loop EXCEPT ![g].pc = "failed"] /\ UNCHANGED <<requests, rounds>>
      BY <1>1, <2>2, LoopFails DEF IInv, TypeOK
    <2>3. QED
      BY <1>2, <2>1, <2>2
  <1>4. \A s \in Recipients(g) : target \in Sessions /\ s \in Services
    <2>1. target \in Sessions \cup {None} /\ launch[g].services \in Seq(Services) /\ TypeOK
      <3>1. launch[g].id \in Ids
        BY <1>1 DEF IInv, LaunchInv
      <3>2. QED
        BY <3>1 DEF IInv, TypeOK
    <2>2. ASSUME NEW s \in Recipients(g) PROVE HasQueue(target, s)
      <3>1. PICK i \in DOMAIN launch[g].services :
               /\ s = launch[g].services[i]
               /\ \A k \in 1 .. i : HasQueue(target, launch[g].services[k])
        BY DEF Recipients
      <3>2. i \in 1 .. i
        BY <2>1, LenProperties
      <3>3. QED
        BY <3>1, <3>2
    <2>3. QED
      BY <2>1, <2>2, HasQueueType
  <1>5. Response(g) \in Answer
    <2>1. rounds[g] \in Seq(Round) /\ rounds[g] # <<>>
      BY <1>1 DEF IInv, TypeOK, LoopInv
    <2>2. Len(rounds[g]) \in Nat \ {0}
      BY <2>1, EmptySeq
    <2>3. QED
      BY <2>2 DEF Response, Answer
  <1>6. /\ responses \in [Sessions -> [Services -> Queue(Answer, Calls)]]
        /\ handler \in [Calls -> Handler] /\ "woken" \in HandlerPCs
    BY DEF IInv, TypeOK, HandlerPCs
  <1>7. \A x \in Sessions, t \in Services :
           responses[x][t] \in Queue(Answer, Calls) /\ responses[x][t].getters \in Seq(Calls)
    BY <1>6 DEF Queue
  <1> HIDE DEF target
  <1>8. ASSUME NEW c \in woken
        PROVE  \E s \in Recipients(g) :
                  /\ 1 \in DOMAIN responses[target][s].getters
                  /\ c = responses[target][s].getters[1]
    <2>1. PICK s \in Recipients(g) : c \in WokenBy(responses[target][s])
      OBVIOUS
    <2>2. responses[target][s] \in Queue(Answer, Calls)
      BY <1>4, <1>7
    <2>3. QED
      BY <2>1, <2>2, WokenByFirst
  <1> HIDE DEF woken
  <1>9. \A x \in Sessions, t \in Services :
          /\ \A i \in DOMAIN responses[x][t].getters :
                /\ handler[responses[x][t].getters[i]].pc = "waiting"
                /\ handler[responses[x][t].getters[i]].on = x
                /\ handler[responses[x][t].getters[i]].sender = t
          /\ \A i, j \in DOMAIN responses[x][t].getters :
                responses[x][t].getters[i] = responses[x][t].getters[j] => i = j
    BY DEF IInv, HandlerGetters
  <1>10. ASSUME NEW c \in Calls
         PROVE  /\ handler'[c] \in Handler
                /\ \/ handler'[c] = handler[c]
                   \/ /\ c \in woken /\ handler[c].pc = "waiting" /\ handler'[c].pc = "woken"
                      /\ handler'[c].on = handler[c].on /\ handler'[c].sender = handler[c].sender
    <2>1. handler[c] \in Handler
      BY <1>6
    <2>2. CASE c \in woken
      <3>1. handler'[c] = [handler[c] EXCEPT !.pc = "woken"]
        BY <1>1, <2>2
      <3>2. handler[c].pc = "waiting"
        BY <1>4, <1>8, <1>9, <2>2
      <3>3. QED
        BY <1>6, <2>1, <2>2, <3>1, <3>2, HandlerMoves
    <2>3. CASE c \notin woken
      BY <1>1, <2>1, <2>3
    <2>4. QED
      BY <2>2, <2>3
  <1>11. handler' \in [Calls -> Handler]
    BY <1>1, <1>10
  <1>12. ASSUME NEW x \in Sessions, NEW t \in Services
         PROVE  /\ responses'[x][t] \in Queue(Answer, Calls)
                /\ responses'[x][t].getters =
                      IF x = target /\ t \in Recipients(g)
                      THEN IF responses[x][t].getters = <<>> THEN <<>>
                           ELSE Tail(responses[x][t].getters)
                      ELSE responses[x][t].getters
    <2>1. responses'[x][t] = IF x = target /\ t \in Recipients(g)
                             THEN PutNowait(responses[x][t], Response(g)) ELSE responses[x][t]
      BY <1>1
    <2>2. responses[x][t] \in Queue(Answer, Calls)
      BY <1>7
    <2>3. QED
      BY <1>5, <2>1, <2>2, PutNowaitType
  <1>13. responses' \in [Sessions -> [Services -> Queue(Answer, Calls)]]
    BY <1>1, <1>12
  <1>14. HandlerGetters'
    <2>1. ASSUME NEW x \in Sessions, NEW t \in Services
          PROVE  /\ \A i \in DOMAIN responses'[x][t].getters :
                       /\ handler'[responses'[x][t].getters[i]].pc = "waiting"
                       /\ handler'[responses'[x][t].getters[i]].on = x
                       /\ handler'[responses'[x][t].getters[i]].sender = t
                 /\ Distinct(responses'[x][t].getters)
      <3> DEFINE w  == responses'[x][t].getters
                 w0 == responses[x][t].getters
      <3>1. /\ \A i \in DOMAIN w0 : /\ handler[w0[i]].pc = "waiting"
                                    /\ handler[w0[i]].on = x /\ handler[w0[i]].sender = t
            /\ \A i, j \in DOMAIN w0 : w0[i] = w0[j] => i = j
            /\ w0 \in Seq(Calls)
        BY <1>7, <1>9
      <3>2. w = IF x = target /\ t \in Recipients(g)
                THEN IF w0 = <<>> THEN <<>> ELSE Tail(w0) ELSE w0
        BY <1>12
      <3>3. ASSUME NEW i \in DOMAIN w0, w0[i] \in woken
            PROVE  x = target /\ t \in Recipients(g) /\ w0[i] = w0[1]
        <4>1. PICK s \in Recipients(g) :
                 /\ 1 \in DOMAIN responses[target][s].getters
                 /\ w0[i] = responses[target][s].getters[1]
          BY <1>8, <3>3
        <4>2. target \in Sessions /\ s \in Services
          BY <1>4
        <4>3. handler[w0[i]].on = target /\ handler[w0[i]].sender = s
          BY <1>9, <4>1, <4>2
        <4>4. x = target /\ t = s
          BY <3>1, <4>3
        <4>5. QED
          BY <4>1, <4>4
      <3>4. \A i \in DOMAIN w0 : w0[i] \in Calls
        BY <3>1, LenProperties, ElementOfSeq
      <3>5. /\ \A i \in DOMAIN w : \E l \in DOMAIN w0 : w[i] = w0[l] /\ w0[l] \notin woken
            /\ \A i, j \in DOMAIN w : w[i] = w[j] => i = j
        <4> HIDE DEF w, w0
        <4>1. CASE x = target /\ t \in Recipients(g) /\ w0 # <<>>
          <5>1. w = Tail(w0)
            BY <3>2, <4>1
          <5>2. /\ \A i \in DOMAIN w : i + 1 \in DOMAIN w0 /\ w[i] = w0[i + 1]
                /\ \A i, j \in DOMAIN w : w[i] = w[j] => i = j
                /\ \A i \in DOMAIN w : w[i] # w0[1]
            BY <3>1, <4>1, <5>1, TailDistinct
          <5>3. QED
            BY <3>3, <5>2
        <4>2. CASE x = target /\ t \in Recipients(g) /\ w0 = <<>>
          <5>1. DOMAIN w = {}
            BY <3>2, <4>2, EmptySeq
          <5>2. QED
            BY <5>1
        <4>3. CASE ~(x = target /\ t \in Recipients(g))
          BY <3>1, <3>2, <3>3, <4>3
        <4>4. QED
          BY <4>1, <4>2, <4>3
      <3>6. \A l \in DOMAIN w0 : w0[l] \notin woken => handler'[w0[l]] = handler[w0[l]]
        BY <1>10, <3>4
      <3> HIDE DEF w, w0
      <3>7. \A i \in DOMAIN w : /\ handler'[w[i]].pc = "waiting"
                                /\ handler'[w[i]].on = x /\ handler'[w[i]].sender = t
        BY <3>1, <3>5, <3>6
      <3>8. QED
        BY <3>5, <3>7 DEF w
    <2>2. QED
      BY <2>1 DEF HandlerGetters
  <1>15. HandlerInv'
    BY <1>10 DEF IInv, HandlerInv
  <1>16. TypeOK'
    BY <1>1, <1>3, <1>11, <1>13 DEF IInv, TypeOK
  <1>17. QED
    BY <1>3, <1>14, <1>15, <1>16 DEF IInv

-----------------------------------------------------------------------------
(* The theorems. *)

(* Every step keeps the invariant. *)
LEMMA NextIInv == IInv /\ [Next]_vars => IInv'
  <1> SUFFICES ASSUME IInv, [Next]_vars PROVE IInv'
    OBVIOUS
  <1>1. ASSUME NEW r \in Ids, NEW l \in ServiceLists, Start(r, l) PROVE IInv'
    BY <1>1, StartIInv
  <1>2. ASSUME NEW r \in Ids, Stop(r) PROVE IInv'
    BY <1>2, StopIInv
  <1>3. ASSUME NEW c \in Calls, NEW g \in Sessions, NEW s \in Services,
               NEW x \in Contents, NEW h \in Hosts, Submit(c, g, s, x, h)
        PROVE  IInv'
    BY <1>3, SubmitIInv
  <1>4. ASSUME NEW c \in Calls, ResumeHandler(c) PROVE IInv'
    BY <1>4, ResumeHandlerIInv
  <1>5. ASSUME NEW g \in Sessions, RunLoop(g) PROVE IInv'
    BY <1>5, RunLoopIInv
  <1>6. ASSUME NEW g \in Sessions, DeliverResponse(g) PROVE IInv'
    BY <1>6, DeliverResponseIInv
  <1>7. ASSUME NEW g \in Sessions, RoundFails(g) PROVE IInv'
    BY <1>7, RoundFailsIInv
  <1>8. ASSUME NEW g \in Sessions, HandleCancelled(g) PROVE IInv'
    BY <1>8, HandleCancelledIInv
  <1>9. CASE UNCHANGED vars
    <2>1. LoopGetters' /\ HandlerGetters'
      BY <1>9, LoopGettersFrame, HandlerGettersFrame DEF vars
    <2>2. TypeOK' /\ LaunchInv' /\ RegistryInv' /\ LoopInv' /\ HandlerInv'
      BY <1>9 DEF vars, IInv, TypeOK, LaunchInv, RegistryInv, LoopInv, HandlerInv,
                  Awaited, ServicesOf
    <2>3. QED
      BY <2>1, <2>2 DEF IInv
  <1>10. QED
    BY <1>1, <1>2, <1>3, <1>4, <1>5, <1>6, <1>7, <1>8, <1>9 DEF Next

(* The coroutines, the registries and the waiting lists of the egress      *)
(* proxy always fit together (IInv), whatever the chooser and the variants *)
(* send: the whole of main.py's tasks, requests_queues, response_queues.   *)
THEOREM Consistent == Spec => []IInv
  BY InitIInv, NextIInv, PTL DEF Spec

(* Every state of the egress proxy has the types TypeOK states: a queue    *)
(* never holds anything but calls (or responses) and waiting coroutines.   *)
THEOREM TypeCorrect == Spec => []TypeOK
  <1>1. IInv => TypeOK
    BY DEF IInv
  <1>2. QED
    BY Consistent, <1>1, PTL
=============================================================================
