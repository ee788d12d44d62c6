-------------------------- MODULE EgressProxyOrder --------------------------
(***************************************************************************)
(* The order the egress proxy keeps when no id is started twice: the n-th  *)
(* round of a session holds the n-th call of each variant, although every  *)
(* variant calls at its own pace, and a variant that waits for the answer  *)
(* to a call before it makes the next has its n-th call answered with the  *)
(* outcome of the n-th round.  With both, the proxy is shown to implement  *)
(* UnanimityGate step by step.                                             *)
(***************************************************************************)
EXTENDS EgressProxyGate, EgressProxySafety, FiniteSetTheorems

-----------------------------------------------------------------------------
(* The inductive invariant of the pairing of calls.                        *)

(* A loop waits at the queues of its own session only.                     *)
OwnQueue == \A g \in Sessions : loop[g].on \in {g, None}

(* The calls of the i-th service that g has taken from its queue: one for  *)
(* each round, and one more if the round under way has it.                 *)
Taken(g, i) ==
    IF Collecting(g) /\ i \in DOMAIN loop[g].store THEN Len(rounds[g]) + 1 ELSE Len(rounds[g])

(* items are what is left of acc after its first t elements.               *)
Follows(acc, items, t) ==
    /\ Len(acc) = t + Len(items)
    /\ \A k \in DOMAIN items : items[k] = acc[t + k]

InStep(g, i) ==
    /\ Follows(accepted[g][launch[g].services[i]],
               requests[g][launch[g].services[i]].items, Taken(g, i))
    /\ Collecting(g) /\ i \in DOMAIN loop[g].store =>
          loop[g].store[i] = accepted[g][launch[g].services[i]][Taken(g, i)]

(* The n-th round of g holds the n-th call of each of its services.        *)
RoundsInStep(g) ==
    \A n \in DOMAIN rounds[g] : \A i \in DOMAIN rounds[g][n].store :
        /\ n \in DOMAIN accepted[g][launch[g].services[i]]
        /\ rounds[g][n].store[i] = accepted[g][launch[g].services[i]][n]

(* A session that does not exist yet has received no call.                 *)
Unused(g) ==
    loop[g].pc = "none" =>
        \A s \in Services : accepted[g][s] = <<>> /\ requests[g][s].items = <<>>

SessionOrdered(g) ==
    /\ Unused(g) /\ RoundsInStep(g)
    /\ Active(g) => \A i \in DOMAIN launch[g].services : InStep(g, i)

OrderInv ==
    OrphanInv /\ SortedInv /\ OwnQueue /\ \A g \in Sessions : SessionOrdered(g)

-----------------------------------------------------------------------------
(* Sequences.                                                              *)

(* The first of what is left comes next.                                   *)
LEMMA FollowsTake ==
    ASSUME NEW S, NEW acc \in Seq(S), NEW items \in Seq(S), NEW t \in Nat,
           Follows(acc, items, t), items # <<>>
    PROVE  /\ Follows(acc, Tail(items), t + 1)
           /\ t + 1 \in DOMAIN acc /\ Head(items) = acc[t + 1]
  <1>1. /\ Len(items) \in Nat \ {0} /\ DOMAIN items = 1 .. Len(items)
        /\ Len(acc) \in Nat /\ DOMAIN acc = 1 .. Len(acc)
    BY EmptySeq, LenProperties
  <1>2. Len(acc) = t + Len(items) /\ \A k \in 1 .. Len(items) : items[k] = acc[t + k]
    BY <1>1 DEF Follows
  <1>3. /\ Tail(items) \in Seq(S) /\ Len(Tail(items)) = Len(items) - 1
        /\ \A k \in 1 .. Len(Tail(items)) : Tail(items)[k] = items[k + 1]
        /\ Head(items) = items[1]
    BY HeadTailProperties, <1>1
  <1>4. DOMAIN Tail(items) = 1 .. Len(items) - 1
    BY <1>3, LenProperties
  <1>5. t + 1 \in DOMAIN acc /\ Head(items) = acc[t + 1]
    BY <1>1, <1>2, <1>3
  <1>6. ASSUME NEW k \in 1 .. Len(items) - 1
        PROVE  Tail(items)[k] = acc[t + 1 + k]
    <2>1. k + 1 \in 1 .. Len(items) /\ t + (k + 1) = t + 1 + k
      BY <1>1
    <2>2. Tail(items)[k] = items[k + 1]
      BY <1>3
    <2>3. items[k + 1] = acc[t + (k + 1)]
      BY <1>2, <2>1
    <2>4. QED
      BY <2>1, <2>2, <2>3
  <1>7. Len(acc) = t + 1 + Len(Tail(items))
    BY <1>1, <1>2, <1>3
  <1>8. QED
    BY <1>4, <1>5, <1>6, <1>7 DEF Follows

(* What is put at the end of both is in its place.                         *)
LEMMA FollowsPut ==
    ASSUME NEW S, NEW acc \in Seq(S), NEW items \in Seq(S), NEW t \in Nat, NEW c \in S,
           Follows(acc, items, t)
    PROVE  Follows(Append(acc, c), Append(items, c), t)
  <1>1. /\ Len(items) \in Nat /\ DOMAIN items = 1 .. Len(items)
        /\ Len(acc) \in Nat /\ DOMAIN acc = 1 .. Len(acc)
    BY LenProperties
  <1>2. Len(acc) = t + Len(items) /\ \A k \in 1 .. Len(items) : items[k] = acc[t + k]
    BY <1>1 DEF Follows
  <1>3. /\ Append(acc, c) \in Seq(S) /\ Len(Append(acc, c)) = Len(acc) + 1
        /\ \A k \in 1 .. Len(acc) : Append(acc, c)[k] = acc[k]
        /\ Append(acc, c)[Len(acc) + 1] = c
        /\ Append(items, c) \in Seq(S) /\ Len(Append(items, c)) = Len(items) + 1
        /\ \A k \in 1 .. Len(items) : Append(items, c)[k] = items[k]
        /\ Append(items, c)[Len(items) + 1] = c
    BY AppendProperties
  <1>4. DOMAIN Append(items, c) = 1 .. Len(items) + 1
    BY <1>3, LenProperties
  <1>5. ASSUME NEW k \in 1 .. Len(items) + 1
        PROVE  Append(items, c)[k] = Append(acc, c)[t + k]
    <2>1. CASE k = Len(items) + 1
      BY <1>1, <1>2, <1>3, <2>1
    <2>2. CASE k # Len(items) + 1
      <3>1. k \in 1 .. Len(items) /\ t + k \in 1 .. Len(acc)
        BY <1>1, <1>2, <2>2
      <3>2. QED
        BY <1>2, <1>3, <3>1
    <2>3. QED
      BY <2>1, <2>2
  <1>6. Len(Append(acc, c)) = t + Len(Append(items, c))
    BY <1>1, <1>2, <1>3
  <1>7. QED
    BY <1>4, <1>5, <1>6 DEF Follows

(* An element that joins the end leaves the others where they are.         *)
LEMMA AppendKeeps ==
    ASSUME NEW S, NEW w \in Seq(S), NEW c \in S
    PROVE  /\ Append(w, c) \in Seq(S) /\ Len(w) \in Nat
           /\ Len(Append(w, c)) = Len(w) + 1
           /\ DOMAIN w = 1 .. Len(w) /\ DOMAIN Append(w, c) = 1 .. Len(w) + 1
           /\ \A k \in DOMAIN w : k \in DOMAIN Append(w, c) /\ Append(w, c)[k] = w[k]
           /\ Append(w, c)[Len(w) + 1] = c
  <1>1. /\ Append(w, c) \in Seq(S) /\ Len(Append(w, c)) = Len(w) + 1
        /\ \A k \in 1 .. Len(w) : Append(w, c)[k] = w[k]
        /\ Append(w, c)[Len(w) + 1] = c
    BY AppendProperties
  <1>2. /\ Len(w) \in Nat /\ DOMAIN w = 1 .. Len(w)
        /\ DOMAIN Append(w, c) = 1 .. Len(w) + 1
    BY <1>1, LenProperties
  <1>3. QED
    BY <1>1, <1>2

-----------------------------------------------------------------------------
(* A loop that collects from the queues of its own session takes the first *)
(* call of each service it gets to, in the order of the services.          *)

(* Without redelivery a running loop reads from the queues of its session. *)
LEMMA OwnSource ==
    ASSUME OrphanInv, OwnQueue, NEW g \in Sessions, Active(g), NEW i
    PROVE  Source(g, i) = g
  <1>1. registry[launch[g].id] = g
    BY DEF OrphanInv, NoOrphanLoop, Active
  <1>2. loop[g].pc = "woken" => loop[g].on = g
    BY DEF OrphanInv, IInv, LoopInv, OwnQueue
  <1>3. QED
    BY <1>1, <1>2 DEF Source

(* The services of a session, each at one place of its list.               *)
LEMMA ServicesType ==
    ASSUME IInv, NEW g \in Sessions, loop[g].pc # "none"
    PROVE  /\ Len(launch[g].services) \in Nat \ {0}
           /\ DOMAIN launch[g].services = 1 .. Len(launch[g].services)
           /\ \A i \in DOMAIN launch[g].services :
                 launch[g].services[i] \in Services /\ launch[g].services[i] \in ServicesOf(g)
           /\ \A i, j \in DOMAIN launch[g].services :
                 launch[g].services[i] = launch[g].services[j] => i = j
  <1>1. launch[g].services \in ServiceLists
    BY DEF IInv, LaunchInv
  <1>2. QED
    BY <1>1, ListType, ServiceListsAssumption DEF ServicesOf

(* The call of the i-th service is taken from the head of its queue.       *)
TakesOwn(g, i) ==
    /\ requests[g][launch[g].services[i]].items # <<>>
    /\ loop'[g].store[i] = Head(requests[g][launch[g].services[i]].items)
    /\ requests'[g][launch[g].services[i]].items = Tail(requests[g][launch[g].services[i]].items)

(* A stretch that started with store ends when n - 1 calls are held.       *)
CollectsOwn(g, store, n) ==
    /\ Len(loop'[g].store) = n - 1 /\ loop'[g].on \in {g, None}
    /\ \A i \in 1 .. n - 1 : IF i <= Len(store) THEN loop'[g].store[i] = store[i]
                                               ELSE TakesOwn(g, i)
    /\ \A i \in 1 .. Len(launch[g].services) : i <= Len(store) \/ i >= n =>
          requests'[g][launch[g].services[i]].items = requests[g][launch[g].services[i]].items
    /\ \A x \in Sessions \ {g}, s \in Services : requests'[x][s].items = requests[x][s].items
    /\ \/ /\ n = Len(launch[g].services) + 1
          /\ loop'[g].pc \in {"forwarding", "rejecting"}
          /\ rounds'[g] = Append(rounds[g],
                [store |-> loop'[g].store, forwarded |-> Unanimous(loop'[g].store)])
       \/ loop'[g].pc \in {"waiting", "failed"} /\ rounds'[g] = rounds[g]

LEMMA CollectOwn ==
    ASSUME IInv, NEW g \in Sessions, NEW store \in Seq(Calls), loop[g].pc # "none",
           Collect(g, store), Len(store) <= Len(launch[g].services),
           \A i : Source(g, i) = g
    PROVE  \E n \in Len(store) + 1 .. Len(launch[g].services) + 1 : CollectsOwn(g, store, n)
  <1> DEFINE services == launch[g].services
             from     == Len(store) + 1
             got(n)   == [i \in 1 .. n - 1 |->
                            IF i < from THEN store[i]
                            ELSE Head(requests[Source(g, i)][services[i]].items)]
             Took(n, x, s) == \E i \in from .. n - 1 : Source(g, i) = x /\ services[i] = s
             rest(n)  == [x \in Sessions |-> [s \in Services |->
                            IF Took(n, x, s) THEN GetNowait(requests[x][s]) ELSE requests[x][s]]]
             Decides(n) ==
               /\ n = Len(services) + 1
               /\ requests' = rest(n)
               /\ rounds' = [rounds EXCEPT ![g] =
                    Append(@, [store |-> got(n), forwarded |-> Unanimous(got(n))])]
               /\ loop' = [loop EXCEPT ![g] =
                    [pc |-> IF Unanimous(got(n)) THEN "forwarding" ELSE "rejecting",
                     on |-> None, store |-> got(n)]]
             Waits(n) ==
               /\ HasQueue(Source(g, n), services[n])
               /\ requests' = [rest(n) EXCEPT ![Source(g, n)][services[n]] = BlockOn(@, g)]
               /\ loop' = [loop EXCEPT ![g] =
                    [pc |-> "waiting", on |-> Source(g, n), store |-> got(n)]]
               /\ UNCHANGED rounds
             Fails(n) ==
               /\ requests' = rest(n)
               /\ loop' = [loop EXCEPT ![g] = [pc |-> "failed", on |-> None, store |-> got(n)]]
               /\ UNCHANGED rounds
  <1>1. PICK stop \in from .. Len(services) + 1 :
           /\ \A i \in from .. stop - 1 : Readable(g, i)
           /\ Decides(stop) \/ Waits(stop) \/ Fails(stop)
    BY DEF Collect
  <1>2. /\ requests \in [Sessions -> [Services -> Queue(Calls, Sessions)]]
        /\ loop \in [Sessions -> Loop] /\ rounds \in [Sessions -> Seq(Round)]
    BY DEF IInv, TypeOK
  <1>3. /\ Len(services) \in Nat \ {0} /\ DOMAIN services = 1 .. Len(services)
        /\ \A i \in DOMAIN services : services[i] \in Services
        /\ \A i, j \in DOMAIN services : services[i] = services[j] => i = j
    BY ServicesType
  <1>4. Len(store) \in Nat /\ DOMAIN store = 1 .. Len(store)
    BY LenProperties
  <1>5. /\ stop \in Nat \ {0} /\ stop - 1 \in Nat /\ stop - 1 <= Len(services)
        /\ stop \in Len(store) + 1 .. Len(launch[g].services) + 1
    <2> HIDE DEF services
    <2>1. stop \in Len(store) + 1 .. Len(services) + 1
      BY <1>1
    <2>2. QED
      BY <1>3, <1>4, <2>1 DEF services
  <1>6. \A i \in from .. stop - 1 : requests[g][services[i]].items # <<>>
    BY <1>1 DEF Readable, IsEmpty
  <1> HIDE DEF services
  <1>7. \A i \in from .. stop - 1 : i \in DOMAIN services /\ services[i] \in Services
    BY <1>3, <1>4, <1>5
  <1>8. ASSUME NEW i \in 1 .. stop - 1
        PROVE  got(stop)[i] = IF i <= Len(store) THEN store[i]
                              ELSE Head(requests[g][services[i]].items)
    BY <1>4, <1>5
  <1>9. Len(got(stop)) = stop - 1
    <2> DEFINE f == got(stop)
    <2>1. \A i \in 1 .. stop - 1 : f[i] \in Calls
      <3>1. ASSUME NEW i \in 1 .. stop - 1, i <= Len(store) PROVE f[i] \in Calls
        <4>1. i \in 1 .. Len(store)
          BY <1>4, <3>1
        <4>2. f[i] = store[i]
          BY <1>8, <3>1
        <4> HIDE DEF f, got
        <4>3. QED
          BY <4>1, <4>2, ElementOfSeq
      <3>2. ASSUME NEW i \in 1 .. stop - 1, ~(i <= Len(store)) PROVE f[i] \in Calls
        <4>1. i \in from .. stop - 1
          BY <1>4, <1>5, <3>2
        <4>2. f[i] = Head(requests[g][services[i]].items)
          BY <1>8, <3>2
        <4> HIDE DEF f, got
        <4>3. requests[g][services[i]].items \in Seq(Calls)
          BY <1>7, <4>1, ItemType
        <4>4. QED
          BY <1>6, <4>1, <4>2, <4>3, HeadTailProperties
      <3>3. QED
        BY <3>1, <3>2
    <2>2. f \in [1 .. stop - 1 -> Calls]
      BY <2>1
    <2> HIDE DEF f, got
    <2>3. f \in Seq(Calls)
      BY <1>5, <2>2, SeqDef
    <2>4. DOMAIN f = 1 .. Len(f) /\ Len(f) \in Nat /\ DOMAIN f = 1 .. stop - 1
      BY <2>2, <2>3, LenProperties
    <2>5. Len(f) = stop - 1
      BY <1>5, <2>4
    <2>6. QED
      BY <2>5 DEF f
  <1> DEFINE Popped1(q) ==
        /\ \A i \in from .. stop - 1 :
              q[g][services[i]].items = Tail(requests[g][services[i]].items)
        /\ \A i \in 1 .. Len(services) : i < from \/ i >= stop =>
              q[g][services[i]].items = requests[g][services[i]].items
        /\ \A x \in Sessions \ {g}, s \in Services : q[x][s].items = requests[x][s].items
  <1>10. Popped1(rest(stop))
    <2>1. ASSUME NEW i \in from .. stop - 1
          PROVE  rest(stop)[g][services[i]].items = Tail(requests[g][services[i]].items)
      <3>1. Took(stop, g, services[i]) /\ services[i] \in Services
        BY <1>7
      <3>2. rest(stop)[g][services[i]] = GetNowait(requests[g][services[i]])
        BY <3>1
      <3> HIDE DEF rest, Took
      <3>3. /\ requests[g][services[i]] \in Queue(Calls, Sessions)
            /\ ~IsEmpty(requests[g][services[i]])
        BY <1>2, <1>6, <3>1 DEF IsEmpty
      <3>4. QED
        BY <3>2, <3>3, GetNowaitType
    <2>2. ASSUME NEW i \in 1 .. Len(services), i < from \/ i >= stop
          PROVE  rest(stop)[g][services[i]].items = requests[g][services[i]].items
      <3>1. ASSUME NEW j \in from .. stop - 1, services[j] = services[i] PROVE FALSE
        <4>1. j \in DOMAIN services /\ i \in DOMAIN services
          BY <1>3, <1>7
        <4>2. i = j
          BY <1>3, <3>1, <4>1
        <4>3. QED
          BY <1>4, <1>5, <2>2, <4>2
      <3>2. services[i] \in Services
        BY <1>3
      <3>3. ~Took(stop, g, services[i])
        BY <3>1
      <3> HIDE DEF Took
      <3>4. QED
        BY <3>2, <3>3
    <2>3. ASSUME NEW x \in Sessions \ {g}, NEW s \in Services
          PROVE  rest(stop)[x][s].items = requests[x][s].items
      <3>1. ~Took(stop, x, s)
        OBVIOUS
      <3> HIDE DEF Took
      <3>2. QED
        BY <3>1
    <2> HIDE DEF rest
    <2>4. QED
      BY <2>1, <2>2, <2>3
  <1>11. /\ DOMAIN rest(stop) = Sessions
         /\ \A x \in Sessions : DOMAIN rest(stop)[x] = Services
    OBVIOUS
  <1> HIDE DEF got, rest, Took
  <1>12. ASSUME loop'[g].store = got(stop), loop'[g].on \in {g, None}, Popped1(requests'),
                \/ /\ stop = Len(services) + 1
                   /\ loop'[g].pc \in {"forwarding", "rejecting"}
                   /\ rounds'[g] = Append(rounds[g],
                         [store |-> got(stop), forwarded |-> Unanimous(got(stop))])
                \/ loop'[g].pc \in {"waiting", "failed"} /\ rounds'[g] = rounds[g]
         PROVE  CollectsOwn(g, store, stop)
    <2>1. Len(loop'[g].store) = stop - 1
      BY <1>9, <1>12
    <2>2. ASSUME NEW i \in 1 .. stop - 1
          PROVE  IF i <= Len(store) THEN loop'[g].store[i] = store[i] ELSE TakesOwn(g, i)
      <3>1. CASE i <= Len(store)
        BY <1>8, <1>12, <3>1
      <3>2. CASE ~(i <= Len(store))
        <4>1. i \in from .. stop - 1
          BY <1>4, <1>5, <3>2
        <4>2. loop'[g].store[i] = Head(requests[g][services[i]].items)
          BY <1>8, <1>12, <3>2
        <4>3. requests'[g][services[i]].items = Tail(requests[g][services[i]].items)
          BY <1>12, <4>1
        <4>4. QED
          BY <1>6, <3>2, <4>1, <4>2, <4>3 DEF TakesOwn, services
      <3>3. QED
        BY <3>1, <3>2
    <2>3. \A i \in 1 .. Len(services) : i <= Len(store) \/ i >= stop =>
             requests'[g][services[i]].items = requests[g][services[i]].items
      BY <1>4, <1>12
    <2>4. QED
      BY <1>12, <2>1, <2>2, <2>3 DEF CollectsOwn, services
  <1>13. CASE Decides(stop)
    <2>1. /\ loop'[g].store = got(stop) /\ loop'[g].on = None
          /\ loop'[g].pc \in {"forwarding", "rejecting"}
          /\ rounds'[g] = Append(rounds[g],
                [store |-> got(stop), forwarded |-> Unanimous(got(stop))])
      BY <1>2, <1>13
    <2>2. Popped1(requests')
      BY <1>10, <1>13
    <2>3. QED
      BY <1>5, <1>12, <1>13, <2>1, <2>2
  <1>14. CASE Waits(stop)
    <2>1. Source(g, stop) = g /\ services[stop] \in Services
      <3>1. TypeOK /\ HasQueue(g, services[stop])
        BY <1>14 DEF IInv
      <3>2. QED
        BY <3>1, HasQueueType
    <2>2. \A x \in Sessions, s \in Services :
             requests'[x][s].items = rest(stop)[x][s].items
      BY <1>11, <1>14, <2>1 DEF BlockOn
    <2>3. Popped1(requests')
      <3>1. \A i \in from .. stop - 1 : services[i] \in Services
        BY <1>7
      <3>2. \A i \in 1 .. Len(services) : services[i] \in Services
        BY <1>3
      <3>3. QED
        BY <1>10, <2>2, <3>1, <3>2
    <2>4. /\ loop'[g].store = got(stop) /\ loop'[g].on = g
          /\ loop'[g].pc = "waiting" /\ rounds'[g] = rounds[g]
      BY <1>2, <1>14, <2>1
    <2>5. QED
      BY <1>5, <1>12, <2>3, <2>4
  <1>15. CASE Fails(stop)
    <2>1. /\ loop'[g].store = got(stop) /\ loop'[g].on = None
          /\ loop'[g].pc = "failed" /\ rounds'[g] = rounds[g]
      BY <1>2, <1>15
    <2>2. Popped1(requests')
      BY <1>10, <1>15
    <2>3. QED
      BY <1>5, <1>12, <2>1, <2>2
  <1>16. QED
    BY <1>1, <1>13, <1>14, <1>15

-----------------------------------------------------------------------------
(* What the steps do to the loops.                                         *)

(* g takes no call and starts no round: it may be woken or end.            *)
Quiet(g) ==
    /\ loop'[g].store = loop[g].store /\ loop'[g].on \in {loop[g].on, None}
    /\ Active(g)' => Active(g) /\ (Collecting(g)' <=> Collecting(g))
    /\ loop'[g].pc = "none" <=> loop[g].pc = "none"

LEMMA LoopQuiet ==
    ASSUME NEW g \in Sessions, loop'[g] = loop[g]
    PROVE  Quiet(g)
  BY DEF Quiet, Active, Collecting

(* A wake-up only makes loops that wait ready to run. *)
LEMMA WakeQuiet ==
    ASSUME IInv, NEW x \in Sessions, NEW s \in Services,
           loop' = Wake(WokenBy(requests[x][s])), NEW g \in Sessions
    PROVE  Quiet(g)
  <1>1. loop[g] \in Loop
    BY DEF IInv, TypeOK
  <1>2. g \in WokenBy(requests[x][s]) => loop[g].pc = "waiting"
    BY WakeActive
  <1>3. CASE g \in WokenBy(requests[x][s])
    <2>1. loop'[g] = [loop[g] EXCEPT !.pc = "woken"]
      BY <1>3 DEF Wake
    <2>2. /\ loop'[g].pc = "woken" /\ loop'[g].on = loop[g].on
          /\ loop'[g].store = loop[g].store
      BY <1>1, <2>1 DEF Loop
    <2>3. QED
      BY <1>2, <1>3, <2>2 DEF Quiet, Active, Collecting
  <1>4. CASE g \notin WokenBy(requests[x][s])
    BY <1>4, LoopQuiet DEF Wake
  <1>5. QED
    BY <1>3, <1>4

LEMMA StopQuiet ==
    ASSUME IInv, NEW r \in Ids, Stop(r), NEW g \in Sessions
    PROVE  Quiet(g)
  <1>1. loop \in [Sessions -> Loop] /\ registry[r] \in Sessions
    BY DEF IInv, TypeOK, Stop
  <1>2. PICK h \in Sessions : Cancel(h)
    BY <1>1 DEF Stop
  <1>3. \/ loop' = [loop EXCEPT ![h].pc = "cancelled", ![h].on = None] /\ loop[h].pc # "none"
        \/ loop' = [loop EXCEPT ![h].pc = "cancelled"] /\ loop[h].pc # "none"
        \/ loop' = loop
    BY <1>2 DEF Cancel
  <1>4. CASE g = h /\ loop' # loop
    <2>1. loop'[h].pc = "cancelled" /\ loop[h].pc # "none"
          /\ loop'[h].store = loop[h].store /\ loop'[h].on \in {loop[h].on, None}
      <3>1. CASE loop' = [loop EXCEPT ![h].pc = "cancelled", ![h].on = None]
        BY <1>1, <1>3, <1>4, <3>1 DEF Loop
      <3>2. CASE loop' = [loop EXCEPT ![h].pc = "cancelled"]
        BY <1>1, <1>3, <1>4, <3>2 DEF Loop
      <3>3. QED
        BY <1>3, <1>4, <3>1, <3>2
    <2>2. QED
      BY <1>4, <2>1 DEF Quiet, Active
  <1>5. CASE ~(g = h /\ loop' # loop)
    <2>1. loop'[g] = loop[g]
      BY <1>1, <1>3, <1>5
    <2>2. QED
      BY <2>1, LoopQuiet
  <1>6. QED
    BY <1>4, <1>5

LEMMA HandleCancelledQuiet ==
    ASSUME IInv, NEW h \in Sessions, HandleCancelled(h), NEW g \in Sessions
    PROVE  Quiet(g)
  <1> DEFINE x == loop[h].on
             s == Awaited(h)
             lp == Wake(WokenBy(requests[x][s]))
  <1>1. loop \in [Sessions -> Loop]
    BY DEF IInv, TypeOK
  <1>2. /\ loop[h].pc = "cancelled"
        /\ \/ loop' = [loop EXCEPT ![h].pc = "returned"]
           \/ x # None /\ loop' = [lp EXCEPT ![h].pc = "returned"]
    BY DEF HandleCancelled
  <1>3. CASE loop' = [loop EXCEPT ![h].pc = "returned"]
    <2>1. CASE g = h
      <3>1. loop'[g].pc = "returned" /\ loop'[g].store = loop[g].store
            /\ loop'[g].on = loop[g].on
        BY <1>1, <1>3, <2>1 DEF Loop
      <3>2. QED
        BY <1>2, <2>1, <3>1 DEF Quiet, Active
    <2>2. CASE g # h
      BY <1>1, <1>3, <2>2, LoopQuiet
    <2>3. QED
      BY <2>1, <2>2
  <1>4. CASE x # None /\ loop' = [lp EXCEPT ![h].pc = "returned"]
    <2>1. x \in Sessions \cup {None} /\ HasQueue(x, s) /\ TypeOK
      BY <1>1, <1>4 DEF Loop, HasQueue, IInv, LoopInv
    <2>2. x \in Sessions /\ s \in Services
      BY <2>1, HasQueueType
    <2> HIDE DEF x, s
    <2>3. ASSUME NEW k \in WokenBy(requests[x][s]) PROVE loop[k].pc = "waiting"
      BY <2>2, WakeActive
    <2>4. h \notin WokenBy(requests[x][s])
      BY <1>2, <2>3
    <2>5. lp[h] = loop[h]
      BY <2>4 DEF Wake
    <2>6. lp = [k \in Sessions |-> lp[k]]
      BY DEF Wake
    <2>7. CASE g = h
      <3>1. loop'[g] = [loop[g] EXCEPT !.pc = "returned"]
        <4> HIDE DEF lp
        <4>1. QED
          BY <1>4, <2>5, <2>6, <2>7
      <3>2. loop'[g].pc = "returned" /\ loop'[g].store = loop[g].store
            /\ loop'[g].on = loop[g].on
        BY <1>1, <3>1 DEF Loop
      <3>3. QED
        BY <1>2, <2>7, <3>2 DEF Quiet, Active
    <2>8. CASE g # h
      <3>1. loop'[g] = lp[g]
        <4> HIDE DEF lp
        <4>1. QED
          BY <1>4, <2>6, <2>8
      <3>2. CASE g \in WokenBy(requests[x][s])
        <4>1. loop'[g] = [loop[g] EXCEPT !.pc = "woken"] /\ loop[g].pc = "waiting"
          BY <2>3, <3>1, <3>2 DEF Wake
        <4>2. /\ loop'[g].pc = "woken" /\ loop'[g].on = loop[g].on
              /\ loop'[g].store = loop[g].store
          BY <1>1, <4>1 DEF Loop
        <4>3. QED
          BY <4>1, <4>2 DEF Quiet, Active, Collecting
      <3>3. CASE g \notin WokenBy(requests[x][s])
        BY <3>1, <3>3, LoopQuiet DEF Wake
      <3>4. QED
        BY <3>2, <3>3
    <2>9. QED
      BY <2>7, <2>8
  <1>5. QED
    BY <1>2, <1>3, <1>4

LEMMA FailsQuiet ==
    ASSUME IInv, NEW h \in Sessions, loop[h].pc # "none",
           loop' = [loop EXCEPT ![h].pc = "failed"], NEW g \in Sessions
    PROVE  Quiet(g)
  <1>1. loop \in [Sessions -> Loop] /\ loop[h].pc # "none"
        /\ loop' = [loop EXCEPT ![h].pc = "failed"]
    BY DEF IInv, TypeOK
  <1>2. CASE g = h
    <2>1. loop'[g].pc = "failed" /\ loop'[g].store = loop[g].store
          /\ loop'[g].on = loop[g].on
      BY <1>1, <1>2 DEF Loop
    <2>2. QED
      BY <1>1, <1>2, <2>1 DEF Quiet, Active
  <1>3. CASE g # h
    BY <1>1, <1>3, LoopQuiet
  <1>4. QED
    BY <1>2, <1>3

(* A call a variant makes reaches the queue of its own session, or none.   *)
LEMMA SubmitOwn ==
    ASSUME OrphanInv, NEW c \in Calls, NEW g \in Sessions, NEW s \in Services,
           NEW x \in Contents, NEW h \in Hosts, Submit(c, g, s, x, h)
    PROVE  /\ registry[launch[g].id] \in {g, None}
           /\ loop[g].pc # "none" /\ s \in ServicesOf(g) /\ handler[c].pc = "idle"
           /\ UNCHANGED <<registry, launch, rounds>>
  <1>1. IInv /\ IdsUnique /\ Started(g) /\ s \in ServicesOf(g)
    BY DEF OrphanInv, Submit
  <1>2. loop[g].pc # "none" /\ launch[g].id \in Ids
    BY <1>1 DEF IInv, LaunchInv, Started
  <1>3. registry[launch[g].id] \in Sessions \cup {None}
    BY <1>1, RegistryType
  <1>4. registry[launch[g].id] # None => launch[registry[launch[g].id]].id = launch[g].id
    BY <1>1, <1>2 DEF IInv, RegistryInv
  <1>5. registry[launch[g].id] \in {g, None}
    BY <1>1, <1>3, <1>4 DEF IdsUnique, Started
  <1>6. QED
    BY <1>1, <1>2, <1>5 DEF Submit

LEMMA SubmitQuiet ==
    ASSUME OrphanInv, NEW c \in Calls, NEW g \in Sessions, NEW s \in Services,
           NEW x \in Contents, NEW h \in Hosts, Submit(c, g, s, x, h), NEW k \in Sessions
    PROVE  Quiet(k)
  <1>1. IInv /\ registry[launch[g].id] \in {g, None}
    BY SubmitOwn DEF OrphanInv
  <1>2. \/ UNCHANGED loop
        \/ /\ registry[launch[g].id] = g
           /\ loop' = Wake(WokenBy(requests[registry[launch[g].id]][s]))
    BY <1>1 DEF Submit, HasQueue
  <1>3. CASE UNCHANGED loop
    BY <1>3, LoopQuiet
  <1>4. CASE loop' = Wake(WokenBy(requests[g][s]))
    BY <1>1, <1>4, WakeQuiet
  <1>5. QED
    BY <1>2, <1>3, <1>4

-----------------------------------------------------------------------------
(* The steps keep the order.                                               *)

LEMMA AcceptedType ==
    ASSUME IInv, NEW g \in Sessions, NEW s \in Services
    PROVE  /\ accepted[g][s] \in Seq(Calls) /\ Len(accepted[g][s]) \in Nat
           /\ DOMAIN accepted[g][s] = 1 .. Len(accepted[g][s])
           /\ \A k \in DOMAIN accepted[g][s] : accepted[g][s][k] \in Calls
  <1>1. accepted[g][s] \in Seq(Calls)
    BY DEF IInv, TypeOK
  <1>2. QED
    BY <1>1, LenProperties, ElementOfSeq

(* A session whose loop takes nothing and that is called by nobody.        *)
LEMMA OrderedFrame ==
    ASSUME IInv, NEW g \in Sessions, SessionOrdered(g), Quiet(g),
           launch'[g] = launch[g], rounds'[g] = rounds[g], accepted'[g] = accepted[g],
           \A s \in Services : requests'[g][s].items = requests[g][s].items
    PROVE  SessionOrdered(g)'
  <1>1. Unused(g)'
    BY DEF SessionOrdered, Unused, Quiet
  <1>2. RoundsInStep(g)'
    BY DEF SessionOrdered, RoundsInStep
  <1>3. ASSUME Active(g)', NEW i \in DOMAIN launch[g].services
        PROVE  InStep(g, i)'
    <2>1. /\ Collecting(g)' <=> Collecting(g)
          /\ loop'[g].store = loop[g].store /\ loop[g].pc # "none"
      BY <1>3 DEF Quiet, Active
    <2>2. launch[g].services[i] \in Services
      BY <2>1, ServicesType
    <2>3. InStep(g, i)
      BY <1>3 DEF SessionOrdered, Quiet
    <2>4. Taken(g, i)' = Taken(g, i)
      BY <2>1 DEF Taken
    <2>5. QED
      BY <2>1, <2>2, <2>3, <2>4 DEF InStep
  <1>4. QED
    BY <1>1, <1>2, <1>3 DEF SessionOrdered

(* The call is put at the end of the queue and comes last in the order.    *)
LEMMA SubmitOrdered ==
    ASSUME OrphanInv, NEW c \in Calls, NEW g \in Sessions, NEW s \in Services,
           NEW x \in Contents, NEW h \in Hosts, Submit(c, g, s, x, h),
           NEW k \in Sessions, SessionOrdered(k)
    PROVE  SessionOrdered(k)'
  <1>1. /\ registry[launch[g].id] \in {g, None} /\ loop[g].pc # "none"
        /\ UNCHANGED <<registry, launch, rounds>> /\ IInv /\ s \in ServicesOf(g)
    BY SubmitOwn DEF OrphanInv
  <1>2. Quiet(k)
    BY SubmitQuiet
  <1>3. CASE UNCHANGED <<requests, accepted>>
    BY <1>1, <1>2, <1>3, OrderedFrame
  <1>4. CASE /\ requests' = [requests EXCEPT ![g][s] = PutNowait(@, c)]
             /\ accepted' = [accepted EXCEPT ![g][s] = Append(@, c)]
    <2>1. /\ requests \in [Sessions -> [Services -> Queue(Calls, Sessions)]]
          /\ accepted \in [Sessions -> [Services -> Seq(Calls)]]
      BY <1>1 DEF IInv, TypeOK
    <2>2. /\ requests'[g][s].items = Append(requests[g][s].items, c)
          /\ accepted'[g][s] = Append(accepted[g][s], c)
      BY <1>4, <2>1 DEF PutNowait
    <2>3. \A t \in Services \ {s} : /\ requests'[g][t].items = requests[g][t].items
                                    /\ accepted'[g][t] = accepted[g][t]
      BY <1>4, <2>1
    <2>4. CASE k # g
      <3>1. accepted'[k] = accepted[k] /\ requests'[k] = requests[k]
        BY <1>4, <2>1, <2>4
      <3>2. QED
        BY <1>1, <1>2, <3>1, OrderedFrame
    <2>5. CASE k = g
      <3>1. accepted[g][s] \in Seq(Calls) /\ requests[g][s].items \in Seq(Calls)
        BY <1>1, ItemType, AcceptedType
      <3>2. \A t \in Services : \A n \in DOMAIN accepted[g][t] :
               n \in DOMAIN accepted'[g][t] /\ accepted'[g][t][n] = accepted[g][t][n]
        <4>1. \A n \in DOMAIN accepted[g][s] :
                 n \in DOMAIN accepted'[g][s] /\ accepted'[g][s][n] = accepted[g][s][n]
          BY <2>2, <3>1, AppendKeeps
        <4>2. QED
          BY <2>3, <4>1
      <3>3. Unused(g)'
        BY <1>1, <1>2, <2>5 DEF Unused, Quiet
      <3>4. /\ \A i \in DOMAIN launch[g].services : launch[g].services[i] \in Services
            /\ Len(launch[g].services) \in Nat
            /\ DOMAIN launch[g].services = 1 .. Len(launch[g].services)
        BY <1>1, ServicesType
      <3>5. RoundsInStep(g)'
        <4>1. ASSUME NEW n \in DOMAIN rounds[g], NEW i \in DOMAIN rounds[g][n].store
              PROVE  /\ n \in DOMAIN accepted'[g][launch[g].services[i]]
                     /\ rounds[g][n].store[i] = accepted'[g][launch[g].services[i]][n]
          <5>1. /\ n \in DOMAIN accepted[g][launch[g].services[i]]
                /\ rounds[g][n].store[i] = accepted[g][launch[g].services[i]][n]
            BY <2>5 DEF SessionOrdered, RoundsInStep
          <5>2. CASE launch[g].services[i] \in Services
            BY <3>2, <5>1, <5>2
          <5>3. CASE launch[g].services[i] \notin Services
            BY <1>4, <2>1, <5>1, <5>3
          <5>4. QED
            BY <5>2, <5>3
        <4>2. QED
          BY <1>1, <4>1 DEF RoundsInStep
      <3>6. ASSUME Active(g)', NEW i \in DOMAIN launch[g].services
            PROVE  InStep(g, i)'
        <4>1. /\ Collecting(g)' <=> Collecting(g)
              /\ loop'[g].store = loop[g].store /\ Active(g)
          BY <1>2, <2>5, <3>6 DEF Quiet
        <4>2. InStep(g, i)
          BY <2>5, <3>6, <4>1 DEF SessionOrdered
        <4>3. Taken(g, i)' = Taken(g, i)
          BY <1>1, <4>1 DEF Taken
        <4>4. PICK t : t = launch[g].services[i]
          OBVIOUS
        <4>5. t \in Services /\ launch'[g].services[i] = t
          BY <1>1, <3>4, <4>4
        <4>6. /\ Follows(accepted[g][t], requests[g][t].items, Taken(g, i))
              /\ Collecting(g) /\ i \in DOMAIN loop[g].store =>
                    loop[g].store[i] = accepted[g][t][Taken(g, i)]
          BY <4>2, <4>4 DEF InStep
        <4>7. PICK m \in Nat : m = Taken(g, i)
          <5>1. Len(rounds[g]) \in Nat
            BY <1>1, StoreType
          <5>2. QED
            BY <5>1 DEF Taken
        <4>8. Follows(accepted'[g][t], requests'[g][t].items, m)
          <5>1. CASE t = s
            <6>1. Follows(Append(accepted[g][s], c), Append(requests[g][s].items, c), m)
              BY <3>1, <4>6, <4>7, <5>1, FollowsPut
            <6>2. QED
              BY <2>2, <5>1, <6>1
          <5>2. CASE t # s
            BY <2>3, <4>5, <4>6, <4>7, <5>2
          <5>3. QED
            BY <5>1, <5>2
        <4>9. ASSUME Collecting(g), i \in DOMAIN loop[g].store
              PROVE  loop[g].store[i] = accepted'[g][t][m]
          <5>1. loop[g].store[i] = accepted[g][t][m]
            BY <4>6, <4>7, <4>9
          <5>2. m = Len(rounds[g]) + 1 /\ Len(rounds[g]) \in Nat
            BY <1>1, <4>7, <4>9, StoreType DEF Taken
          <5>3. Len(accepted[g][t]) = m + Len(requests[g][t].items)
            BY <4>6, <4>7 DEF Follows
          <5>4. /\ requests[g][t].items \in Seq(Calls) /\ Len(requests[g][t].items) \in Nat
                /\ DOMAIN accepted[g][t] = 1 .. Len(accepted[g][t])
            BY <1>1, <4>5, ItemType, AcceptedType, LenProperties
          <5>5. m \in DOMAIN accepted[g][t]
            <6>1. PICK a, q : a = Len(accepted[g][t]) /\ q = Len(requests[g][t].items)
              OBVIOUS
            <6>2. a = m + q /\ q \in Nat /\ m >= 1 /\ m \in Nat
              BY <5>2, <5>3, <5>4, <6>1
            <6>3. m \in 1 .. a
              BY <6>2
            <6>4. QED
              BY <5>4, <6>1, <6>3
          <5>6. QED
            BY <3>2, <4>5, <5>1, <5>5
        <4>10. QED
          BY <4>1, <4>3, <4>5, <4>7, <4>8, <4>9 DEF InStep
      <3>7. QED
        BY <1>1, <2>5, <3>3, <3>5, <3>6 DEF SessionOrdered
    <2>6. QED
      BY <2>4, <2>5
  <1>5. QED
    BY <1>1, <1>3, <1>4 DEF Submit, HasQueue

(* A new session starts with nothing taken and nothing asked.              *)
LEMMA StartOrdered ==
    ASSUME OrderInv, NEW r \in Ids, NEW l \in ServiceLists, Start(r, l), NEW k \in Sessions
    PROVE  SessionOrdered(k)' /\ loop'[k].on \in {k, None}
  <1>0. IInv /\ SessionOrdered(k) /\ OwnQueue /\ RoundsSorted(k)
    BY DEF OrderInv, OrphanInv, SortedInv
  <1>1. PICK g \in Sessions :
           /\ loop[g].pc = "none"
           /\ launch' = [launch EXCEPT ![g] = [id |-> r, services |-> l]]
           /\ loop' = [loop EXCEPT ![g].pc = "created"]
    BY DEF Start
  <1>2. UNCHANGED <<requests, rounds, accepted>>
    BY DEF Start
  <1>3. loop \in [Sessions -> Loop]
        /\ launch \in [Sessions -> [id : Ids \cup {None}, services : Seq(Services)]]
    BY <1>0 DEF IInv, TypeOK
  <1>4. CASE k # g
    <2>1. loop'[k] = loop[k] /\ launch'[k] = launch[k]
      BY <1>1, <1>3, <1>4
    <2>2. QED
      BY <1>0, <1>2, <2>1, LoopQuiet, OrderedFrame DEF OwnQueue
  <1>5. CASE k = g
    <2>1. loop[g].store = <<>> /\ loop[g].on = None
      BY <1>0, <1>1 DEF IInv, LoopInv
    <2>2. loop'[g].pc = "created" /\ loop'[g].store = <<>> /\ loop'[g].on = None
      BY <1>1, <1>3, <2>1 DEF Loop
    <2>3. launch'[g].services = l
      BY <1>1, <1>3
    <2>4. /\ \A s \in Services : accepted'[g][s] = <<>> /\ requests'[g][s].items = <<>>
          /\ rounds'[g] = <<>>
      BY <1>0, <1>1, <1>2, <1>5 DEF SessionOrdered, Unused, RoundsSorted
    <2>5. Unused(g)' /\ RoundsInStep(g)'
      BY <2>2, <2>4 DEF Unused, RoundsInStep
    <2>6. ASSUME NEW i \in DOMAIN l PROVE InStep(g, i)'
      <3>1. l[i] \in Services
        BY ListType
      <3>2. i \notin DOMAIN loop'[g].store /\ Len(rounds'[g]) = 0
        BY <2>2, <2>4
      <3>3. Taken(g, i)' = 0
        BY <3>2 DEF Taken
      <3>4. accepted'[g][l[i]] = <<>> /\ requests'[g][l[i]].items = <<>>
        BY <2>4, <3>1
      <3>5. Follows(<<>>, <<>>, 0)
        BY DEF Follows
      <3>6. QED
        BY <2>3, <3>2, <3>3, <3>4, <3>5 DEF InStep
    <2>7. QED
      BY <1>5, <2>2, <2>3, <2>5, <2>6 DEF SessionOrdered
  <1>6. QED
    BY <1>4, <1>5

(* store holds the next call of each of the services that it covers; the   *)
(* rest of the calls is in the queues.                                     *)
HoldsNext(g, store) ==
    \A i \in DOMAIN launch[g].services :
        /\ Follows(accepted[g][launch[g].services[i]],
                   requests[g][launch[g].services[i]].items,
                   IF i \in DOMAIN store THEN Len(rounds[g]) + 1 ELSE Len(rounds[g]))
        /\ i \in DOMAIN store =>
              store[i] = accepted[g][launch[g].services[i]][Len(rounds[g]) + 1]

(* A stretch of the loop collects the next call of each service; with all  *)
(* of them it decides the next round.                                      *)
LEMMA CollectOrdered ==
    ASSUME IInv, NEW g \in Sessions, SessionOrdered(g), NEW store \in Seq(Calls),
           loop[g].pc # "none", Collect(g, store), Len(store) <= Len(launch[g].services),
           \A i : Source(g, i) = g, HoldsNext(g, store),
           loop'[g].store \in Seq(Calls), UNCHANGED <<launch, accepted>>
    PROVE  SessionOrdered(g)' /\ loop'[g].on \in {g, None}
  <1>1. PICK n \in Len(store) + 1 .. Len(launch[g].services) + 1 : CollectsOwn(g, store, n)
    BY CollectOwn
  <1>2. /\ Len(launch[g].services) \in Nat /\ Len(store) \in Nat
        /\ DOMAIN store = 1 .. Len(store)
        /\ DOMAIN launch[g].services = 1 .. Len(launch[g].services)
        /\ \A i \in DOMAIN launch[g].services : launch[g].services[i] \in Services
        /\ Len(rounds[g]) \in Nat /\ rounds[g] \in Seq(Round)
        /\ DOMAIN rounds[g] = 1 .. Len(rounds[g])
    BY ServicesType, StoreType, LenProperties
  <1>3. /\ Len(loop'[g].store) = n - 1 /\ n \in Nat \ {0}
        /\ DOMAIN loop'[g].store = 1 .. n - 1
    <2>1. Len(loop'[g].store) = n - 1
      BY <1>1 DEF CollectsOwn
    <2>2. n \in Nat \ {0}
      BY <1>1, <1>2
    <2>3. QED
      BY <2>1, <2>2, LenProperties
  <1>4. PICK m : m = Len(rounds[g])
    OBVIOUS
  <1>5. m \in Nat /\ \A i \in DOMAIN store : i \in 1 .. n - 1
    BY <1>1, <1>2, <1>3, <1>4
  <1>6. ASSUME NEW i \in DOMAIN launch[g].services, NEW t, t = launch[g].services[i]
        PROVE  IF i < n
               THEN /\ Follows(accepted[g][t], requests'[g][t].items, m + 1)
                    /\ m + 1 \in DOMAIN accepted[g][t]
                    /\ loop'[g].store[i] = accepted[g][t][m + 1]
               ELSE Follows(accepted[g][t], requests'[g][t].items, m)
    <2>0. /\ t \in Services /\ i \in 1 .. Len(launch[g].services)
          /\ accepted[g][t] \in Seq(Calls) /\ requests[g][t].items \in Seq(Calls)
          /\ DOMAIN accepted[g][t] = 1 .. Len(accepted[g][t])
          /\ Len(requests[g][t].items) \in Nat
      BY <1>2, <1>6, ItemType, AcceptedType, LenProperties
    <2>1. CASE i \in DOMAIN store
      <3>1. /\ Follows(accepted[g][t], requests[g][t].items, m + 1)
            /\ store[i] = accepted[g][t][m + 1]
        BY <1>4, <1>6, <2>1 DEF HoldsNext
      <3>2. i \in 1 .. n - 1 /\ i < n /\ i <= Len(store)
        BY <1>2, <1>3, <1>5, <2>1
      <3>3. /\ loop'[g].store[i] = store[i]
            /\ requests'[g][t].items = requests[g][t].items
        BY <1>1, <1>6, <2>0, <3>2 DEF CollectsOwn
      <3>4. m + 1 \in DOMAIN accepted[g][t]
        <4>1. Len(accepted[g][t]) = m + 1 + Len(requests[g][t].items)
          BY <3>1 DEF Follows
        <4>2. PICK a, q : a = Len(accepted[g][t]) /\ q = Len(requests[g][t].items)
          OBVIOUS
        <4>3. a = m + 1 + q /\ q \in Nat /\ m \in Nat
          BY <1>5, <2>0, <4>1, <4>2
        <4>4. m + 1 \in 1 .. a
          BY <4>3
        <4>5. QED
          BY <2>0, <4>2, <4>4
      <3>5. QED
        BY <3>1, <3>2, <3>3, <3>4
    <2>2. CASE i \notin DOMAIN store /\ i < n
      <3>1. Follows(accepted[g][t], requests[g][t].items, m)
        BY <1>4, <1>6, <2>2 DEF HoldsNext
      <3>2. i \in 1 .. n - 1 /\ ~(i <= Len(store))
        BY <1>2, <1>3, <2>0, <2>2
      <3>3. /\ requests[g][t].items # <<>>
            /\ loop'[g].store[i] = Head(requests[g][t].items)
            /\ requests'[g][t].items = Tail(requests[g][t].items)
        BY <1>1, <1>6, <3>2 DEF CollectsOwn, TakesOwn
      <3>4. QED
        BY <1>5, <2>0, <2>2, <3>1, <3>3, FollowsTake
    <2>3. CASE i \notin DOMAIN store /\ ~(i < n)
      <3>1. Follows(accepted[g][t], requests[g][t].items, m)
        BY <1>4, <1>6, <2>3 DEF HoldsNext
      <3>2. i >= n
        BY <1>2, <1>3, <2>0, <2>3
      <3>3. requests'[g][t].items = requests[g][t].items
        BY <1>1, <1>6, <2>0, <3>2 DEF CollectsOwn
      <3>4. QED
        BY <2>3, <3>1, <3>3
    <2>4. QED
      <3>1. i \in DOMAIN store => i < n
        BY <1>3, <1>5
      <3>2. QED
        BY <2>1, <2>2, <2>3, <3>1
  <1>7. loop'[g].on \in {g, None} /\ loop'[g].pc # "none"
    BY <1>1 DEF CollectsOwn
  <1>8. CASE /\ n = Len(launch[g].services) + 1
             /\ loop'[g].pc \in {"forwarding", "rejecting"}
             /\ rounds'[g] = Append(rounds[g],
                   [store |-> loop'[g].store, forwarded |-> Unanimous(loop'[g].store)])
    <2> DEFINE new == [store |-> loop'[g].store, forwarded |-> Unanimous(loop'[g].store)]
    <2>1. new \in Round /\ new.store = loop'[g].store
      BY DEF Round, Unanimous
    <2>2. rounds'[g] = Append(rounds[g], new)
      BY <1>8
    <2> HIDE DEF new
    <2>3. /\ Len(rounds'[g]) = m + 1 /\ DOMAIN rounds'[g] = 1 .. m + 1
          /\ \A k \in 1 .. m : rounds'[g][k] = rounds[g][k]
          /\ rounds'[g][m + 1] = new
      BY <1>2, <1>4, <2>1, <2>2, AppendKeeps
    <2>4. RoundsInStep(g)'
      <3>1. ASSUME NEW k \in 1 .. m + 1, NEW i \in DOMAIN rounds'[g][k].store
            PROVE  /\ k \in DOMAIN accepted[g][launch[g].services[i]]
                   /\ rounds'[g][k].store[i] = accepted[g][launch[g].services[i]][k]
        <4>1. CASE k \in 1 .. m
          <5>1. /\ rounds'[g][k] = rounds[g][k] /\ k \in DOMAIN rounds[g]
                /\ i \in DOMAIN rounds[g][k].store
            BY <1>2, <1>4, <2>3, <3>1, <4>1
          <5>2. /\ k \in DOMAIN accepted[g][launch[g].services[i]]
                /\ rounds[g][k].store[i] = accepted[g][launch[g].services[i]][k]
            BY <5>1 DEF SessionOrdered, RoundsInStep
          <5>3. QED
            BY <5>1, <5>2
        <4>2. CASE k \notin 1 .. m
          <5>1. k = m + 1
            BY <1>5, <4>2
          <5>2. rounds'[g][k].store = loop'[g].store
            BY <2>1, <2>3, <5>1
          <5>3. i \in 1 .. n - 1
            BY <1>3, <3>1, <5>2
          <5>4. i \in DOMAIN launch[g].services /\ i < n
            BY <1>2, <1>3, <1>8, <5>3
          <5>5. QED
            BY <1>6, <5>1, <5>2, <5>4
        <4>3. QED
          BY <4>1, <4>2
      <3>2. QED
        BY <2>3, <3>1 DEF RoundsInStep
    <2>5. ~Collecting(g)' /\ Unused(g)'
      BY <1>7, <1>8 DEF Collecting, Unused
    <2>6. ASSUME NEW i \in DOMAIN launch[g].services PROVE InStep(g, i)'
      <3>1. Taken(g, i)' = m + 1
        BY <2>3, <2>5 DEF Taken
      <3>2. i < n
        BY <1>2, <1>8
      <3>3. Follows(accepted[g][launch[g].services[i]],
                    requests'[g][launch[g].services[i]].items, m + 1)
        BY <1>6, <3>2
      <3>4. QED
        BY <2>5, <3>1, <3>3 DEF InStep
    <2>7. QED
      BY <1>7, <2>4, <2>5, <2>6 DEF SessionOrdered
  <1>9. CASE loop'[g].pc \in {"waiting", "failed"} /\ rounds'[g] = rounds[g]
    <2>1. RoundsInStep(g)' /\ Unused(g)'
      BY <1>9 DEF SessionOrdered, RoundsInStep, Unused
    <2>2. ASSUME Active(g)', NEW i \in DOMAIN launch[g].services PROVE InStep(g, i)'
      <3>1. Collecting(g)'
        BY <1>9, <2>2 DEF Active, Collecting
      <3>2. Taken(g, i)' = IF i \in 1 .. n - 1 THEN m + 1 ELSE m
        BY <1>3, <1>4, <1>9, <3>1 DEF Taken
      <3>3. i < n <=> i \in 1 .. n - 1
        BY <1>2, <1>3
      <3>4. CASE i < n
        <4>1. /\ Follows(accepted[g][launch[g].services[i]],
                         requests'[g][launch[g].services[i]].items, m + 1)
              /\ loop'[g].store[i] = accepted[g][launch[g].services[i]][m + 1]
          BY <1>6, <3>4
        <4>2. QED
          BY <3>2, <3>3, <3>4, <4>1 DEF InStep
      <3>5. CASE ~(i < n)
        <4>1. Follows(accepted[g][launch[g].services[i]],
                      requests'[g][launch[g].services[i]].items, m)
          BY <1>6, <3>5
        <4>2. i \notin DOMAIN loop'[g].store
          BY <1>3, <3>3, <3>5
        <4>3. QED
          BY <3>2, <3>3, <3>5, <4>1, <4>2 DEF InStep
      <3>6. QED
        BY <3>4, <3>5
    <2>3. QED
      BY <1>7, <2>1, <2>2 DEF SessionOrdered
  <1>10. QED
    BY <1>1, <1>8, <1>9 DEF CollectsOwn

LEMMA StoreFits ==
    ASSUME SortedInv, NEW g \in Sessions
    PROVE  Len(loop[g].store) <= Len(launch[g].services)
  <1>1. /\ Len(loop[g].store) \in Nat /\ DOMAIN loop[g].store = 1 .. Len(loop[g].store)
        /\ Len(launch[g].services) \in Nat
    BY StoreType DEF SortedInv
  <1>2. \A i \in DOMAIN loop[g].store : i <= Len(launch[g].services)
    BY DEF SortedInv, StoreSorted
  <1>3. QED
    BY <1>1, <1>2

LEMMA RunLoopOrdered ==
    ASSUME OrderInv, IInv', NEW g \in Sessions, RunLoop(g)
    PROVE  \A k \in Sessions : SessionOrdered(k)' /\ loop'[k].on \in {k, None}
  <1>1. /\ IInv /\ OrphanInv /\ SortedInv /\ OwnQueue
        /\ \A k \in Sessions : SessionOrdered(k)
    BY DEF OrderInv, OrphanInv
  <1>2. /\ Active(g) /\ Collecting(g) /\ loop[g].pc # "none" /\ Collect(g, loop[g].store)
        /\ UNCHANGED <<launch, accepted>>
    BY DEF RunLoop, Active, Collecting
  <1>3. loop[g].store \in Seq(Calls) /\ Len(loop[g].store) <= Len(launch[g].services)
    BY <1>1, StoreType, StoreFits
  <1>4. \A i : Source(g, i) = g
    BY <1>1, <1>2, OwnSource
  <1>5. \A i \in DOMAIN launch[g].services : InStep(g, i)
    BY <1>1, <1>2 DEF SessionOrdered
  <1>6. HoldsNext(g, loop[g].store)
    BY <1>2, <1>5 DEF HoldsNext, InStep, Taken
  <1>7. loop'[g].store \in Seq(Calls)
    <2>1. loop' \in [Sessions -> Loop]
      BY DEF IInv, TypeOK
    <2>2. QED
      BY <2>1 DEF Loop
  <1>8. SessionOrdered(g)' /\ loop'[g].on \in {g, None}
    BY <1>1, <1>2, <1>3, <1>4, <1>6, <1>7, CollectOrdered
  <1>9. ASSUME NEW k \in Sessions \ {g}
        PROVE  SessionOrdered(k)' /\ loop'[k].on \in {k, None}
    <2>1. loop'[k] = loop[k] /\ rounds'[k] = rounds[k]
      BY <1>1, <1>2, <1>3, CollectEffect
    <2>2. \A s \in Services : requests'[k][s].items = requests[k][s].items
      <3>1. PICK n \in Len(loop[g].store) + 1 .. Len(launch[g].services) + 1 :
               CollectsOwn(g, loop[g].store, n)
        BY <1>1, <1>2, <1>3, <1>4, CollectOwn
      <3>2. QED
        BY <3>1 DEF CollectsOwn
    <2>3. QED
      BY <1>1, <1>2, <2>1, <2>2, LoopQuiet, OrderedFrame DEF OwnQueue
  <1>10. QED
    BY <1>8, <1>9

LEMMA DeliverResponseOrdered ==
    ASSUME OrderInv, IInv', NEW g \in Sessions, DeliverResponse(g)
    PROVE  \A k \in Sessions : SessionOrdered(k)' /\ loop'[k].on \in {k, None}
  <1>1. /\ IInv /\ OrphanInv /\ SortedInv /\ OwnQueue
        /\ \A k \in Sessions : SessionOrdered(k)
    BY DEF OrderInv, OrphanInv
  <1>2. /\ Active(g) /\ ~Collecting(g) /\ loop[g].pc # "none"
        /\ UNCHANGED <<launch, accepted>>
        /\ \/ Collect(g, <<>>)
           \/ loop' = [loop EXCEPT ![g].pc = "failed"] /\ UNCHANGED <<requests, rounds>>
    BY DEF DeliverResponse, NewStore, Active, Collecting
  <1>3. CASE loop' = [loop EXCEPT ![g].pc = "failed"] /\ UNCHANGED <<requests, rounds>>
    <2>1. \A k \in Sessions : Quiet(k)
      BY <1>1, <1>2, <1>3, FailsQuiet
    <2>2. QED
      BY <1>1, <1>2, <1>3, <2>1, OrderedFrame DEF Quiet, OwnQueue
  <1>4. CASE Collect(g, <<>>)
    <2>1. <<>> \in Seq(Calls) /\ Len(<<>>) = 0 /\ DOMAIN <<>> = {}
      BY EmptySeq
    <2>2. Len(<<>>) <= Len(launch[g].services)
      <3>1. Len(launch[g].services) \in Nat
        BY <1>1, StoreType
      <3>2. QED
        BY <2>1, <3>1
    <2>3. \A i : Source(g, i) = g
      BY <1>1, <1>2, OwnSource
    <2>4. \A i \in DOMAIN launch[g].services : InStep(g, i)
      BY <1>1, <1>2 DEF SessionOrdered
    <2>5. HoldsNext(g, <<>>)
      BY <1>2, <2>1, <2>4 DEF HoldsNext, InStep, Taken
    <2>6. loop'[g].store \in Seq(Calls)
      <3>1. loop' \in [Sessions -> Loop]
        BY DEF IInv, TypeOK
      <3>2. QED
        BY <3>1 DEF Loop
    <2>7. SessionOrdered(g)' /\ loop'[g].on \in {g, None}
      BY <1>1, <1>2, <1>4, <2>1, <2>2, <2>3, <2>5, <2>6, CollectOrdered
    <2>8. ASSUME NEW k \in Sessions \ {g}
          PROVE  SessionOrdered(k)' /\ loop'[k].on \in {k, None}
      <3>1. loop'[k] = loop[k] /\ rounds'[k] = rounds[k]
        BY <1>1, <1>2, <1>4, <2>1, CollectEffect
      <3>2. \A s \in Services : requests'[k][s].items = requests[k][s].items
        <4>1. PICK n \in Len(<<>>) + 1 .. Len(launch[g].services) + 1 :
                 CollectsOwn(g, <<>>, n)
          BY <1>1, <1>2, <1>4, <2>1, <2>2, <2>3, CollectOwn
        <4>2. QED
          BY <4>1 DEF CollectsOwn
      <3>3. QED
        BY <1>1, <1>2, <3>1, <3>2, LoopQuiet, OrderedFrame DEF OwnQueue
    <2>9. QED
      BY <2>7, <2>8
  <1>5. QED
    BY <1>2, <1>3, <1>4

LEMMA NextOrdered ==
    ASSUME Retry = FALSE, OrderInv, [Next]_vars
    PROVE  OrderInv'
  <1>1. /\ IInv /\ OrphanInv /\ SortedInv /\ OwnQueue
        /\ \A k \in Sessions : SessionOrdered(k)
    BY DEF OrderInv, OrphanInv
  <1>2. OrphanInv' /\ SortedInv' /\ IInv'
    BY <1>1, NextOrphanInv, NextSorted DEF OrphanInv
  <1> DEFINE Kept1 == \A k \in Sessions : SessionOrdered(k)' /\ loop'[k].on \in {k, None}
  <1>3. ASSUME NEW r \in Ids, NEW l \in ServiceLists, Start(r, l) PROVE Kept1
    BY <1>3, StartOrdered
  <1>4. ASSUME \A k \in Sessions : Quiet(k), UNCHANGED <<launch, rounds, accepted>>,
               \A k \in Sessions, s \in Services : requests'[k][s].items = requests[k][s].items
        PROVE  Kept1
    BY <1>1, <1>4, OrderedFrame DEF Quiet, OwnQueue
  <1>5. ASSUME NEW r \in Ids, Stop(r) PROVE Kept1
    <2>1. UNCHANGED <<launch, rounds, accepted>>
      BY <1>5 DEF Stop
    <2>2. QED
      BY <1>1, <1>4, <1>5, <2>1, StopQuiet, StopItems
  <1>6. ASSUME NEW c \in Calls, NEW g \in Sessions, NEW s \in Services,
               NEW x \in Contents, NEW h \in Hosts, Submit(c, g, s, x, h)
        PROVE  Kept1
    BY <1>1, <1>6, SubmitOrdered, SubmitQuiet DEF Quiet, OwnQueue
  <1>7. ASSUME NEW c \in Calls, ResumeHandler(c) PROVE Kept1
    <2>1. UNCHANGED <<launch, loop, requests, rounds, accepted>>
      BY <1>7 DEF ResumeHandler
    <2>2. QED
      BY <1>4, <2>1, LoopQuiet
  <1>8. ASSUME NEW g \in Sessions, RunLoop(g) PROVE Kept1
    BY <1>2, <1>8, RunLoopOrdered
  <1>9. ASSUME NEW g \in Sessions, DeliverResponse(g) PROVE Kept1
    BY <1>2, <1>9, DeliverResponseOrdered
  <1>10. ASSUME NEW g \in Sessions, RoundFails(g) PROVE Kept1
    <2>1. /\ loop[g].pc # "none" /\ loop' = [loop EXCEPT ![g].pc = "failed"]
          /\ UNCHANGED <<launch, requests, rounds, accepted>>
      BY <1>10 DEF RoundFails
    <2>2. QED
      BY <1>1, <1>4, <2>1, FailsQuiet
  <1>11. ASSUME NEW g \in Sessions, HandleCancelled(g) PROVE Kept1
    <2>1. UNCHANGED <<launch, rounds, accepted>>
      BY <1>11 DEF HandleCancelled
    <2>2. QED
      BY <1>1, <1>4, <1>11, <2>1, HandleCancelledQuiet, HandleCancelledItems
  <1>12. ASSUME UNCHANGED vars PROVE Kept1
    <2>1. UNCHANGED <<launch, loop, requests, rounds, accepted>>
      BY <1>12 DEF vars
    <2>2. QED
      BY <1>4, <2>1, LoopQuiet
  <1>13. Kept1
    <2> HIDE DEF Kept1
    <2>1. QED
      BY <1>3, <1>5, <1>6, <1>7, <1>8, <1>9, <1>10, <1>11, <1>12 DEF Next
  <1>14. \A k \in Sessions : SessionOrdered(k)'
    BY <1>13
  <1>15. OwnQueue'
    BY <1>13 DEF OwnQueue
  <1>16. QED
    BY <1>2, <1>14, <1>15 DEF OrderInv

LEMMA InitOrdered == Init => OrderInv
  <1> SUFFICES ASSUME Init PROVE OrderInv
    OBVIOUS
  <1>1. OrphanInv /\ SortedInv
    BY InitOrphanInv, InitSorted
  <1>2. \A g \in Sessions :
           /\ loop[g].pc = "none" /\ loop[g].on = None /\ rounds[g] = <<>>
           /\ \A s \in Services : accepted[g][s] = <<>> /\ requests[g][s].items = <<>>
    BY DEF Init, EmptyQueue
  <1>3. \A g \in Sessions : Unused(g) /\ RoundsInStep(g) /\ ~Active(g)
    BY <1>2 DEF Unused, RoundsInStep, Active
  <1>4. QED
    BY <1>1, <1>2, <1>3 DEF OrderInv, OwnQueue, SessionOrdered

(* If no id is started twice, the calls of the variants are compared in    *)
(* step: the n-th round of a session holds the n-th call of each of them,  *)
(* however far ahead of the others one of them calls (request_store and    *)
(* the queues of handle_requests).                                         *)
THEOREM ComparedInStep ==
    ASSUME Retry = FALSE
    PROVE  Spec => []PairedInOrder
  <1>1. OrderInv /\ [Next]_vars => OrderInv'
    BY NextOrdered
  <1>2. OrderInv => PairedInOrder
    BY DEF OrderInv, SessionOrdered, RoundsInStep, PairedInOrder
  <1>3. QED
    BY InitOrdered, <1>1, <1>2, PTL DEF Spec

-----------------------------------------------------------------------------
(* Where the calls are: a call whose handler waits or has an answer is in  *)
(* the order of the queue of its variant and session, at one place.        *)

Joined(c) == handler[c].pc \in {"waiting", "woken", "answered"}

JoinedAt(c, g, s) ==
    Joined(c) /\ handler[c].on = g /\ handler[c].origin = g /\ handler[c].sender = s

OrderSound(g, s) ==
    /\ \A k \in DOMAIN accepted[g][s] : JoinedAt(accepted[g][s][k], g, s)
    /\ Distinct(accepted[g][s])
    /\ accepted[g][s] # <<>> => s \in ServicesOf(g)

JoinedInv ==
    /\ OrderInv
    /\ \A g \in Sessions, s \in Services : OrderSound(g, s)
    /\ \A c \in Calls : Joined(c) =>
          \E g \in Sessions, s \in Services : \E k \in DOMAIN accepted[g][s] :
             accepted[g][s][k] = c

(* The call stays where it is; it does not change once it is answered.     *)
Stays(c) ==
    /\ handler'[c].on = handler[c].on /\ handler'[c].origin = handler[c].origin
    /\ handler'[c].sender = handler[c].sender /\ handler'[c].content = handler[c].content
    /\ Joined(c)' <=> Joined(c)
    /\ handler[c].pc = "answered" => handler'[c] = handler[c]

(* And it is not answered in this step.                                    *)
Settled(c) == Stays(c) /\ (handler'[c].pc = "answered" => handler[c].pc = "answered")

LEMMA SameSettled ==
    ASSUME NEW c \in Calls, handler'[c] = handler[c]
    PROVE  Settled(c)
  BY DEF Settled, Stays, Joined

(* A response reaches every variant of a running session, and wakes only   *)
(* handlers that wait.                                                     *)
LEMMA DeliversToAll ==
    ASSUME OrphanInv, NEW g \in Sessions, DeliverResponse(g)
    PROVE  /\ Active(g) /\ ~Collecting(g) /\ Collect(g, <<>>)
           /\ \A c \in Calls : Settled(c)
           /\ Response(g) \in Answer
           /\ \A x \in Sessions, t \in Services :
                 responses'[x][t].items =
                    IF x = g /\ t \in ServicesOf(g) THEN Append(responses[x][t].items, Response(g))
                    ELSE responses[x][t].items
  <1>1. /\ loop[g].pc \in {"forwarding", "rejecting"} /\ IInv
        /\ Active(g) /\ ~Collecting(g)
    BY DEF DeliverResponse, OrphanInv, Active, Collecting
  <1>2. registry[launch[g].id] = g
    BY <1>1 DEF OrphanInv, NoOrphanLoop
  <1>3. Recipients(g) = ServicesOf(g)
    <2>1. \A j \in DOMAIN launch[g].services : launch[g].services[j] \in ServicesOf(g)
      BY DEF ServicesOf
    <2>2. g # None
      BY NoneAssumption
    <2>3. DOMAIN launch[g].services = 1 .. Len(launch[g].services)
          /\ Len(launch[g].services) \in Nat
      BY <1>1, ServicesType
    <2>4. ASSUME NEW j \in DOMAIN launch[g].services, NEW k \in 1 .. j
          PROVE  HasQueue(registry[launch[g].id], launch[g].services[k])
      <3>1. k \in DOMAIN launch[g].services
        BY <2>3
      <3>2. QED
        BY <1>2, <2>1, <2>2, <3>1 DEF HasQueue
    <2>5. QED
      BY <2>4 DEF Recipients, ServicesOf
  <1>4. PICK a \in Answer : a = Response(g)
    BY <1>1, RecipientsType
  <1>5. PICK R : R = ServicesOf(g)
    OBVIOUS
  <1> DEFINE woken == UNION {WokenBy(responses[g][s]) : s \in R}
  <1>6. /\ responses' = [x \in Sessions |-> [s \in Services |->
             IF x = g /\ s \in R THEN PutNowait(responses[x][s], a) ELSE responses[x][s]]]
        /\ handler' = [c \in Calls |->
             IF c \in woken THEN [handler[c] EXCEPT !.pc = "woken"] ELSE handler[c]]
        /\ Collect(g, <<>>)
    BY <1>2, <1>3, <1>4, <1>5 DEF DeliverResponse, NewStore
  <1>7. \A s \in R : s \in Services
    BY <1>1, <1>3, <1>5, RecipientsType
  <1>8. /\ \A y \in Sessions, t \in Services : responses[y][t] \in Queue(Answer, Calls)
        /\ \A c \in Calls : handler[c] \in Handler
    BY <1>1 DEF IInv, TypeOK
  <1>9. ASSUME NEW c \in woken PROVE handler[c].pc = "waiting"
    <2>1. PICK s \in R : c \in WokenBy(responses[g][s])
      BY <1>9
    <2>2. s \in Services /\ responses[g][s] \in Queue(Answer, Calls)
      BY <1>7, <1>8
    <2>3. 1 \in DOMAIN responses[g][s].getters /\ c = responses[g][s].getters[1]
      BY <2>1, <2>2, WokenByFirst
    <2>4. QED
      BY <1>1, <2>2, <2>3 DEF IInv, HandlerGetters
  <1> HIDE DEF woken
  <1>10. ASSUME NEW c \in Calls PROVE Settled(c)
    <2>1. CASE c \in woken
      <3>1. handler'[c] = [handler[c] EXCEPT !.pc = "woken"] /\ handler[c].pc = "waiting"
        BY <1>6, <1>9, <2>1
      <3>2. /\ handler'[c].pc = "woken" /\ handler'[c].on = handler[c].on
            /\ handler'[c].origin = handler[c].origin
            /\ handler'[c].sender = handler[c].sender
            /\ handler'[c].content = handler[c].content
        BY <1>8, <3>1 DEF Handler
      <3>3. QED
        BY <3>1, <3>2 DEF Settled, Stays, Joined
    <2>2. CASE c \notin woken
      BY <1>6, <2>2, SameSettled
    <2>3. QED
      BY <2>1, <2>2
  <1>11. ASSUME NEW x \in Sessions, NEW t \in Services
         PROVE  responses'[x][t].items =
                   IF x = g /\ t \in R THEN Append(responses[x][t].items, a)
                   ELSE responses[x][t].items
    BY <1>6 DEF PutNowait
  <1>12. QED
    BY <1>1, <1>4, <1>5, <1>6, <1>10, <1>11

(* A woken handler takes the first response, or waits again.               *)
LEMMA ResumeEffect ==
    ASSUME IInv, NEW c \in Calls, ResumeHandler(c)
    PROVE  \E q \in Sessions, s \in Services :
              /\ q = handler[c].on /\ s = handler[c].sender /\ handler[c].pc = "woken"
              /\ Stays(c) /\ \A d \in Calls \ {c} : handler'[d] = handler[d]
              /\ \A x \in Sessions, t \in Services :
                    ~(x = q /\ t = s) => responses'[x][t].items = responses[x][t].items
              /\ \/ Settled(c) /\ responses'[q][s].items = responses[q][s].items
                 \/ /\ responses[q][s].items # <<>>
                    /\ handler'[c].pc = "answered"
                    /\ handler'[c].answer = Head(responses[q][s].items)
                    /\ responses'[q][s].items = Tail(responses[q][s].items)
  <1>1. handler[c].pc = "woken" /\ handler[c] \in Handler /\ handler \in [Calls -> Handler]
    BY DEF ResumeHandler, IInv, TypeOK
  <1>2. handler[c].on \in Sessions /\ handler[c].sender \in Services
    BY <1>1 DEF IInv, HandlerInv, Handler
  <1>3. PICK q \in Sessions, s \in Services : q = handler[c].on /\ s = handler[c].sender
    BY <1>2
  <1>4. responses \in [Sessions -> [Services -> Queue(Answer, Calls)]]
    BY DEF IInv, TypeOK
  <1>5. CASE IsEmpty(responses[q][s])
    <2>1. /\ handler' = [handler EXCEPT ![c].pc = "waiting"]
          /\ responses' = [responses EXCEPT ![q][s] = BlockOn(@, c)]
      BY <1>3, <1>5 DEF ResumeHandler
    <2>2. handler'[c] = [handler[c] EXCEPT !.pc = "waiting"]
          /\ \A d \in Calls \ {c} : handler'[d] = handler[d]
      BY <1>1, <2>1
    <2>3. Settled(c)
      BY <1>1, <2>2 DEF Settled, Stays, Joined, Handler
    <2>4. \A x \in Sessions, t \in Services : responses'[x][t].items = responses[x][t].items
      BY <1>4, <2>1 DEF BlockOn
    <2>5. QED
      BY <1>1, <1>3, <2>2, <2>3, <2>4 DEF Settled
  <1>6. CASE ~IsEmpty(responses[q][s])
    <2>1. /\ handler' = [handler EXCEPT ![c].pc = "answered",
                                        ![c].answer = Head(responses[q][s].items)]
          /\ responses' = [responses EXCEPT ![q][s] = GetNowait(@)]
      BY <1>3, <1>6 DEF ResumeHandler
    <2>2. PICK a : a = Head(responses[q][s].items)
      OBVIOUS
    <2>3. handler'[c] = [handler[c] EXCEPT !.pc = "answered", !.answer = a]
          /\ \A d \in Calls \ {c} : handler'[d] = handler[d]
      BY <1>1, <2>1, <2>2
    <2>4. handler'[c].pc = "answered" /\ handler'[c].answer = a /\ Stays(c)
      BY <1>1, <2>3 DEF Stays, Joined, Handler
    <2>5. \A x \in Sessions, t \in Services :
             ~(x = q /\ t = s) => responses'[x][t].items = responses[x][t].items
      BY <1>4, <2>1
    <2>6. responses'[q][s].items = Tail(responses[q][s].items)
      <3>1. responses[q][s] \in Queue(Answer, Calls) /\ responses'[q][s] = GetNowait(responses[q][s])
        BY <1>4, <2>1
      <3>2. QED
        BY <1>6, <3>1, GetNowaitType
    <2>7. responses[q][s].items # <<>>
      BY <1>6 DEF IsEmpty
    <2>8. QED
      BY <1>1, <1>3, <2>2, <2>3, <2>4, <2>5, <2>6, <2>7
  <1>7. QED
    BY <1>5, <1>6

(* A call joins the order of its own session, or gets an error.            *)
LEMMA SubmitEffect ==
    ASSUME OrphanInv, NEW c \in Calls, NEW g \in Sessions, NEW s \in Services,
           NEW x \in Contents, NEW h \in Hosts, Submit(c, g, s, x, h)
    PROVE  /\ ~Joined(c) /\ \A d \in Calls \ {c} : handler'[d] = handler[d]
           /\ handler'[c].origin = g /\ handler'[c].sender = s /\ handler'[c].content = x
           /\ \/ ~Joined(c)' /\ UNCHANGED <<accepted, responses>>
              \/ /\ JoinedAt(c, g, s)'
                 /\ accepted'[g][s] = Append(accepted[g][s], c)
                 /\ \A y \in Sessions, t \in Services : ~(y = g /\ t = s) =>
                       /\ accepted'[y][t] = accepted[y][t]
                       /\ responses'[y][t].items = responses[y][t].items
                 /\ responses[g][s].items = <<>> =>
                       handler'[c].pc = "waiting" /\ responses'[g][s].items = <<>>
  <1> DEFINE call == [pc |-> "error", on |-> None, origin |-> g, sender |-> s,
                      content |-> x, host |-> h, answer |-> NoAnswer]
  <1>1. /\ registry[launch[g].id] \in {g, None} /\ handler[c].pc = "idle"
        /\ s \in ServicesOf(g)
    BY SubmitOwn
  <1>2. /\ handler \in [Calls -> Handler]
        /\ responses \in [Sessions -> [Services -> Queue(Answer, Calls)]]
        /\ accepted \in [Sessions -> [Services -> Seq(Calls)]]
    BY DEF OrphanInv, IInv, TypeOK
  <1>3. ~Joined(c)
    BY <1>1 DEF Joined
  <1>4. \/ /\ handler' = [handler EXCEPT ![c] = call]
           /\ UNCHANGED <<accepted, responses>>
        \/ /\ accepted' = [accepted EXCEPT ![g][s] = Append(@, c)]
           /\ \/ /\ IsEmpty(responses[g][s])
                 /\ handler' = [handler EXCEPT ![c] = [call EXCEPT !.pc = "waiting", !.on = g]]
                 /\ responses' = [responses EXCEPT ![g][s] = BlockOn(@, c)]
              \/ /\ ~IsEmpty(responses[g][s])
                 /\ handler' = [handler EXCEPT ![c] =
                       [call EXCEPT !.pc = "answered", !.on = g,
                                    !.answer = Head(responses[g][s].items)]]
                 /\ responses' = [responses EXCEPT ![g][s] = GetNowait(@)]
    BY <1>1 DEF Submit, HasQueue
  <1>5. CASE handler' = [handler EXCEPT ![c] = call] /\ UNCHANGED <<accepted, responses>>
    BY <1>2, <1>3, <1>5 DEF Joined
  <1>6. CASE /\ accepted' = [accepted EXCEPT ![g][s] = Append(@, c)]
             /\ IsEmpty(responses[g][s])
             /\ handler' = [handler EXCEPT ![c] = [call EXCEPT !.pc = "waiting", !.on = g]]
             /\ responses' = [responses EXCEPT ![g][s] = BlockOn(@, c)]
    <2>1. /\ handler'[c] = [call EXCEPT !.pc = "waiting", !.on = g]
          /\ \A d \in Calls \ {c} : handler'[d] = handler[d]
      BY <1>2, <1>6
    <2>2. /\ handler'[c].pc = "waiting" /\ handler'[c].on = g /\ handler'[c].origin = g
          /\ handler'[c].sender = s /\ handler'[c].content = x
      BY <2>1
    <2>3. /\ accepted'[g][s] = Append(accepted[g][s], c)
          /\ \A y \in Sessions, t \in Services : ~(y = g /\ t = s) =>
                accepted'[y][t] = accepted[y][t]
      BY <1>2, <1>6
    <2>4. \A y \in Sessions, t \in Services : responses'[y][t].items = responses[y][t].items
      BY <1>2, <1>6 DEF BlockOn
    <2>5. QED
      BY <1>3, <2>1, <2>2, <2>3, <2>4 DEF JoinedAt, Joined
  <1>7. CASE /\ accepted' = [accepted EXCEPT ![g][s] = Append(@, c)]
             /\ ~IsEmpty(responses[g][s])
             /\ handler' = [handler EXCEPT ![c] =
                   [call EXCEPT !.pc = "answered", !.on = g,
                                !.answer = Head(responses[g][s].items)]]
             /\ responses' = [responses EXCEPT ![g][s] = GetNowait(@)]
    <2>1. /\ handler'[c] = [call EXCEPT !.pc = "answered", !.on = g,
                                        !.answer = Head(responses[g][s].items)]
          /\ \A d \in Calls \ {c} : handler'[d] = handler[d]
      BY <1>2, <1>7
    <2>2. /\ handler'[c].pc = "answered" /\ handler'[c].on = g /\ handler'[c].origin = g
          /\ handler'[c].sender = s /\ handler'[c].content = x
      BY <2>1
    <2>3. /\ accepted'[g][s] = Append(accepted[g][s], c)
          /\ \A y \in Sessions, t \in Services : ~(y = g /\ t = s) =>
                /\ accepted'[y][t] = accepted[y][t]
                /\ responses'[y][t].items = responses[y][t].items
      BY <1>2, <1>7
    <2>4. responses[g][s].items # <<>>
      BY <1>7 DEF IsEmpty
    <2>5. QED
      BY <1>3, <2>1, <2>2, <2>3, <2>4 DEF JoinedAt, Joined
  <1>8. QED
    BY <1>4, <1>5, <1>6, <1>7

(* Only these steps reach handlers, responses and the order of calls.      *)
LEMMA HandlerSteps ==
    ASSUME [Next]_vars
    PROVE  \/ \E c \in Calls, g \in Sessions, s \in Services, x \in Contents, h \in Hosts :
                 Submit(c, g, s, x, h)
           \/ \E c \in Calls : ResumeHandler(c)
           \/ \E g \in Sessions : DeliverResponse(g)
           \/ UNCHANGED <<handler, responses, accepted>>
  <1>1. \A r \in Ids, l \in ServiceLists :
           Start(r, l) => UNCHANGED <<handler, responses, accepted>>
    BY DEF Start
  <1>2. \A r \in Ids : Stop(r) => UNCHANGED <<handler, responses, accepted>>
    BY DEF Stop
  <1>3. \A g \in Sessions : RunLoop(g) => UNCHANGED <<handler, responses, accepted>>
    BY DEF RunLoop
  <1>4. \A g \in Sessions : RoundFails(g) => UNCHANGED <<handler, responses, accepted>>
    BY DEF RoundFails
  <1>5. \A g \in Sessions : HandleCancelled(g) => UNCHANGED <<handler, responses, accepted>>
    BY DEF HandleCancelled
  <1>6. UNCHANGED vars => UNCHANGED <<handler, responses, accepted>>
    BY DEF vars
  <1>7. QED
    BY <1>1, <1>2, <1>3, <1>4, <1>5, <1>6 DEF Next

(* The parameters of a session never change.                               *)
LEMMA LaunchStands ==
    ASSUME IInv, [Next]_vars, NEW g \in Sessions, loop[g].pc # "none"
    PROVE  launch'[g] = launch[g]
  <1>1. launch \in [Sessions -> [id : Ids \cup {None}, services : Seq(Services)]]
    BY DEF IInv, TypeOK
  <1>2. \A r \in Ids, l \in ServiceLists : Start(r, l) => launch'[g] = launch[g]
    BY <1>1 DEF Start
  <1>3. \A r \in Ids : Stop(r) => UNCHANGED launch
    BY DEF Stop
  <1>4. \A k \in Sessions : RunLoop(k) => UNCHANGED launch
    BY DEF RunLoop
  <1>5. \A k \in Sessions : RoundFails(k) => UNCHANGED launch
    BY DEF RoundFails
  <1>6. \A k \in Sessions : HandleCancelled(k) => UNCHANGED launch
    BY DEF HandleCancelled
  <1>7. \A k \in Sessions : DeliverResponse(k) => UNCHANGED launch
    BY DEF DeliverResponse
  <1>8. \A c \in Calls : ResumeHandler(c) => UNCHANGED launch
    BY DEF ResumeHandler
  <1>9. \A c \in Calls, k \in Sessions, s \in Services, x \in Contents, h \in Hosts :
           Submit(c, k, s, x, h) => UNCHANGED launch
    BY DEF Submit
  <1>10. UNCHANGED vars => UNCHANGED launch
    BY DEF vars
  <1>11. QED
    BY <1>2, <1>3, <1>4, <1>5, <1>6, <1>7, <1>8, <1>9, <1>10 DEF Next

(* A session that has received a call keeps its parameters.                *)
LEMMA CalledStands ==
    ASSUME OrderInv, [Next]_vars, NEW g \in Sessions, NEW s \in Services,
           accepted[g][s] # <<>>
    PROVE  launch'[g] = launch[g] /\ ServicesOf(g)' = ServicesOf(g)
  <1>1. loop[g].pc # "none" /\ IInv
    BY DEF OrderInv, OrphanInv, SessionOrdered, Unused
  <1>2. launch'[g] = launch[g]
    BY <1>1, LaunchStands
  <1>3. QED
    BY <1>2 DEF ServicesOf

LEMMA JoinedFrame ==
    ASSUME JoinedInv, OrderInv', [Next]_vars, UNCHANGED accepted,
           \A c \in Calls : Stays(c)
    PROVE  JoinedInv'
  <1>0. OrderInv /\ IInv
    BY DEF JoinedInv, OrderInv, OrphanInv
  <1>1. ASSUME NEW g \in Sessions, NEW s \in Services
        PROVE  OrderSound(g, s)'
    <2>1. OrderSound(g, s)
      BY DEF JoinedInv
    <2>2. \A k \in DOMAIN accepted[g][s] : accepted[g][s][k] \in Calls
      BY <1>0, AcceptedType
    <2>3. \A k \in DOMAIN accepted[g][s] : JoinedAt(accepted[g][s][k], g, s)'
      BY <2>1, <2>2 DEF OrderSound, JoinedAt, Joined, Stays
    <2>4. accepted[g][s] # <<>> => s \in ServicesOf(g)'
      BY <1>0, <2>1, CalledStands DEF OrderSound
    <2>5. QED
      BY <2>1, <2>3, <2>4 DEF OrderSound, Distinct
  <1>2. ASSUME NEW c \in Calls, Joined(c)'
        PROVE  \E g \in Sessions, s \in Services : \E k \in DOMAIN accepted[g][s] :
                  accepted[g][s][k] = c
    BY <1>2 DEF JoinedInv, Stays
  <1>3. QED
    BY <1>1, <1>2 DEF JoinedInv

(* A new call comes last in the order of its variant.                      *)
LEMMA SubmitJoined ==
    ASSUME JoinedInv, OrderInv', [Next]_vars, NEW c \in Calls, NEW g \in Sessions,
           NEW s \in Services, NEW x \in Contents, NEW h \in Hosts, Submit(c, g, s, x, h)
    PROVE  JoinedInv'
  <1>0. OrderInv /\ OrphanInv /\ IInv
    BY DEF JoinedInv, OrderInv, OrphanInv
  <1>1. ~Joined(c) /\ \A d \in Calls \ {c} : handler'[d] = handler[d]
    BY <1>0, SubmitEffect
  <1>2. CASE ~Joined(c)' /\ UNCHANGED <<accepted, responses>>
    <2>1. \A y \in Sessions, t \in Services : \A k \in DOMAIN accepted[y][t] :
             accepted[y][t][k] \in Calls \ {c}
      BY <1>0, <1>1, AcceptedType DEF JoinedInv, OrderSound, JoinedAt
    <2>2. ASSUME NEW y \in Sessions, NEW t \in Services
          PROVE  OrderSound(y, t)'
      <3>1. OrderSound(y, t)
        BY DEF JoinedInv
      <3>2. \A k \in DOMAIN accepted[y][t] : JoinedAt(accepted[y][t][k], y, t)'
        BY <1>1, <1>2, <2>1, <3>1 DEF OrderSound, JoinedAt, Joined
      <3>3. accepted[y][t] # <<>> => t \in ServicesOf(y)'
        BY <1>0, <3>1, CalledStands DEF OrderSound
      <3>4. QED
        BY <1>2, <3>1, <3>2, <3>3 DEF OrderSound, Distinct
    <2>3. ASSUME NEW d \in Calls, Joined(d)'
          PROVE  \E y \in Sessions, t \in Services : \E k \in DOMAIN accepted[y][t] :
                    accepted[y][t][k] = d
      <3>1. d # c
        BY <1>2, <2>3
      <3>2. Joined(d)
        BY <1>1, <2>3, <3>1 DEF Joined
      <3>3. QED
        BY <3>2 DEF JoinedInv
    <2>4. QED
      BY <1>2, <2>2, <2>3 DEF JoinedInv
  <1>3. CASE /\ JoinedAt(c, g, s)'
             /\ accepted'[g][s] = Append(accepted[g][s], c)
             /\ \A y \in Sessions, t \in Services : ~(y = g /\ t = s) =>
                   accepted'[y][t] = accepted[y][t]
    <2>1. \A y \in Sessions, t \in Services : \A k \in DOMAIN accepted[y][t] :
             accepted[y][t][k] \in Calls \ {c}
      BY <1>0, <1>1, AcceptedType DEF JoinedInv, OrderSound, JoinedAt
    <2>2. \A y \in Sessions, t \in Services, d \in Calls \ {c} :
             JoinedAt(d, y, t) => JoinedAt(d, y, t)'
      BY <1>1 DEF JoinedAt, Joined
    <2>3. accepted[g][s] \in Seq(Calls)
      BY <1>0, AcceptedType
    <2>4. /\ Append(accepted[g][s], c) \in Seq(Calls)
          /\ \A k \in DOMAIN accepted[g][s] : k \in DOMAIN Append(accepted[g][s], c)
                                              /\ Append(accepted[g][s], c)[k] = accepted[g][s][k]
          /\ \E k \in DOMAIN Append(accepted[g][s], c) : Append(accepted[g][s], c)[k] = c
      <3>1. Len(accepted[g][s]) + 1 \in 1 .. Len(accepted[g][s]) + 1
        BY <2>3, AppendKeeps
      <3>2. QED
        BY <2>3, <3>1, AppendKeeps
    <2>5. OrderSound(g, s)'
      <3>1. /\ \A i, j \in DOMAIN accepted[g][s] : accepted[g][s][i] = accepted[g][s][j] => i = j
            /\ \A i \in DOMAIN accepted[g][s] : accepted[g][s][i] # c
        BY <2>1 DEF JoinedInv, OrderSound, Distinct
      <3>2. /\ \A i \in DOMAIN Append(accepted[g][s], c) :
                  \/ Append(accepted[g][s], c)[i] = c
                  \/ /\ i \in DOMAIN accepted[g][s]
                     /\ Append(accepted[g][s], c)[i] = accepted[g][s][i]
            /\ \A i, j \in DOMAIN Append(accepted[g][s], c) :
                  Append(accepted[g][s], c)[i] = Append(accepted[g][s], c)[j] => i = j
        BY <2>3, <3>1, AppendDistinct
      <3>3. \A k \in DOMAIN accepted'[g][s] : JoinedAt(accepted[g][s][k], g, s)'
        <4>1. ASSUME NEW k \in DOMAIN accepted'[g][s]
              PROVE  JoinedAt(accepted[g][s][k], g, s)'
          <5>1. \/ accepted'[g][s][k] = c
                \/ k \in DOMAIN accepted[g][s] /\ accepted'[g][s][k] = accepted[g][s][k]
            BY <1>3, <3>2, <4>1
          <5>2. CASE accepted'[g][s][k] = c
            BY <1>3, <5>2 DEF JoinedAt, Joined
          <5>3. CASE k \in DOMAIN accepted[g][s] /\ accepted'[g][s][k] = accepted[g][s][k]
            <6>1. PICK d \in Calls \ {c} : d = accepted[g][s][k]
              BY <2>1, <5>3
            <6>2. JoinedAt(d, g, s)
              BY <5>3, <6>1 DEF JoinedInv, OrderSound
            <6>3. JoinedAt(d, g, s)'
              BY <2>2, <6>2
            <6>4. QED
              BY <5>3, <6>1, <6>3 DEF JoinedAt, Joined
          <5>4. QED
            BY <5>1, <5>2, <5>3
        <4>2. QED
          BY <4>1
      <3>4. Distinct(accepted'[g][s])
        BY <1>3, <3>2 DEF Distinct
      <3>5. s \in ServicesOf(g) /\ loop[g].pc # "none"
        BY <1>0, SubmitOwn
      <3>6. s \in ServicesOf(g)'
        BY <1>0, <3>5, LaunchStands DEF ServicesOf
      <3>7. QED
        BY <3>3, <3>4, <3>6 DEF OrderSound
    <2>6. ASSUME NEW y \in Sessions, NEW t \in Services, ~(y = g /\ t = s)
          PROVE  OrderSound(y, t)'
      <3>1. accepted'[y][t] = accepted[y][t] /\ OrderSound(y, t)
        BY <1>3, <2>6 DEF JoinedInv
      <3>4. \A k \in DOMAIN accepted[y][t] : JoinedAt(accepted[y][t][k], y, t)'
        BY <2>1, <2>2, <3>1 DEF OrderSound, JoinedAt, Joined
      <3>2. accepted[y][t] # <<>> => t \in ServicesOf(y)'
        BY <1>0, <3>1, CalledStands DEF OrderSound
      <3>3. QED
        BY <3>1, <3>2, <3>4 DEF OrderSound, Distinct
    <2>7. ASSUME NEW d \in Calls, Joined(d)'
          PROVE  \E y \in Sessions, t \in Services : \E k \in DOMAIN accepted'[y][t] :
                    accepted'[y][t][k] = d
      <3>1. CASE d = c
        BY <1>3, <2>4, <3>1
      <3>2. CASE d # c
        <4>1. Joined(d)
          BY <1>1, <2>7, <3>2 DEF Joined
        <4>2. PICK y \in Sessions, t \in Services : \E k \in DOMAIN accepted[y][t] :
                 accepted[y][t][k] = d
          BY <4>1 DEF JoinedInv
        <4>3. \E k \in DOMAIN accepted'[y][t] : accepted'[y][t][k] = d
          <5>1. CASE y = g /\ t = s
            BY <1>3, <2>4, <4>2, <5>1
          <5>2. CASE ~(y = g /\ t = s)
            BY <1>3, <4>2, <5>2
          <5>3. QED
            BY <5>1, <5>2
        <4>4. QED
          BY <4>3
      <3>3. QED
        BY <3>1, <3>2
    <2>8. QED
      BY <2>5, <2>6, <2>7 DEF JoinedInv
  <1>4. QED
    BY <1>0, <1>2, <1>3, SubmitEffect

LEMMA NextJoined ==
    ASSUME Retry = FALSE, JoinedInv, [Next]_vars
    PROVE  JoinedInv'
  <1>1. OrderInv /\ OrphanInv /\ IInv /\ OrderInv'
    BY NextOrdered DEF JoinedInv, OrderInv, OrphanInv
  <1>2. ASSUME NEW c \in Calls, ResumeHandler(c) PROVE JoinedInv'
    <2>1. Stays(c) /\ \A d \in Calls \ {c} : handler'[d] = handler[d]
      BY <1>1, <1>2, ResumeEffect
    <2>2. \A d \in Calls : Stays(d)
      BY <2>1, SameSettled DEF Settled
    <2>3. QED
      BY <1>1, <1>2, <2>2, JoinedFrame DEF ResumeHandler
  <1>3. ASSUME NEW g \in Sessions, DeliverResponse(g) PROVE JoinedInv'
    <2>1. \A d \in Calls : Stays(d)
      BY <1>1, <1>3, DeliversToAll DEF Settled
    <2>2. QED
      BY <1>1, <1>3, <2>1, JoinedFrame DEF DeliverResponse
  <1>4. ASSUME UNCHANGED <<handler, responses, accepted>> PROVE JoinedInv'
    <2>1. \A d \in Calls : Stays(d)
      BY <1>4, SameSettled DEF Settled
    <2>2. QED
      BY <1>1, <1>4, <2>1, JoinedFrame
  <1>5. QED
    BY <1>1, <1>2, <1>3, <1>4, HandlerSteps, SubmitJoined

LEMMA InitJoined == Init => JoinedInv
  <1> SUFFICES ASSUME Init PROVE JoinedInv
    OBVIOUS
  <1>1. OrderInv
    BY InitOrdered
  <1>2. /\ \A c \in Calls : handler[c].pc = "idle"
        /\ \A g \in Sessions, s \in Services : accepted[g][s] = <<>>
    BY DEF Init
  <1>3. QED
    BY <1>1, <1>2 DEF JoinedInv, OrderSound, Joined, Distinct

-----------------------------------------------------------------------------
(* The answers of a variant that has one call under way at a time.         *)

(* How many of its rounds a running session has delivered the outcome of.  *)
Delivered(g) == IF Collecting(g) THEN Len(rounds[g]) ELSE Len(rounds[g]) - 1

(* The first r calls of s were answered, each with the outcome of its own  *)
(* round; at most one more waits; the responses that are there already are *)
(* those of the rounds that follow, up to the last one delivered.          *)
ServedUpTo(g, s, r) ==
    /\ Len(accepted[g][s]) \in {r, r + 1}
    /\ \A k \in DOMAIN accepted[g][s] :
          IF k <= r THEN /\ handler[accepted[g][s][k]].pc = "answered"
                         /\ handler[accepted[g][s][k]].answer = [by |-> g, nth |-> k]
          ELSE handler[accepted[g][s][k]].pc # "answered"
    /\ \A k \in DOMAIN responses[g][s].items :
          responses[g][s].items[k] = [by |-> g, nth |-> r + k]
    /\ r + Len(responses[g][s].items) <= Len(rounds[g])
    /\ Active(g) /\ s \in ServicesOf(g) => r + Len(responses[g][s].items) = Delivered(g)

Served(g, s) == \E r \in Nat : ServedUpTo(g, s, r)

(* Only its own steps make a loop take or answer calls.                    *)
LEMMA LoopSteps ==
    ASSUME OrderInv, [Next]_vars, NEW g \in Sessions
    PROVE  \/ Quiet(g) /\ rounds'[g] = rounds[g]
           \/ loop[g].pc = "none" /\ loop'[g].pc = "created" /\ rounds'[g] = rounds[g]
           \/ RunLoop(g) \/ DeliverResponse(g)
  <1>1. IInv /\ OrphanInv /\ loop \in [Sessions -> Loop]
    BY DEF OrderInv, OrphanInv, IInv, TypeOK
  <1> DEFINE Same1 == \/ Quiet(g) /\ rounds'[g] = rounds[g]
                      \/ loop[g].pc = "none" /\ loop'[g].pc = "created" /\ rounds'[g] = rounds[g]
  <1>2. ASSUME NEW r \in Ids, NEW l \in ServiceLists, Start(r, l) PROVE Same1
    <2>1. PICK k \in Sessions : loop[k].pc = "none" /\ loop' = [loop EXCEPT ![k].pc = "created"]
      BY <1>2 DEF Start
    <2>2. UNCHANGED rounds
      BY <1>2 DEF Start
    <2>3. CASE k = g
      BY <1>1, <2>1, <2>2, <2>3 DEF Loop
    <2>4. CASE k # g
      <3>1. loop'[g] = loop[g]
        BY <1>1, <2>1, <2>4
      <3>2. QED
        BY <2>2, <3>1, LoopQuiet
    <2>5. QED
      BY <2>3, <2>4
  <1>3. ASSUME NEW r \in Ids, Stop(r) PROVE Same1
    BY <1>1, <1>3, StopQuiet DEF Stop
  <1>4. ASSUME NEW c \in Calls, NEW k \in Sessions, NEW s \in Services,
               NEW x \in Contents, NEW h \in Hosts, Submit(c, k, s, x, h)
        PROVE  Same1
    BY <1>1, <1>4, SubmitQuiet DEF Submit
  <1>5. ASSUME NEW c \in Calls, ResumeHandler(c) PROVE Same1
    BY <1>5, LoopQuiet DEF ResumeHandler
  <1>6. ASSUME NEW k \in Sessions \ {g}, RunLoop(k) PROVE Same1
    <2>1. Collect(k, loop[k].store) /\ loop[k].pc # "none"
      BY <1>6 DEF RunLoop
    <2>2. loop[k].store \in Seq(Calls) /\ Len(loop[k].store) <= Len(launch[k].services)
      BY <1>1, StoreType, StoreFits DEF OrderInv
    <2>3. loop'[g] = loop[g] /\ rounds'[g] = rounds[g]
      BY <1>1, <2>1, <2>2, CollectEffect
    <2>4. QED
      BY <2>3, LoopQuiet
  <1>7. ASSUME NEW k \in Sessions \ {g}, DeliverResponse(k) PROVE Same1
    <2>1. Collect(k, <<>>) /\ loop[k].pc # "none"
      BY <1>1, <1>7, DeliversToAll DEF Active
    <2>2. <<>> \in Seq(Calls) /\ Len(<<>>) = 0 /\ Len(launch[k].services) \in Nat
      BY <1>1, StoreType, EmptySeq
    <2>3. loop'[g] = loop[g] /\ rounds'[g] = rounds[g]
      BY <1>1, <2>1, <2>2, CollectEffect
    <2>4. QED
      BY <2>3, LoopQuiet
  <1>8. ASSUME NEW k \in Sessions, RoundFails(k) PROVE Same1
    <2>1. /\ loop[k].pc # "none" /\ loop' = [loop EXCEPT ![k].pc = "failed"]
          /\ UNCHANGED rounds
      BY <1>8 DEF RoundFails
    <2>2. QED
      BY <1>1, <2>1, FailsQuiet
  <1>9. ASSUME NEW k \in Sessions, HandleCancelled(k) PROVE Same1
    BY <1>1, <1>9, HandleCancelledQuiet DEF HandleCancelled
  <1>10. ASSUME UNCHANGED vars PROVE Same1
    BY <1>10, LoopQuiet DEF vars
  <1>11. QED
    BY <1>2, <1>3, <1>4, <1>5, <1>6, <1>7, <1>8, <1>9, <1>10 DEF Next

(* Nothing but a delivery changes how many rounds were delivered.          *)
LEMMA DeliveredStands ==
    ASSUME OrderInv, [Next]_vars, NEW g \in Sessions, ~DeliverResponse(g)
    PROVE  /\ Len(rounds'[g]) \in Nat /\ Len(rounds'[g]) >= Len(rounds[g])
           /\ Active(g)' => \/ Active(g) /\ Delivered(g)' = Delivered(g)
                            \/ loop[g].pc = "none" /\ rounds[g] = <<>> /\ Delivered(g)' = 0
  <1>1. IInv /\ OrphanInv /\ OwnQueue /\ SortedInv
    BY DEF OrderInv, OrphanInv
  <1>2. rounds[g] \in Seq(Round) /\ Len(rounds[g]) \in Nat
    BY <1>1, StoreType
  <1>3. CASE Quiet(g) /\ rounds'[g] = rounds[g]
    <2>1. Active(g)' => Active(g) /\ (Collecting(g)' <=> Collecting(g))
      BY <1>3 DEF Quiet
    <2>2. QED
      BY <1>2, <1>3, <2>1 DEF Delivered
  <1>4. CASE loop[g].pc = "none" /\ loop'[g].pc = "created" /\ rounds'[g] = rounds[g]
    <2>1. rounds[g] = <<>> /\ Collecting(g)' /\ ~Collecting(g) /\ Len(<<>>) = 0
      BY <1>1, <1>4, EmptySeq DEF SortedInv, RoundsSorted, Collecting
    <2>2. QED
      BY <1>2, <1>4, <2>1 DEF Delivered
  <1>5. CASE RunLoop(g)
    <2>1. Active(g) /\ Collecting(g) /\ loop[g].pc # "none" /\ Collect(g, loop[g].store)
      BY <1>5 DEF RunLoop, Active, Collecting
    <2>2. PICK n \in Len(loop[g].store) + 1 .. Len(launch[g].services) + 1 :
             CollectsOwn(g, loop[g].store, n)
      BY <1>1, <2>1, StoreType, StoreFits, OwnSource, CollectOwn
    <2>3. CASE /\ loop'[g].pc \in {"forwarding", "rejecting"}
               /\ rounds'[g] = Append(rounds[g],
                    [store |-> loop'[g].store, forwarded |-> Unanimous(loop'[g].store)])
      <3>1. Len(rounds'[g]) = Len(rounds[g]) + 1
        BY <1>2, <2>3
      <3>2. ~Collecting(g)'
        BY <2>3 DEF Collecting
      <3>3. QED
        BY <1>2, <2>1, <3>1, <3>2 DEF Delivered
    <2>4. CASE loop'[g].pc \in {"waiting", "failed"} /\ rounds'[g] = rounds[g]
      <3>1. Active(g)' => Collecting(g)'
        BY <2>4 DEF Active, Collecting
      <3>2. QED
        BY <1>2, <2>1, <2>4, <3>1 DEF Delivered
    <2>5. QED
      BY <2>2, <2>3, <2>4 DEF CollectsOwn
  <1>6. QED
    BY <1>3, <1>4, <1>5, LoopSteps

LEMMA ServedFrame ==
    ASSUME JoinedInv, [Next]_vars, NEW g \in Sessions, ~DeliverResponse(g),
           NEW s \in Services, NEW r \in Nat, ServedUpTo(g, s, r),
           accepted'[g][s] = accepted[g][s],
           \A k \in DOMAIN accepted[g][s] : Settled(accepted[g][s][k]),
           responses'[g][s].items = responses[g][s].items
    PROVE  ServedUpTo(g, s, r)'
  <1>1. OrderInv /\ OrphanInv /\ IInv
    BY DEF JoinedInv, OrderInv, OrphanInv
  <1>2. /\ Len(rounds[g]) \in Nat /\ Len(rounds'[g]) \in Nat
        /\ Len(rounds'[g]) >= Len(rounds[g])
        /\ responses[g][s].items \in Seq(Answer) /\ Len(responses[g][s].items) \in Nat
    <2>1. responses[g][s] \in Queue(Answer, Calls)
      BY <1>1 DEF IInv, TypeOK
    <2>2. responses[g][s].items \in Seq(Answer)
      BY <2>1 DEF Queue
    <2>3. QED
      BY <1>1, <2>2, DeliveredStands, StoreType, LenProperties
  <1>3. /\ Len(accepted'[g][s]) \in {r, r + 1}
        /\ \A k \in DOMAIN responses'[g][s].items :
              responses'[g][s].items[k] = [by |-> g, nth |-> r + k]
        /\ r + Len(responses[g][s].items) <= Len(rounds[g])
        /\ Active(g) /\ s \in ServicesOf(g) => r + Len(responses[g][s].items) = Delivered(g)
    BY DEF ServedUpTo
  <1>4. ASSUME NEW k \in DOMAIN accepted[g][s]
        PROVE  IF k <= r THEN /\ handler'[accepted[g][s][k]].pc = "answered"
                              /\ handler'[accepted[g][s][k]].answer = [by |-> g, nth |-> k]
               ELSE handler'[accepted[g][s][k]].pc # "answered"
    BY DEF ServedUpTo, Settled, Stays
  <1>5. r + Len(responses'[g][s].items) <= Len(rounds'[g])
    BY <1>2, <1>3
  <1>6. ASSUME Active(g)', s \in ServicesOf(g)'
        PROVE  r + Len(responses[g][s].items) = Delivered(g)'
    <2>1. CASE Active(g) /\ Delivered(g)' = Delivered(g)
      <3>1. ServicesOf(g)' = ServicesOf(g)
        BY <1>1, <2>1, LaunchStands DEF Active, ServicesOf
      <3>2. QED
        BY <1>3, <1>6, <2>1, <3>1
    <2>2. CASE rounds[g] = <<>> /\ Delivered(g)' = 0
      <3>1. Len(rounds[g]) = 0
        BY <2>2, EmptySeq
      <3>2. QED
        BY <1>2, <1>3, <2>2, <3>1
    <2>3. QED
      BY <1>1, <1>6, <2>1, <2>2, DeliveredStands
  <1>7. QED
    BY <1>3, <1>4, <1>5, <1>6 DEF ServedUpTo

(* A delivery adds the outcome of the last round to the responses.         *)
LEMMA DeliverServed ==
    ASSUME JoinedInv, NEW g \in Sessions, DeliverResponse(g),
           NEW s \in Services, NEW r \in Nat, ServedUpTo(g, s, r)
    PROVE  ServedUpTo(g, s, r)'
  <1>1. OrderInv /\ OrphanInv /\ IInv /\ OwnQueue
    BY DEF JoinedInv, OrderInv, OrphanInv
  <1>2. /\ Active(g) /\ ~Collecting(g) /\ Collect(g, <<>>) /\ Response(g) \in Answer
        /\ \A c \in Calls : Settled(c)
        /\ responses'[g][s].items = IF s \in ServicesOf(g)
                                    THEN Append(responses[g][s].items, Response(g))
                                    ELSE responses[g][s].items
        /\ loop[g].pc # "none"
    BY <1>1, DeliversToAll DEF Active
  <1>3. UNCHANGED <<accepted, launch>>
    BY DEF DeliverResponse
  <1>4. PICK w \in Seq(Answer) : w = responses[g][s].items
    <2>1. responses[g][s] \in Queue(Answer, Calls)
      BY <1>1 DEF IInv, TypeOK
    <2>2. QED
      BY <2>1 DEF Queue
  <1>5. Len(w) \in Nat /\ DOMAIN w = 1 .. Len(w)
    BY LenProperties
  <1>6. PICK m \in Nat : m = Len(rounds[g])
    BY <1>1, StoreType
  <1>7. /\ Len(rounds'[g]) \in Nat /\ Len(rounds'[g]) >= m
        /\ Active(g)' => Delivered(g)' = m
    <2>1. <<>> \in Seq(Calls) /\ Len(<<>>) = 0 /\ Len(launch[g].services) \in Nat
          /\ rounds[g] \in Seq(Round)
      BY <1>1, StoreType, EmptySeq
    <2>2. PICK n \in Len(<<>>) + 1 .. Len(launch[g].services) + 1 : CollectsOwn(g, <<>>, n)
      <3>1. \A i : Source(g, i) = g
        BY <1>1, <1>2, OwnSource
      <3>2. Len(<<>>) <= Len(launch[g].services)
        BY <2>1
      <3>3. QED
        BY <1>1, <1>2, <2>1, <3>1, <3>2, CollectOwn
    <2>3. CASE /\ loop'[g].pc \in {"forwarding", "rejecting"}
               /\ rounds'[g] = Append(rounds[g],
                    [store |-> loop'[g].store, forwarded |-> Unanimous(loop'[g].store)])
      <3>1. Len(rounds'[g]) = m + 1
        BY <1>6, <2>1, <2>3
      <3>2. ~Collecting(g)'
        BY <2>3 DEF Collecting
      <3>3. QED
        BY <1>6, <3>1, <3>2 DEF Delivered
    <2>4. CASE loop'[g].pc \in {"waiting", "failed"} /\ rounds'[g] = rounds[g]
      <3>1. Active(g)' => Collecting(g)'
        BY <2>4 DEF Active, Collecting
      <3>2. QED
        BY <1>6, <2>4, <3>1 DEF Delivered
    <2>5. QED
      BY <2>2, <2>3, <2>4 DEF CollectsOwn
  <1>8. /\ Len(accepted'[g][s]) \in {r, r + 1}
        /\ \A k \in DOMAIN w : w[k] = [by |-> g, nth |-> r + k]
        /\ r + Len(w) <= m
        /\ s \in ServicesOf(g) => r + Len(w) = m - 1
    BY <1>2, <1>3, <1>4, <1>6 DEF ServedUpTo, Delivered
  <1>9. ASSUME NEW k \in DOMAIN accepted[g][s]
        PROVE  IF k <= r THEN /\ handler'[accepted[g][s][k]].pc = "answered"
                              /\ handler'[accepted[g][s][k]].answer = [by |-> g, nth |-> k]
               ELSE handler'[accepted[g][s][k]].pc # "answered"
    <2>1. Settled(accepted[g][s][k])
      BY <1>1, <1>2, AcceptedType
    <2>2. QED
      BY <2>1 DEF ServedUpTo, Settled, Stays
  <1>10. CASE s \in ServicesOf(g)
    <2>1. PICK a \in Answer : a = Response(g)
      BY <1>2
    <2>2. a = [by |-> g, nth |-> m]
      BY <1>6, <2>1 DEF Response
    <2>3. responses'[g][s].items = Append(w, a)
      BY <1>2, <1>4, <1>10, <2>1
    <2>4. /\ Len(Append(w, a)) = Len(w) + 1 /\ DOMAIN Append(w, a) = 1 .. Len(w) + 1
          /\ \A k \in DOMAIN w : Append(w, a)[k] = w[k]
          /\ Append(w, a)[Len(w) + 1] = a
      BY AppendKeeps
    <2>5. ASSUME NEW k \in 1 .. Len(w) + 1 PROVE Append(w, a)[k] = [by |-> g, nth |-> r + k]
      <3>1. CASE k \in DOMAIN w
        BY <1>8, <2>4, <3>1
      <3>2. CASE k \notin DOMAIN w
        <4>1. k = Len(w) + 1 /\ r + k = m
          BY <1>5, <1>8, <1>10, <2>5, <3>2
        <4>2. QED
          BY <2>2, <2>4, <4>1
      <3>3. QED
        BY <3>1, <3>2
    <2>6. r + Len(Append(w, a)) = m
      BY <1>5, <1>8, <1>10, <2>4
    <2>7. QED
      BY <1>3, <1>7, <1>8, <1>9, <2>3, <2>4, <2>5, <2>6 DEF ServedUpTo
  <1>11. CASE s \notin ServicesOf(g)
    <2>1. s \notin ServicesOf(g)' /\ responses'[g][s].items = w
      BY <1>2, <1>3, <1>4, <1>11 DEF ServicesOf
    <2>2. r + Len(w) <= Len(rounds'[g])
      BY <1>5, <1>7, <1>8
    <2>3. QED
      BY <1>3, <1>8, <1>9, <2>1, <2>2 DEF ServedUpTo
  <1>12. QED
    BY <1>10, <1>11

(* Every variant has called for each round that was decided.               *)
LEMMA RoundsHeard ==
    ASSUME OrderInv, NEW g \in Sessions, NEW s \in ServicesOf(g), s \in Services
    PROVE  Len(rounds[g]) <= Len(accepted[g][s])
  <1>1. IInv /\ RoundsSorted(g) /\ RoundsInStep(g)
    BY DEF OrderInv, OrphanInv, SortedInv, SessionOrdered
  <1>2. /\ Len(rounds[g]) \in Nat /\ DOMAIN rounds[g] = 1 .. Len(rounds[g])
        /\ Len(accepted[g][s]) \in Nat /\ DOMAIN accepted[g][s] = 1 .. Len(accepted[g][s])
    BY <1>1, StoreType, AcceptedType
  <1>3. PICK i \in DOMAIN launch[g].services : launch[g].services[i] = s
    BY DEF ServicesOf
  <1>4. CASE Len(rounds[g]) = 0
    BY <1>2, <1>4
  <1>5. CASE Len(rounds[g]) # 0
    <2>1. PICK n \in DOMAIN rounds[g] : n = Len(rounds[g])
      BY <1>2, <1>5
    <2>2. rounds[g][n].store \in Seq(Calls) /\ RoundSound(g, rounds[g][n])
      BY <1>1, <2>1, RoundType DEF RoundsSorted
    <2>3. DOMAIN rounds[g][n].store = 1 .. Len(launch[g].services)
      BY <2>2, LenProperties DEF RoundSound
    <2>4. launch[g].services \in Seq(Services)
      BY <1>1, StoreType
    <2>5. i \in DOMAIN rounds[g][n].store
      BY <1>3, <2>3, <2>4, LenProperties
    <2>6. n \in DOMAIN accepted[g][s]
      BY <1>1, <1>3, <2>1, <2>5 DEF RoundsInStep
    <2>7. QED
      BY <1>2, <2>1, <2>6
  <1>6. QED
    BY <1>4, <1>5

(* A variant without a call under way has all its answers.                 *)
LEMMA NothingAhead ==
    ASSUME JoinedInv, NEW g \in Sessions, NEW s \in Services, s \in ServicesOf(g),
           NEW r \in Nat, ServedUpTo(g, s, r), ~Outstanding(g, s)
    PROVE  Len(accepted[g][s]) = r /\ responses[g][s].items = <<>>
  <1>1. OrderInv /\ IInv
    BY DEF JoinedInv, OrderInv, OrphanInv
  <1>2. /\ Len(accepted[g][s]) \in {r, r + 1}
        /\ DOMAIN accepted[g][s] = 1 .. Len(accepted[g][s])
        /\ \A k \in DOMAIN accepted[g][s] : accepted[g][s][k] \in Calls
    BY <1>1, AcceptedType DEF ServedUpTo
  <1>3. Len(accepted[g][s]) = r
    <2>1. ASSUME Len(accepted[g][s]) = r + 1 PROVE FALSE
      <3>1. PICK k \in DOMAIN accepted[g][s] : k = r + 1
        BY <1>2, <2>1
      <3>2. PICK c \in Calls : c = accepted[g][s][k]
        BY <1>2
      <3>3. handler[c].pc # "answered"
        <4>1. ~(k <= r)
          BY <3>1
        <4>2. QED
          BY <3>2, <4>1 DEF ServedUpTo
      <3>4. JoinedAt(c, g, s)
        BY <3>2 DEF JoinedInv, OrderSound
      <3>5. QED
        BY <3>3, <3>4 DEF JoinedAt, Joined, Outstanding
    <2>2. QED
      BY <1>2, <2>1
  <1>4. responses[g][s].items \in Seq(Answer) /\ Len(responses[g][s].items) \in Nat
    <2>1. responses[g][s] \in Queue(Answer, Calls)
      BY <1>1 DEF IInv, TypeOK
    <2>2. QED
      BY <2>1, LenProperties DEF Queue
  <1>5. r + Len(responses[g][s].items) <= Len(rounds[g]) /\ Len(rounds[g]) \in Nat
    BY <1>1, StoreType DEF ServedUpTo
  <1>6. Len(rounds[g]) <= r
    BY <1>1, <1>3, RoundsHeard
  <1>7. Len(responses[g][s].items) = 0
    BY <1>4, <1>5, <1>6
  <1>8. QED
    BY <1>3, <1>4, <1>7, EmptySeq

LEMMA SubmitServed ==
    ASSUME JoinedInv, [Next]_vars, NEW c \in Calls, NEW g \in Sessions, NEW s \in Services,
           NEW x \in Contents, NEW h \in Hosts, Submit(c, g, s, x, h),
           NEW y \in Sessions, NEW t \in Services, NEW r \in Nat, ServedUpTo(y, t, r),
           ~DeliverResponse(y), y = g /\ t = s => ~Outstanding(g, s)
    PROVE  ServedUpTo(y, t, r)'
  <1>1. OrderInv /\ OrphanInv /\ IInv
    BY DEF JoinedInv, OrderInv, OrphanInv
  <1>2. /\ ~Joined(c) /\ \A d \in Calls \ {c} : handler'[d] = handler[d]
        /\ s \in ServicesOf(g) /\ loop[g].pc # "none" /\ UNCHANGED <<launch, rounds>>
    BY <1>1, SubmitEffect, SubmitOwn
  <1>3. \A k \in DOMAIN accepted[y][t] : accepted[y][t][k] \in Calls \ {c}
    BY <1>1, <1>2, AcceptedType DEF JoinedInv, OrderSound, JoinedAt
  <1>4. \A k \in DOMAIN accepted[y][t] : Settled(accepted[y][t][k])
    BY <1>2, <1>3, SameSettled
  <1>5. CASE accepted'[y][t] = accepted[y][t] /\ responses'[y][t].items = responses[y][t].items
    BY <1>4, <1>5, ServedFrame
  <1>6. CASE /\ y = g /\ t = s
             /\ accepted'[g][s] = Append(accepted[g][s], c)
             /\ responses[g][s].items = <<>> =>
                   handler'[c].pc = "waiting" /\ responses'[g][s].items = <<>>
    <2>1. Len(accepted[g][s]) = r /\ responses[g][s].items = <<>>
      BY <1>2, <1>6, NothingAhead
    <2>2. handler'[c].pc = "waiting" /\ responses'[g][s].items = <<>>
      BY <1>6, <2>1
    <2>3. accepted[g][s] \in Seq(Calls)
      BY <1>1, AcceptedType
    <2>4. /\ Len(accepted'[g][s]) = r + 1 /\ DOMAIN accepted'[g][s] = 1 .. r + 1
          /\ \A k \in DOMAIN accepted[g][s] : accepted'[g][s][k] = accepted[g][s][k]
          /\ accepted'[g][s][r + 1] = c /\ DOMAIN accepted[g][s] = 1 .. r
      BY <1>6, <2>1, <2>3, AppendKeeps
    <2>5. ASSUME NEW k \in 1 .. r + 1
          PROVE  IF k <= r THEN /\ handler'[accepted'[g][s][k]].pc = "answered"
                                /\ handler'[accepted'[g][s][k]].answer = [by |-> g, nth |-> k]
                 ELSE handler'[accepted'[g][s][k]].pc # "answered"
      <3>1. CASE k <= r
        <4>1. k \in DOMAIN accepted[g][s]
          BY <2>4, <3>1
        <4>2. handler'[accepted'[g][s][k]] = handler[accepted[g][s][k]]
          BY <1>2, <1>3, <1>6, <2>4, <4>1
        <4>3. /\ handler[accepted[g][s][k]].pc = "answered"
              /\ handler[accepted[g][s][k]].answer = [by |-> g, nth |-> k]
          BY <1>6, <3>1, <4>1 DEF ServedUpTo
        <4>4. QED
          BY <3>1, <4>2, <4>3
      <3>2. CASE ~(k <= r)
        <4>1. k = r + 1
          BY <3>2
        <4>2. QED
          BY <2>2, <2>4, <3>2, <4>1
      <3>3. QED
        BY <3>1, <3>2
    <2>6. /\ r + 0 <= Len(rounds'[g]) /\ Len(<<>>) = 0 /\ DOMAIN <<>> = {}
          /\ Active(g) => r + 0 = Delivered(g)
      BY <1>2, <1>6, <2>1, EmptySeq DEF ServedUpTo
    <2>7. Active(g)' => Active(g) /\ Delivered(g)' = Delivered(g)
      BY <1>1, <1>2, <1>6, DeliveredStands
    <2>8. QED
      BY <1>6, <2>2, <2>4, <2>5, <2>6, <2>7 DEF ServedUpTo
  <1>7. QED
    <2>1. \/ UNCHANGED <<accepted, responses>>
          \/ /\ accepted'[g][s] = Append(accepted[g][s], c)
             /\ \A z \in Sessions, u \in Services : ~(z = g /\ u = s) =>
                   /\ accepted'[z][u] = accepted[z][u]
                   /\ responses'[z][u].items = responses[z][u].items
             /\ responses[g][s].items = <<>> =>
                   handler'[c].pc = "waiting" /\ responses'[g][s].items = <<>>
      BY <1>1, SubmitEffect
    <2>2. QED
      BY <1>5, <1>6, <2>1

(* The handler of the call that waits takes the first response.            *)
LEMMA ResumeServed ==
    ASSUME JoinedInv, [Next]_vars, NEW c \in Calls, ResumeHandler(c),
           NEW g \in Sessions, NEW s \in Services, NEW r \in Nat, ServedUpTo(g, s, r),
           ~DeliverResponse(g)
    PROVE  \/ ServedUpTo(g, s, r)'
           \/ ServedUpTo(g, s, r + 1)' /\ r < Len(rounds[g]) /\ s \in ServicesOf(g)
  <1>1. OrderInv /\ OrphanInv /\ IInv
    BY DEF JoinedInv, OrderInv, OrphanInv
  <1>2. PICK q \in Sessions, t \in Services :
           /\ q = handler[c].on /\ t = handler[c].sender /\ handler[c].pc = "woken"
           /\ Stays(c) /\ \A d \in Calls \ {c} : handler'[d] = handler[d]
           /\ \A x \in Sessions, u \in Services :
                 ~(x = q /\ u = t) => responses'[x][u].items = responses[x][u].items
           /\ \/ Settled(c) /\ responses'[q][t].items = responses[q][t].items
              \/ /\ responses[q][t].items # <<>>
                 /\ handler'[c].pc = "answered"
                 /\ handler'[c].answer = Head(responses[q][t].items)
                 /\ responses'[q][t].items = Tail(responses[q][t].items)
    BY <1>1, ResumeEffect
  <1>3. UNCHANGED <<accepted, launch, loop, rounds>>
    BY DEF ResumeHandler
  <1>4. /\ \A k \in DOMAIN accepted[g][s] : accepted[g][s][k] \in Calls
        /\ \A k \in DOMAIN accepted[g][s] : JoinedAt(accepted[g][s][k], g, s)
        /\ DOMAIN accepted[g][s] = 1 .. Len(accepted[g][s])
        /\ Len(accepted[g][s]) \in {r, r + 1}
    BY <1>1, AcceptedType DEF JoinedInv, OrderSound, ServedUpTo
  <1>5. CASE ~(g = q /\ s = t)
    <2>1. \A k \in DOMAIN accepted[g][s] : accepted[g][s][k] # c
      BY <1>2, <1>4, <1>5 DEF JoinedAt
    <2>2. \A k \in DOMAIN accepted[g][s] : Settled(accepted[g][s][k])
      BY <1>2, <1>4, <2>1, SameSettled
    <2>3. QED
      BY <1>2, <1>3, <1>5, <2>2, ServedFrame
  <1>6. CASE g = q /\ s = t /\ Settled(c) /\ responses'[g][s].items = responses[g][s].items
    <2>1. \A k \in DOMAIN accepted[g][s] : Settled(accepted[g][s][k])
      BY <1>2, <1>4, <1>6, SameSettled
    <2>2. QED
      BY <1>3, <1>6, <2>1, ServedFrame
  <1>7. CASE /\ g = q /\ s = t /\ responses[g][s].items # <<>>
             /\ handler'[c].pc = "answered"
             /\ handler'[c].answer = Head(responses[g][s].items)
             /\ responses'[g][s].items = Tail(responses[g][s].items)
    <2>1. \E k \in DOMAIN accepted[g][s] : accepted[g][s][k] = c
      <3>1. Joined(c)
        BY <1>2 DEF Joined
      <3>2. PICK y \in Sessions, u \in Services : \E k \in DOMAIN accepted[y][u] :
               accepted[y][u][k] = c
        BY <3>1 DEF JoinedInv
      <3>3. y = g /\ u = s
        BY <1>2, <1>7, <3>2 DEF JoinedInv, OrderSound, JoinedAt
      <3>4. QED
        BY <3>2, <3>3
    <2>2. PICK k \in DOMAIN accepted[g][s] : accepted[g][s][k] = c
      BY <2>1
    <2>3. k = r + 1 /\ Len(accepted[g][s]) = r + 1
      <3>1. ~(k <= r)
        BY <1>2, <2>2 DEF ServedUpTo
      <3>2. QED
        BY <1>4, <3>1
    <2>4. PICK w \in Seq(Answer) : w = responses[g][s].items
      <3>1. responses[g][s] \in Queue(Answer, Calls)
        BY <1>1 DEF IInv, TypeOK
      <3>2. QED
        BY <3>1 DEF Queue
    <2>5. /\ Len(w) \in Nat \ {0} /\ DOMAIN w = 1 .. Len(w)
          /\ Head(w) = w[1] /\ Tail(w) \in Seq(Answer) /\ Len(Tail(w)) = Len(w) - 1
          /\ DOMAIN Tail(w) = 1 .. Len(w) - 1
          /\ \A i \in 1 .. Len(w) - 1 : Tail(w)[i] = w[i + 1]
      <3>1. Len(w) \in Nat \ {0} /\ DOMAIN w = 1 .. Len(w) /\ w # <<>>
        BY <1>7, <2>4, LenProperties, EmptySeq
      <3>2. /\ Head(w) = w[1] /\ Tail(w) \in Seq(Answer) /\ Len(Tail(w)) = Len(w) - 1
            /\ \A i \in 1 .. Len(Tail(w)) : Tail(w)[i] = w[i + 1]
        BY <3>1, HeadTailProperties
      <3>3. DOMAIN Tail(w) = 1 .. Len(w) - 1
        BY <3>2, LenProperties
      <3>4. QED
        BY <3>1, <3>2, <3>3
    <2>6. /\ \A i \in DOMAIN w : w[i] = [by |-> g, nth |-> r + i]
          /\ r + Len(w) <= Len(rounds[g])
          /\ Active(g) /\ s \in ServicesOf(g) => r + Len(w) = Delivered(g)
      BY <2>4 DEF ServedUpTo
    <2>7. handler'[c].answer = [by |-> g, nth |-> r + 1]
      <3>1. 1 \in DOMAIN w
        BY <2>5
      <3>2. QED
        BY <1>7, <2>4, <2>5, <2>6, <3>1
    <2>8. ASSUME NEW i \in DOMAIN accepted[g][s]
          PROVE  /\ i <= r + 1
                 /\ handler'[accepted[g][s][i]].pc = "answered"
                 /\ handler'[accepted[g][s][i]].answer = [by |-> g, nth |-> i]
      <3>1. i <= r + 1
        BY <1>4, <2>3
      <3>2. CASE i = k
        BY <1>7, <2>2, <2>3, <2>7, <3>1, <3>2
      <3>3. CASE i # k
        <4>1. accepted[g][s][i] \in Calls \ {c}
          BY <1>4, <2>2, <3>3 DEF JoinedInv, OrderSound, Distinct
        <4>2. i <= r
          BY <1>4, <2>3, <3>3
        <4>3. /\ handler[accepted[g][s][i]].pc = "answered"
              /\ handler[accepted[g][s][i]].answer = [by |-> g, nth |-> i]
          BY <4>2 DEF ServedUpTo
        <4>4. QED
          BY <1>2, <3>1, <4>1, <4>3
      <3>4. QED
        BY <3>2, <3>3
    <2>9. ASSUME NEW i \in DOMAIN Tail(w)
          PROVE  Tail(w)[i] = [by |-> g, nth |-> (r + 1) + i]
      <3>1. i + 1 \in DOMAIN w /\ Tail(w)[i] = w[i + 1] /\ r + (i + 1) = (r + 1) + i
        BY <2>5
      <3>2. w[i + 1] = [by |-> g, nth |-> r + (i + 1)]
        BY <2>6, <3>1
      <3>3. QED
        BY <3>1, <3>2
    <2>10. PICK m \in Nat : m = Len(rounds[g])
      BY <1>1, StoreType
    <2>11. (r + 1) + Len(Tail(w)) = r + Len(w) /\ r < m
      BY <2>5, <2>6, <2>10
    <2>12. /\ (Active(g)' <=> Active(g)) /\ ServicesOf(g)' = ServicesOf(g)
           /\ Delivered(g)' = Delivered(g)
      BY <1>3 DEF Active, ServicesOf, Delivered, Collecting
    <2>13. s \in ServicesOf(g)
      BY <2>1, AcceptedType DEF JoinedInv, OrderSound
    <2>14. ServedUpTo(g, s, r + 1)'
      <3>1. responses'[g][s].items = Tail(w)
        BY <1>7, <2>4
      <3>2. Len(accepted[g][s]) \in {r + 1, (r + 1) + 1}
        BY <2>3
      <3>3. r + Len(w) <= Len(rounds'[g])
        BY <1>3, <2>6
      <3>4. QED
        BY <1>3, <2>6, <2>8, <2>9, <2>11, <2>12, <3>1, <3>2, <3>3 DEF ServedUpTo
    <2>15. QED
      BY <2>10, <2>11, <2>13, <2>14
  <1>8. QED
    BY <1>2, <1>5, <1>6, <1>7

(* Whoever has one call under way at a time is answered in order: a step   *)
(* leaves the answers of s alone or adds the next one.                     *)
LEMMA NextServed ==
    ASSUME JoinedInv, [Next]_vars, NEW g \in Sessions, NEW s \in Services,
           \A c \in Calls, x \in Contents, h \in Hosts :
              Submit(c, g, s, x, h) => ~Outstanding(g, s),
           NEW r \in Nat, ServedUpTo(g, s, r)
    PROVE  \/ ServedUpTo(g, s, r)'
           \/ /\ ServedUpTo(g, s, r + 1)' /\ r < Len(rounds[g]) /\ s \in ServicesOf(g)
              /\ \E c \in Calls : ResumeHandler(c)
  <1>1. CASE DeliverResponse(g)
    BY <1>1, DeliverServed
  <1>2. CASE ~DeliverResponse(g)
    <2>1. ASSUME NEW c \in Calls, NEW y \in Sessions, NEW t \in Services,
                 NEW x \in Contents, NEW h \in Hosts, Submit(c, y, t, x, h)
          PROVE  ServedUpTo(g, s, r)'
      BY <1>2, <2>1, SubmitServed
    <2>2. ASSUME NEW c \in Calls, ResumeHandler(c)
          PROVE  \/ ServedUpTo(g, s, r)'
                 \/ ServedUpTo(g, s, r + 1)' /\ r < Len(rounds[g]) /\ s \in ServicesOf(g)
      BY <1>2, <2>2, ResumeServed
    <2>3. ASSUME NEW y \in Sessions, DeliverResponse(y)
          PROVE  ServedUpTo(g, s, r)'
      <3>1. OrderInv /\ OrphanInv /\ IInv /\ y # g
        BY <1>2, <2>3 DEF JoinedInv, OrderInv, OrphanInv
      <3>2. /\ \A c \in Calls : Settled(c)
            /\ responses'[g][s].items = responses[g][s].items
        BY <2>3, <3>1, DeliversToAll
      <3>3. \A k \in DOMAIN accepted[g][s] : Settled(accepted[g][s][k])
        BY <3>1, <3>2, AcceptedType
      <3>4. accepted'[g][s] = accepted[g][s]
        BY <2>3 DEF DeliverResponse
      <3>5. QED
        BY <1>2, <3>2, <3>3, <3>4, ServedFrame
    <2>4. ASSUME UNCHANGED <<handler, responses, accepted>>
          PROVE  ServedUpTo(g, s, r)'
      <3>1. OrderInv /\ IInv
        BY DEF JoinedInv, OrderInv, OrphanInv
      <3>2. \A k \in DOMAIN accepted[g][s] : Settled(accepted[g][s][k])
        BY <2>4, <3>1, AcceptedType, SameSettled
      <3>3. QED
        BY <1>2, <2>4, <3>2, ServedFrame
    <2>5. QED
      BY <2>1, <2>2, <2>3, <2>4, HandlerSteps
  <1>3. QED
    BY <1>1, <1>2

ServedInv == JoinedInv /\ \A g \in Sessions, s \in Services : Served(g, s)

LEMMA NextServedInv ==
    ASSUME Retry = FALSE, Parallel = FALSE, ServedInv, [Next]_vars
    PROVE  ServedInv'
  <1>1. JoinedInv /\ JoinedInv'
    BY NextJoined DEF ServedInv
  <1>2. ASSUME NEW g \in Sessions, NEW s \in Services
        PROVE  Served(g, s)'
    <2>1. PICK r \in Nat : ServedUpTo(g, s, r)
      BY DEF ServedInv, Served
    <2>2. \A c \in Calls, x \in Contents, h \in Hosts :
             Submit(c, g, s, x, h) => ~Outstanding(g, s)
      BY DEF Submit
    <2>3. ServedUpTo(g, s, r)' \/ ServedUpTo(g, s, r + 1)'
      BY <1>1, <2>1, <2>2, NextServed
    <2>4. r + 1 \in Nat
      OBVIOUS
    <2>5. QED
      BY <2>3, <2>4 DEF Served
  <1>3. QED
    BY <1>1, <1>2 DEF ServedInv

LEMMA InitServed == Init => \A g \in Sessions, s \in Services : ServedUpTo(g, s, 0)
  <1> SUFFICES ASSUME Init, NEW g \in Sessions, NEW s \in Services
               PROVE  ServedUpTo(g, s, 0)
    OBVIOUS
  <1>1. /\ accepted[g][s] = <<>> /\ responses[g][s].items = <<>> /\ rounds[g] = <<>>
        /\ loop[g].pc = "none" /\ Len(<<>>) = 0 /\ DOMAIN <<>> = {}
    BY EmptySeq DEF Init, EmptyQueue
  <1>2. ~Active(g)
    BY <1>1 DEF Active
  <1>3. QED
    BY <1>1, <1>2 DEF ServedUpTo

LEMMA InitServedInv == Init => ServedInv
  <1>1. 0 \in Nat
    OBVIOUS
  <1>2. QED
    BY <1>1, InitJoined, InitServed DEF ServedInv, Served

(* An answered call was in the round its answer tells of.                  *)
LEMMA AnswerIsOwn ==
    ASSUME JoinedInv, NEW c \in Calls, handler[c].pc = "answered",
           NEW g \in Sessions, NEW s \in Services, NEW k \in DOMAIN accepted[g][s],
           accepted[g][s][k] = c, Served(g, s)
    PROVE  /\ handler[c].answer = [by |-> g, nth |-> k]
           /\ k \in DOMAIN rounds[g]
           /\ \E i \in DOMAIN rounds[g][k].store : rounds[g][k].store[i] = c
  <1>1. OrderInv /\ IInv /\ RoundsSorted(g) /\ RoundsInStep(g)
    BY DEF JoinedInv, OrderInv, OrphanInv, SortedInv, SessionOrdered
  <1>2. PICK r \in Nat : ServedUpTo(g, s, r)
    BY DEF Served
  <1>3. k <= r /\ handler[c].answer = [by |-> g, nth |-> k]
    BY <1>2 DEF ServedUpTo
  <1>4. /\ Len(responses[g][s].items) \in Nat
        /\ Len(rounds[g]) \in Nat /\ DOMAIN rounds[g] = 1 .. Len(rounds[g])
        /\ Len(accepted[g][s]) \in Nat /\ DOMAIN accepted[g][s] = 1 .. Len(accepted[g][s])
    <2>1. responses[g][s] \in Queue(Answer, Calls)
      BY <1>1 DEF IInv, TypeOK
    <2>2. QED
      BY <1>1, <2>1, LenProperties, StoreType, AcceptedType DEF Queue
  <1>5. k \in DOMAIN rounds[g]
    <2>1. r + Len(responses[g][s].items) <= Len(rounds[g])
      BY <1>2 DEF ServedUpTo
    <2>2. k \in Nat \ {0}
      BY <1>4
    <2>3. QED
      BY <1>3, <1>4, <2>1, <2>2
  <1>6. s \in ServicesOf(g)
    BY <1>4 DEF JoinedInv, OrderSound
  <1>7. PICK i \in DOMAIN launch[g].services : launch[g].services[i] = s
    BY <1>6 DEF ServicesOf
  <1>8. rounds[g][k].store \in Seq(Calls) /\ RoundSound(g, rounds[g][k])
        /\ launch[g].services \in Seq(Services)
    BY <1>1, <1>5, RoundType, StoreType DEF RoundsSorted
  <1>9. i \in DOMAIN rounds[g][k].store
    BY <1>7, <1>8, LenProperties DEF RoundSound
  <1>10. rounds[g][k].store[i] = c
    BY <1>1, <1>5, <1>7, <1>9 DEF RoundsInStep
  <1>11. QED
    BY <1>3, <1>5, <1>9, <1>10

(* If no id is started twice and a variant makes a call only when all of   *)
(* its calls were answered, the response a handler returns is that of the  *)
(* round its own call was in (the wait for the response of proxy_handler). *)
THEOREM OwnRound ==
    ASSUME Retry = FALSE, Parallel = FALSE
    PROVE  Spec => []AnswersOwnRound
  <1>1. ServedInv /\ [Next]_vars => ServedInv'
    BY NextServedInv
  <1>2. ASSUME ServedInv PROVE AnswersOwnRound
    <2>1. ASSUME NEW c \in Calls, handler[c].pc = "answered"
          PROVE  \E i \in DOMAIN rounds[handler[c].answer.by][handler[c].answer.nth].store :
                    rounds[handler[c].answer.by][handler[c].answer.nth].store[i] = c
      <3>1. Joined(c)
        BY <2>1 DEF Joined
      <3>2. PICK g \in Sessions, s \in Services : \E k \in DOMAIN accepted[g][s] :
               accepted[g][s][k] = c
        BY <1>2, <3>1 DEF ServedInv, JoinedInv
      <3>3. PICK k \in DOMAIN accepted[g][s] : accepted[g][s][k] = c
        BY <3>2
      <3>4. /\ handler[c].answer = [by |-> g, nth |-> k]
            /\ \E i \in DOMAIN rounds[g][k].store : rounds[g][k].store[i] = c
        BY <1>2, <2>1, <3>3, AnswerIsOwn DEF ServedInv
      <3>5. handler[c].answer.by = g /\ handler[c].answer.nth = k
        BY <3>4
      <3>6. QED
        BY <3>4, <3>5
    <2>2. QED
      BY <2>1 DEF AnswersOwnRound
  <1>3. ServedInv => AnswersOwnRound
    BY <1>2
  <1>4. QED
    BY InitServedInv, <1>1, <1>3, PTL DEF Spec

-----------------------------------------------------------------------------
(* The egress proxy implements UnanimityGate.                              *)

Extends(u, v, e) ==
    /\ v = [i \in 1 .. Len(u) + 1 |-> v[i]]
    /\ \A i \in 1 .. Len(u) : v[i] = u[i]
    /\ v[Len(u) + 1] = e

LEMMA SeqGrows ==
    ASSUME NEW T, NEW u \in Seq(T), NEW e \in T, NEW v, Extends(u, v, e)
    PROVE  v = Append(u, e)
  <1>1. /\ Append(u, e) = [i \in 1 .. Len(u) + 1 |-> Append(u, e)[i]]
        /\ \A i \in 1 .. Len(u) : Append(u, e)[i] = u[i]
        /\ Append(u, e)[Len(u) + 1] = e
    <2>1. Append(u, e) \in Seq(T) /\ DOMAIN Append(u, e) = 1 .. Len(u) + 1
      BY AppendKeeps
    <2>2. Append(u, e) \in [1 .. Len(Append(u, e)) -> T]
      BY <2>1, LenProperties
    <2>3. Append(u, e) = [i \in DOMAIN Append(u, e) |-> Append(u, e)[i]]
      BY <2>2
    <2>4. QED
      BY <2>1, <2>3, AppendKeeps
  <1>2. \A i \in 1 .. Len(u) + 1 : v[i] = Append(u, e)[i]
    <2>1. Len(u) \in Nat
      BY LenProperties
    <2>2. \A i \in 1 .. Len(u) + 1 : i \in 1 .. Len(u) \/ i = Len(u) + 1
      BY <2>1
    <2>3. QED
      BY <1>1, <2>2 DEF Extends
  <1>3. v = [i \in 1 .. Len(u) + 1 |-> v[i]]
    BY DEF Extends
  <1>4. QED
    BY <1>1, <1>2, <1>3

LEMMA UpTo == ASSUME NEW r \in Nat PROVE Cardinality(1 .. r) = r
  <1>1. 1 \in Int /\ r \in Int /\ (r = 0 \/ ~(1 > r)) /\ r - 1 + 1 = r
    OBVIOUS
  <1>2. Cardinality(1 .. r) = IF 1 > r THEN 0 ELSE r - 1 + 1
    BY <1>1, FS_Interval
  <1>3. QED
    BY <1>1, <1>2

(* A variant was told the decisions on its first r calls, in order.        *)
LEMMA ToldUpTo ==
    ASSUME IInv, NEW g \in Sessions, NEW s \in Services, NEW r \in Nat, ServedUpTo(g, s, r)
    PROVE  GateTold[g][s] = [i \in 1 .. r |-> i]
  <1>1. PICK n \in {r, r + 1} : n = Len(accepted[g][s])
    BY DEF ServedUpTo
  <1>2. DOMAIN accepted[g][s] = 1 .. n
    BY <1>1, AcceptedType
  <1>3. \A k \in 1 .. n :
           IF k <= r THEN /\ handler[accepted[g][s][k]].pc = "answered"
                          /\ handler[accepted[g][s][k]].answer = [by |-> g, nth |-> k]
           ELSE handler[accepted[g][s][k]].pc # "answered"
    BY <1>2 DEF ServedUpTo
  <1>4. /\ \A i \in 1 .. r : i \in 1 .. n /\ i <= r
        /\ \A i \in 1 .. n : ~(i \in 1 .. r) => ~(i <= r)
    OBVIOUS
  <1>5. Answered(g, s) = 1 .. r
    BY <1>2, <1>3, <1>4 DEF Answered
  <1>6. GateTold[g][s] = [i \in 1 .. r |-> handler[accepted[g][s][i]].answer.nth]
    BY <1>5, UpTo DEF GateTold
  <1>7. ASSUME NEW i \in 1 .. r PROVE handler[accepted[g][s][i]].answer.nth = i
    <2>1. handler[accepted[g][s][i]].answer = [by |-> g, nth |-> i]
      BY <1>3, <1>4
    <2>2. QED
      BY <2>1
  <1>8. QED
    BY <1>6, <1>7

LEMMA ToldUpToNext ==
    ASSUME IInv', NEW g \in Sessions, NEW s \in Services, NEW r \in Nat, ServedUpTo(g, s, r)'
    PROVE  GateTold'[g][s] = [i \in 1 .. r |-> i]
  <1>1. PICK n \in {r, r + 1} : n = Len(accepted'[g][s])
    BY DEF ServedUpTo
  <1>2. DOMAIN accepted'[g][s] = 1 .. n
    <2>1. accepted'[g][s] \in Seq(Calls)
      BY DEF IInv, TypeOK
    <2>2. QED
      BY <1>1, <2>1, LenProperties
  <1>3. \A k \in 1 .. n :
           IF k <= r THEN /\ handler'[accepted'[g][s][k]].pc = "answered"
                          /\ handler'[accepted'[g][s][k]].answer = [by |-> g, nth |-> k]
           ELSE handler'[accepted'[g][s][k]].pc # "answered"
    BY <1>2 DEF ServedUpTo
  <1>4. /\ \A i \in 1 .. r : i \in 1 .. n /\ i <= r
        /\ \A i \in 1 .. n : ~(i \in 1 .. r) => ~(i <= r)
    OBVIOUS
  <1>5. Answered(g, s)' = 1 .. r
    BY <1>2, <1>3, <1>4 DEF Answered
  <1>6. GateTold'[g][s] = [i \in 1 .. r |-> handler'[accepted'[g][s][i]].answer.nth]
    BY <1>5, UpTo DEF GateTold
  <1>7. ASSUME NEW i \in 1 .. r PROVE handler'[accepted'[g][s][i]].answer.nth = i
    <2>1. handler'[accepted'[g][s][i]].answer = [by |-> g, nth |-> i]
      BY <1>3, <1>4
    <2>2. QED
      BY <2>1
  <1>8. QED
    BY <1>6, <1>7

LEMMA AskedSame ==
    ASSUME NEW g \in Sessions, NEW s \in Services, accepted'[g][s] = accepted[g][s],
           \A k \in DOMAIN accepted[g][s] :
              handler'[accepted[g][s][k]].content = handler[accepted[g][s][k]].content
    PROVE  GateAsked'[g][s] = GateAsked[g][s]
  BY DEF GateAsked

LEMMA ToldSame ==
    ASSUME IInv, NEW g \in Sessions, NEW s \in Services, NEW r \in Nat, ServedUpTo(g, s, r),
           accepted'[g][s] = accepted[g][s],
           \A k \in DOMAIN accepted[g][s] : Settled(accepted[g][s][k])
    PROVE  GateTold'[g][s] = GateTold[g][s]
  <1>1. Answered(g, s)' = Answered(g, s)
    <2>1. \A k \in DOMAIN accepted[g][s] :
             handler'[accepted[g][s][k]].pc = "answered" <=>
                handler[accepted[g][s][k]].pc = "answered"
      BY DEF Settled, Stays
    <2>2. QED
      BY <2>1 DEF Answered
  <1>2. Answered(g, s) = 1 .. r
    <2>1. PICK n \in {r, r + 1} : n = Len(accepted[g][s])
      BY DEF ServedUpTo
    <2>2. DOMAIN accepted[g][s] = 1 .. n
      BY <2>1, AcceptedType
    <2>3. /\ \A i \in 1 .. r : i \in 1 .. n /\ i <= r
          /\ \A i \in 1 .. n : ~(i \in 1 .. r) => ~(i <= r)
      OBVIOUS
    <2>4. \A i \in 1 .. n : handler[accepted[g][s][i]].pc = "answered" <=> i <= r
      BY <2>2 DEF ServedUpTo
    <2>5. QED
      BY <2>2, <2>3, <2>4 DEF Answered
  <1>3. \A i \in 1 .. r : handler'[accepted'[g][s][i]] = handler[accepted[g][s][i]]
    BY <1>2 DEF Answered, Settled, Stays
  <1>4. /\ GateTold[g][s] = [i \in 1 .. r |-> handler[accepted[g][s][i]].answer.nth]
        /\ GateTold'[g][s] = [i \in 1 .. r |-> handler'[accepted'[g][s][i]].answer.nth]
    BY <1>1, <1>2, UpTo DEF GateTold
  <1>5. QED
    BY <1>3, <1>4

(* A table of which at most one entry changes.                             *)
IsTable(f) == f = [y \in Sessions |-> [t \in Services |-> f[y][t]]]

SameElsewhere(f, h, g, s) ==
    \A y \in Sessions, t \in Services : ~(y = g /\ t = s) => h[y][t] = f[y][t]

LEMMA TableStep ==
    ASSUME NEW f, IsTable(f), NEW h, IsTable(h), NEW g \in Sessions, NEW s \in Services,
           SameElsewhere(f, h, g, s)
    PROVE  /\ h = [f EXCEPT ![g][s] = h[g][s]]
           /\ h[g][s] = f[g][s] => h = f
  <1>0. /\ f = [y \in Sessions |-> [t \in Services |-> f[y][t]]]
        /\ h = [y \in Sessions |-> [t \in Services |-> h[y][t]]]
        /\ \A y \in Sessions, t \in Services : ~(y = g /\ t = s) => h[y][t] = f[y][t]
    BY DEF IsTable, SameElsewhere
  <1>1. DOMAIN f = Sessions /\ \A y \in Sessions : DOMAIN f[y] = Services
    BY <1>0
  <1>2. DOMAIN h = Sessions /\ \A y \in Sessions : DOMAIN h[y] = Services
    BY <1>0
  <1>3. h[g][s] = f[g][s] => h = f
    BY <1>0
  <1>4. h = [f EXCEPT ![g][s] = h[g][s]]
    <2>1. PICK v : v = h[g][s]
      OBVIOUS
    <2>2. PICK row : row = f[g]
      OBVIOUS
    <2>3. /\ row = [t \in Services |-> row[t]] /\ h[g] = [t \in Services |-> h[g][t]]
          /\ \A t \in Services : t # s => h[g][t] = row[t]
      BY <1>0, <2>2
    <2>4. [row EXCEPT ![s] = v] = h[g]
      BY <2>1, <2>3
    <2>5. h = [f EXCEPT ![g] = h[g]]
      <3>1. ASSUME NEW y \in Sessions, y # g PROVE h[y] = f[y]
        <4>1. \A t \in Services : h[y][t] = f[y][t]
          BY <1>0, <3>1
        <4>2. QED
          BY <1>0, <4>1
      <3>2. f = [y \in Sessions |-> f[y]] /\ h = [y \in Sessions |-> h[y]]
        BY <1>0
      <3>3. QED
        BY <3>1, <3>2
    <2>6. [f EXCEPT ![g][s] = v] = [f EXCEPT ![g] = [row EXCEPT ![s] = v]]
      BY <2>2
    <2>7. QED
      BY <2>1, <2>4, <2>5, <2>6
  <1>5. QED
    BY <1>3, <1>4

LEMMA GateTables ==
    /\ GateAsked = [y \in Sessions |-> [t \in Services |-> GateAsked[y][t]]]
    /\ GateTold = [y \in Sessions |-> [t \in Services |-> GateTold[y][t]]]
    /\ GateAsked' = [y \in Sessions |-> [t \in Services |-> GateAsked'[y][t]]]
    /\ GateTold' = [y \in Sessions |-> [t \in Services |-> GateTold'[y][t]]]
  BY DEF GateAsked, GateTold

GateStep == [Gate!GateNext]_(Gate!gateVars)

(* A new session opens the gate to its services.                           *)
LEMMA StartOpens ==
    ASSUME IInv, IInv', NEW r \in Ids, NEW l \in ServiceLists, Start(r, l)
    PROVE  GateStep
  <1>1. PICK g \in Sessions :
           /\ loop[g].pc = "none"
           /\ launch' = [launch EXCEPT ![g] = [id |-> r, services |-> l]]
    BY DEF Start
  <1>2. launch \in [Sessions -> [id : Ids \cup {None}, services : Seq(Services)]]
    BY DEF IInv, TypeOK
  <1>3. UNCHANGED <<GateAsked, GateDecided, GateTold>>
    BY DEF Start, GateAsked, GateDecided, GateTold, Answered
  <1>4. PICK S : S = {l[i] : i \in DOMAIN l}
    OBVIOUS
  <1>5. S \in SUBSET Services /\ S # {}
    <2>1. Len(l) \in Nat \ {0} /\ DOMAIN l = 1 .. Len(l) /\ \A i \in 1 .. Len(l) : l[i] \in Services
      BY ListType
    <2>2. 1 \in DOMAIN l
      BY <2>1
    <2>3. QED
      BY <1>4, <2>1, <2>2
  <1>6. GateMembers[g] = {}
    <2>1. launch[g].services = <<>>
      BY <1>1 DEF IInv, LaunchInv
    <2>2. QED
      BY <2>1, EmptySeq DEF GateMembers, ServicesOf
  <1>7. GateMembers' = [GateMembers EXCEPT ![g] = S]
    <2>1. launch'[g].services = l /\ \A y \in Sessions \ {g} : launch'[y] = launch[y]
      BY <1>1, <1>2
    <2>2. ServicesOf(g)' = S /\ \A y \in Sessions \ {g} : ServicesOf(y)' = ServicesOf(y)
      BY <1>4, <2>1 DEF ServicesOf
    <2>3. QED
      BY <2>2 DEF GateMembers
  <1>8. Gate!Open(g, S)
    BY <1>3, <1>5, <1>6, <1>7 DEF Gate!Open
  <1>9. QED
    BY <1>5, <1>8 DEF GateStep, Gate!GateNext

LEMMA ToldKept ==
    ASSUME IInv, IInv', NEW g \in Sessions, NEW s \in Services, NEW r \in Nat,
           ServedUpTo(g, s, r), ServedUpTo(g, s, r)'
    PROVE  GateTold'[g][s] = GateTold[g][s]
  <1>1. GateTold[g][s] = [i \in 1 .. r |-> i]
    BY ToldUpTo
  <1>2. GateTold'[g][s] = [i \in 1 .. r |-> i]
    BY ToldUpToNext
  <1>3. QED
    BY <1>1, <1>2

(* Without a handler that takes a response, nobody is told anything.       *)
LEMMA ToldByHandlers ==
    ASSUME Parallel = FALSE, ServedInv, IInv', [Next]_vars,
           \A c \in Calls : ~ResumeHandler(c)
    PROVE  UNCHANGED GateTold
  <1>1. JoinedInv /\ IInv
    BY DEF ServedInv, JoinedInv, OrderInv, OrphanInv
  <1>2. ASSUME NEW g \in Sessions, NEW s \in Services
        PROVE  GateTold'[g][s] = GateTold[g][s]
    <2>1. PICK r \in Nat : ServedUpTo(g, s, r)
      BY DEF ServedInv, Served
    <2>2. \A c \in Calls, x \in Contents, h \in Hosts :
             Submit(c, g, s, x, h) => ~Outstanding(g, s)
      BY DEF Submit
    <2>3. ServedUpTo(g, s, r)'
      BY <1>1, <2>1, <2>2, NextServed
    <2>4. QED
      BY <1>1, <2>1, <2>3, ToldKept
  <1>3. PICK f : f = GateTold
    OBVIOUS
  <1>4. PICK h : h = GateTold'
    OBVIOUS
  <1>5. /\ f = [y \in Sessions |-> [t \in Services |-> f[y][t]]]
        /\ h = [y \in Sessions |-> [t \in Services |-> h[y][t]]]
    BY <1>3, <1>4, GateTables
  <1>6. \A y \in Sessions, t \in Services : h[y][t] = f[y][t]
    BY <1>2, <1>3, <1>4
  <1>7. h = f
    BY <1>5, <1>6
  <1>8. QED
    BY <1>3, <1>4, <1>7

(* A step that only answers calls leaves what was asked as it is.          *)
LEMMA AskedKept ==
    ASSUME UNCHANGED accepted,
           \A g \in Sessions, s \in Services : \A k \in DOMAIN accepted[g][s] :
              handler'[accepted[g][s][k]].content = handler[accepted[g][s][k]].content
    PROVE  UNCHANGED GateAsked
  <1>1. PICK f : f = GateAsked
    OBVIOUS
  <1>2. PICK h : h = GateAsked'
    OBVIOUS
  <1>3. /\ f = [y \in Sessions |-> [t \in Services |-> f[y][t]]]
        /\ h = [y \in Sessions |-> [t \in Services |-> h[y][t]]]
    BY <1>1, <1>2, GateTables
  <1>4. \A y \in Sessions, t \in Services : h[y][t] = f[y][t]
    BY <1>1, <1>2, AskedSame
  <1>5. h = f
    BY <1>3, <1>4
  <1>6. QED
    BY <1>1, <1>2, <1>5

(* A call that joins the queue of its variant is asked of the gate; a call *)
(* without a queue is not.                                                 *)
LEMMA SubmitAsks ==
    ASSUME Parallel = FALSE, ServedInv, IInv', [Next]_vars, NEW c \in Calls,
           NEW g \in Sessions, NEW s \in Services, NEW x \in Contents, NEW h \in Hosts,
           Submit(c, g, s, x, h), UNCHANGED GateTold
    PROVE  GateStep
  <1>1. JoinedInv /\ OrphanInv /\ IInv
    BY DEF ServedInv, JoinedInv, OrderInv, OrphanInv
  <1>2. /\ ~Joined(c) /\ \A d \in Calls \ {c} : handler'[d] = handler[d]
        /\ s \in ServicesOf(g) /\ UNCHANGED <<launch, rounds>> /\ handler'[c].content = x
    BY <1>1, SubmitEffect, SubmitOwn
  <1>3. UNCHANGED <<GateMembers, GateDecided>>
    BY <1>2 DEF GateMembers, GateDecided, ServicesOf
  <1>4. \A y \in Sessions, t \in Services : \A k \in DOMAIN accepted[y][t] :
           /\ accepted[y][t][k] \in Calls \ {c}
           /\ handler'[accepted[y][t][k]].content = handler[accepted[y][t][k]].content
    BY <1>1, <1>2, AcceptedType DEF JoinedInv, OrderSound, JoinedAt
  <1>5. CASE UNCHANGED accepted
    <2>1. UNCHANGED GateAsked
      BY <1>4, <1>5, AskedKept
    <2>2. QED
      BY <1>3, <2>1 DEF GateStep, Gate!gateVars
  <1>6. CASE /\ accepted'[g][s] = Append(accepted[g][s], c)
             /\ \A y \in Sessions, t \in Services : ~(y = g /\ t = s) =>
                   accepted'[y][t] = accepted[y][t]
    <2>1. PICK u : u = GateAsked[g][s]
      OBVIOUS
    <2>2. PICK v : v = GateAsked'[g][s]
      OBVIOUS
    <2>3. accepted[g][s] \in Seq(Calls) /\ Len(accepted[g][s]) \in Nat
          /\ DOMAIN accepted[g][s] = 1 .. Len(accepted[g][s])
      BY <1>1, AcceptedType
    <2>4. /\ DOMAIN accepted'[g][s] = 1 .. Len(accepted[g][s]) + 1
          /\ \A k \in DOMAIN accepted[g][s] : accepted'[g][s][k] = accepted[g][s][k]
          /\ accepted'[g][s][Len(accepted[g][s]) + 1] = c
      BY <1>6, <2>3, AppendKeeps
    <2>5. PICK n \in Nat : n = Len(accepted[g][s])
      BY <2>3
    <2>6. u = [i \in 1 .. n |-> handler[accepted[g][s][i]].content]
      BY <2>1, <2>3, <2>5 DEF GateAsked
    <2>7. v = [i \in 1 .. n + 1 |-> handler'[accepted'[g][s][i]].content]
      BY <2>2, <2>4, <2>5 DEF GateAsked
    <2>8. u \in Seq(Contents \cup {None}) /\ Len(u) = n
      <3>1. \A i \in 1 .. n : handler[accepted[g][s][i]].content \in Contents \cup {None}
        <4>1. \A d \in Calls : handler[d] \in Handler
          BY <1>1 DEF IInv, TypeOK
        <4>2. \A d \in Calls : handler[d].content \in Contents \cup {None}
          BY <4>1 DEF Handler
        <4>3. QED
          BY <1>4, <2>3, <2>5, <4>2
      <3>2. u \in [1 .. n -> Contents \cup {None}]
        BY <2>6, <3>1
      <3>3. QED
        BY <3>2, SeqDef, LenProperties
    <2>9. v = Append(u, x)
      <3>1. \A i \in 1 .. n : v[i] = u[i]
        <4>1. \A i \in 1 .. n : i \in 1 .. n + 1
          OBVIOUS
        <4>2. QED
          <5>1. ASSUME NEW i \in 1 .. n PROVE v[i] = u[i]
            <6>1. v[i] = handler'[accepted'[g][s][i]].content
              BY <2>7, <4>1
            <6>2. u[i] = handler[accepted[g][s][i]].content
              BY <2>6
            <6>3. i \in DOMAIN accepted[g][s]
              BY <2>3, <2>5
            <6>4. accepted'[g][s][i] = accepted[g][s][i]
              BY <2>4, <6>3
            <6>5. handler'[accepted[g][s][i]].content = handler[accepted[g][s][i]].content
              BY <1>4, <6>3
            <6>6. QED
              BY <6>1, <6>2, <6>4, <6>5
          <5>2. QED
            BY <5>1
      <3>2. v[n + 1] = x
        <4>1. n + 1 \in 1 .. n + 1
          OBVIOUS
        <4>2. QED
          BY <1>2, <2>4, <2>5, <2>7, <4>1
      <3>3. v = [i \in 1 .. Len(u) + 1 |-> v[i]]
        BY <2>7, <2>8
      <3>4. x \in Contents \cup {None}
        OBVIOUS
      <3>5. QED
        <4>1. Extends(u, v, x)
          BY <2>8, <3>1, <3>2, <3>3 DEF Extends
        <4>2. QED
          BY <2>8, <3>4, <4>1, SeqGrows
    <2>10. GateAsked' = [GateAsked EXCEPT ![g][s] = Append(GateAsked[g][s], x)]
      <3>1. PICK a : a = GateAsked
        OBVIOUS
      <3>2. PICK b : b = GateAsked'
        OBVIOUS
      <3>3. /\ a = [y \in Sessions |-> [t \in Services |-> a[y][t]]]
            /\ b = [y \in Sessions |-> [t \in Services |-> b[y][t]]]
        BY <3>1, <3>2, GateTables
      <3>4. ASSUME NEW y \in Sessions, NEW t \in Services, ~(y = g /\ t = s)
            PROVE  b[y][t] = a[y][t]
        <4>1. accepted'[y][t] = accepted[y][t]
          BY <1>6, <3>4
        <4>2. QED
          BY <1>4, <3>1, <3>2, <4>1, AskedSame
      <3>5. b = [a EXCEPT ![g][s] = b[g][s]]
        <4>1. IsTable(a) /\ IsTable(b) /\ SameElsewhere(a, b, g, s)
          BY <3>3, <3>4 DEF IsTable, SameElsewhere
        <4>2. QED
          BY <4>1, TableStep
      <3>6. b[g][s] = Append(a[g][s], x)
        BY <2>1, <2>2, <2>9, <3>1, <3>2
      <3>7. QED
        BY <3>1, <3>2, <3>5, <3>6
    <2>11. s \in GateMembers[g]
      BY <1>2 DEF GateMembers
    <2>12. Gate!Ask(g, s, x)
      BY <1>3, <2>10, <2>11 DEF Gate!Ask
    <2>13. QED
      BY <2>12 DEF GateStep, Gate!GateNext
  <1>7. QED
    <2>1. \/ UNCHANGED accepted
          \/ /\ accepted'[g][s] = Append(accepted[g][s], c)
             /\ \A y \in Sessions, t \in Services : ~(y = g /\ t = s) =>
                   accepted'[y][t] = accepted[y][t]
      BY <1>1, SubmitEffect
    <2>2. QED
      BY <1>5, <1>6, <2>1

(* The handler that takes a response tells its variant the decision on the *)
(* first of its calls that was not answered yet, and nobody else anything. *)
LEMMA ResumeTells ==
    ASSUME Parallel = FALSE, ServedInv, IInv', [Next]_vars, NEW c \in Calls, ResumeHandler(c)
    PROVE  GateStep
  <1>1. JoinedInv /\ OrderInv /\ IInv
    BY DEF ServedInv, JoinedInv, OrderInv, OrphanInv
  <1>2. UNCHANGED <<launch, accepted, rounds>>
    BY DEF ResumeHandler
  <1>3. PICK q \in Sessions, s \in Services :
           /\ q = handler[c].on /\ s = handler[c].sender /\ handler[c].pc = "woken"
           /\ Stays(c) /\ \A d \in Calls \ {c} : handler'[d] = handler[d]
    BY <1>1, ResumeEffect
  <1>4. \A d \in Calls : Stays(d)
    BY <1>3, SameSettled DEF Settled
  <1>5. UNCHANGED <<GateMembers, GateDecided>>
    BY <1>2 DEF GateMembers, GateDecided, ServicesOf
  <1>6. UNCHANGED GateAsked
    <2>1. \A y \in Sessions, t \in Services : \A k \in DOMAIN accepted[y][t] :
             handler'[accepted[y][t][k]].content = handler[accepted[y][t][k]].content
      BY <1>1, <1>4, AcceptedType DEF Stays
    <2>2. QED
      BY <1>2, <2>1, AskedKept
  <1>7. PICK f : f = GateTold
    OBVIOUS
  <1>8. PICK h : h = GateTold'
    OBVIOUS
  <1>9. IsTable(f) /\ IsTable(h)
    BY <1>7, <1>8, GateTables DEF IsTable
  <1>10. SameElsewhere(f, h, q, s)
    <2>1. ASSUME NEW y \in Sessions, NEW t \in Services, ~(y = q /\ t = s)
          PROVE  h[y][t] = f[y][t]
      <3>1. \A k \in DOMAIN accepted[y][t] :
               accepted[y][t][k] \in Calls /\ JoinedAt(accepted[y][t][k], y, t)
        BY <1>1, AcceptedType DEF JoinedInv, OrderSound
      <3>2. \A k \in DOMAIN accepted[y][t] : accepted[y][t][k] \in Calls \ {c}
        BY <1>3, <2>1, <3>1 DEF JoinedAt
      <3>3. \A k \in DOMAIN accepted[y][t] : Settled(accepted[y][t][k])
        BY <1>3, <3>2, SameSettled
      <3>4. PICK r \in Nat : ServedUpTo(y, t, r)
        BY DEF ServedInv, Served
      <3>5. accepted'[y][t] = accepted[y][t]
        BY <1>2
      <3>6. GateTold'[y][t] = GateTold[y][t]
        BY <1>1, <3>3, <3>4, <3>5, ToldSame
      <3>7. QED
        BY <1>7, <1>8, <3>6
    <2>2. QED
      BY <2>1 DEF SameElsewhere
  <1>11. h = [f EXCEPT ![q][s] = h[q][s]] /\ (h[q][s] = f[q][s] => h = f)
    BY <1>9, <1>10, TableStep
  <1>12. PICK r \in Nat : ServedUpTo(q, s, r)
    BY DEF ServedInv, Served
  <1>13. \/ ServedUpTo(q, s, r)'
         \/ ServedUpTo(q, s, r + 1)' /\ r < Len(rounds[q]) /\ s \in ServicesOf(q)
    <2>1. \A d \in Calls, x \in Contents, k \in Hosts :
             Submit(d, q, s, x, k) => ~Outstanding(q, s)
      BY DEF Submit
    <2>2. QED
      BY <1>1, <1>12, <2>1, NextServed
  <1>14. CASE ServedUpTo(q, s, r)'
    <2>1. GateTold'[q][s] = GateTold[q][s]
      BY <1>1, <1>12, <1>14, ToldKept
    <2>2. h = f
      BY <1>7, <1>8, <1>11, <2>1
    <2>3. UNCHANGED GateTold
      BY <1>7, <1>8, <2>2
    <2>4. QED
      BY <1>5, <1>6, <2>3 DEF GateStep, Gate!gateVars
  <1>15. CASE ServedUpTo(q, s, r + 1)' /\ r < Len(rounds[q]) /\ s \in ServicesOf(q)
    <2>1. f[q][s] = [i \in 1 .. r |-> i]
      BY <1>1, <1>7, <1>12, ToldUpTo
    <2>2. h[q][s] = [i \in 1 .. r + 1 |-> i]
      <3>1. r + 1 \in Nat
        OBVIOUS
      <3>2. GateTold'[q][s] = [i \in 1 .. r + 1 |-> i]
        BY <1>15, <3>1, ToldUpToNext
      <3>3. QED
        BY <1>8, <3>2
    <2>3. f[q][s] \in Seq(Nat) /\ Len(f[q][s]) = r
      <3>1. f[q][s] \in [1 .. r -> Nat]
        BY <2>1
      <3>2. QED
        BY <3>1, SeqDef, LenProperties
    <2>4. Extends(f[q][s], h[q][s], r + 1)
      <3>1. /\ \A i \in 1 .. r : i \in 1 .. r + 1
            /\ r + 1 \in 1 .. r + 1
        OBVIOUS
      <3>2. QED
        BY <2>1, <2>2, <2>3, <3>1 DEF Extends
    <2>5. h[q][s] = Append(f[q][s], Len(f[q][s]) + 1)
      <3>1. r + 1 \in Nat
        OBVIOUS
      <3>2. h[q][s] = Append(f[q][s], r + 1)
        BY <2>3, <2>4, <3>1, SeqGrows
      <3>3. QED
        BY <2>3, <3>2
    <2>6. Len(GateTold[q][s]) < Len(GateDecided[q])
      <3>1. rounds[q] \in Seq(Round)
        BY <1>1 DEF IInv, TypeOK
      <3>2. DOMAIN rounds[q] = 1 .. Len(rounds[q]) /\ Len(rounds[q]) \in Nat
        BY <3>1, LenProperties
      <3>3. PICK m \in Nat : m = Len(rounds[q])
        BY <3>2
      <3>4. GateDecided[q] = [n \in 1 .. m |-> rounds[q][n].forwarded]
        BY <3>2, <3>3 DEF GateDecided
      <3>5. Len(GateDecided[q]) = m
        BY <3>4
      <3>6. QED
        BY <1>7, <1>15, <2>3, <3>3, <3>5
    <2>7. Gate!Tell(q, s)
      <3>1. GateTold' = [GateTold EXCEPT ![q][s] = Append(GateTold[q][s], Len(GateTold[q][s]) + 1)]
        BY <1>7, <1>8, <1>11, <2>5
      <3>2. s \in GateMembers[q]
        BY <1>15 DEF GateMembers
      <3>3. QED
        BY <1>5, <1>6, <2>6, <3>1, <3>2 DEF Gate!Tell
    <2>8. QED
      BY <2>7 DEF GateStep, Gate!GateNext
  <1>16. QED
    BY <1>13, <1>14, <1>15

(* A loop that completes a round decides on the next call of each of its   *)
(* services, and approves exactly if they are the same.                    *)
LEMMA CollectDecides ==
    ASSUME JoinedInv, OrderInv', UNCHANGED <<launch, accepted>>, UNCHANGED GateTold,
           \A c \in Calls : handler'[c].content = handler[c].content,
           NEW g \in Sessions, loop[g].pc # "none",
           \A k \in Sessions \ {g} : rounds'[k] = rounds[k],
           NEW store, NEW n \in Nat, CollectsOwn(g, store, n)
    PROVE  GateStep
  <1>1. IInv /\ IInv'
    BY DEF JoinedInv, OrderInv, OrphanInv
  <1>2. UNCHANGED GateMembers
    BY DEF GateMembers, ServicesOf
  <1>3. UNCHANGED GateAsked
    <2>1. \A y \in Sessions, t \in Services : \A k \in DOMAIN accepted[y][t] :
             handler'[accepted[y][t][k]].content = handler[accepted[y][t][k]].content
      BY <1>1, AcceptedType
    <2>2. QED
      BY <2>1, AskedKept
  <1>4. rounds \in [Sessions -> Seq(Round)] /\ rounds' \in [Sessions -> Seq(Round)]
    BY <1>1 DEF IInv, TypeOK
  <1>5. CASE rounds'[g] = rounds[g]
    <2>1. rounds' = rounds
      BY <1>4, <1>5
    <2>2. UNCHANGED GateDecided
      BY <2>1 DEF GateDecided
    <2>3. QED
      BY <1>2, <1>3, <2>2 DEF GateStep, Gate!gateVars
  <1>6. CASE /\ n = Len(launch[g].services) + 1
             /\ rounds'[g] = Append(rounds[g],
                   [store |-> loop'[g].store, forwarded |-> Unanimous(loop'[g].store)])
    <2> DEFINE S == loop'[g].store
    <2>1. /\ S \in Seq(Calls) /\ Len(S) = Len(launch[g].services) /\ DOMAIN S = 1 .. Len(S)
          /\ \A i \in DOMAIN S : S[i] \in Calls
          /\ Len(S) \in Nat \ {0} /\ DOMAIN launch[g].services = 1 .. Len(S)
      <3>1. loop'[g] \in Loop
        BY <1>1 DEF IInv, TypeOK
      <3>2. S \in Seq(Calls)
        BY <3>1 DEF Loop
      <3>3. Len(launch[g].services) \in Nat \ {0}
            /\ DOMAIN launch[g].services = 1 .. Len(launch[g].services)
        BY <1>1, ServicesType
      <3>4. Len(S) = n - 1
        BY DEF CollectsOwn
      <3>5. Len(S) = Len(launch[g].services)
        BY <1>6, <3>3, <3>4
      <3>6. QED
        BY <3>2, <3>3, <3>5, LenProperties, ElementOfSeq
    <2>2. PICK m \in Nat : m = Len(rounds[g])
      BY <1>4, LenProperties
    <2>3. PICK v \in BOOLEAN : v = Unanimous(S)
      BY DEF Unanimous
    <2>4. rounds'[g] = Append(rounds[g], [store |-> S, forwarded |-> v])
      BY <1>6, <2>3
    <2>5. [store |-> S, forwarded |-> v] \in Round
      BY <2>1 DEF Round
    <2>6. /\ DOMAIN rounds[g] = 1 .. m /\ DOMAIN rounds'[g] = 1 .. m + 1
          /\ \A k \in 1 .. m : rounds'[g][k] = rounds[g][k]
          /\ rounds'[g][m + 1] = [store |-> S, forwarded |-> v]
      <3>1. rounds[g] \in Seq(Round)
        BY <1>4
      <3> HIDE DEF S
      <3>2. QED
        BY <2>2, <2>4, <2>5, <3>1, AppendKeeps, LenProperties
    <2>7. rounds'[g][m + 1].store = S /\ rounds'[g][m + 1].forwarded = v
      BY <2>6
    <2>8. \A i \in 1 .. Len(S) : /\ m + 1 \in DOMAIN accepted[g][launch[g].services[i]]
                                 /\ S[i] = accepted[g][launch[g].services[i]][m + 1]
      <3>1. RoundsInStep(g)'
        BY DEF OrderInv, SessionOrdered
      <3>2. m + 1 \in DOMAIN rounds'[g]
        BY <2>6
      <3>3. QED
        BY <2>1, <2>7, <3>1, <3>2 DEF RoundsInStep
    <2> HIDE DEF S
    <2>9. \A s \in ServicesOf(g) : \E i \in 1 .. Len(S) : s = launch[g].services[i]
      BY <2>1 DEF ServicesOf
    <2>10. \A i \in 1 .. Len(S) : /\ launch[g].services[i] \in ServicesOf(g)
                                  /\ launch[g].services[i] \in Services
      BY <1>1, <2>1, ServicesType
    <2>11. ASSUME NEW i \in 1 .. Len(S)
           PROVE  /\ m + 1 <= Len(GateAsked[g][launch[g].services[i]])
                  /\ GateAsked[g][launch[g].services[i]][m + 1] = handler[S[i]].content
      <3>1. PICK s \in Services : s = launch[g].services[i]
        BY <2>10
      <3>2. m + 1 \in DOMAIN accepted[g][s] /\ S[i] = accepted[g][s][m + 1]
        BY <2>8, <3>1
      <3>3. /\ DOMAIN accepted[g][s] = 1 .. Len(accepted[g][s])
            /\ Len(accepted[g][s]) \in Nat
        BY <1>1, AcceptedType
      <3>4. PICK a \in Nat : a = Len(accepted[g][s])
        BY <3>3
      <3>5. GateAsked[g][s] = [k \in 1 .. a |-> handler[accepted[g][s][k]].content]
        BY <3>3, <3>4 DEF GateAsked
      <3>6. Len(GateAsked[g][s]) = a /\ m + 1 \in 1 .. a
        BY <3>2, <3>3, <3>4, <3>5
      <3>7. GateAsked[g][s][m + 1] = handler[accepted[g][s][m + 1]].content
        BY <3>5, <3>6
      <3>8. m + 1 <= Len(GateAsked[g][s])
        BY <3>6
      <3>9. QED
        BY <3>1, <3>2, <3>7, <3>8
    <2>12. v <=> \A s, t \in ServicesOf(g) : GateAsked[g][s][m + 1] = GateAsked[g][t][m + 1]
      <3>1. v <=> \A i \in 2 .. Len(S) : handler[S[i]].content = handler[S[1]].content
        BY <2>3 DEF Unanimous
      <3>2. /\ 1 \in 1 .. Len(S)
            /\ \A i \in 2 .. Len(S) : i \in 1 .. Len(S)
            /\ \A i \in 1 .. Len(S) : i = 1 \/ i \in 2 .. Len(S)
        BY <2>1
      <3>3. ASSUME v, NEW s \in ServicesOf(g), NEW t \in ServicesOf(g)
            PROVE  GateAsked[g][s][m + 1] = GateAsked[g][t][m + 1]
        <4>1. PICK i \in 1 .. Len(S), j \in 1 .. Len(S) :
                 s = launch[g].services[i] /\ t = launch[g].services[j]
          BY <2>9
        <4>2. handler[S[i]].content = handler[S[1]].content
              /\ handler[S[j]].content = handler[S[1]].content
          BY <3>1, <3>2, <3>3
        <4>3. QED
          BY <2>11, <4>1, <4>2
      <3>4. ASSUME \A s, t \in ServicesOf(g) : GateAsked[g][s][m + 1] = GateAsked[g][t][m + 1],
                   NEW i \in 2 .. Len(S)
            PROVE  handler[S[i]].content = handler[S[1]].content
        BY <2>10, <2>11, <3>2, <3>4
      <3>5. QED
        BY <3>1, <3>3, <3>4
    <2>13. PICK d : d = GateDecided[g]
      OBVIOUS
    <2>14. PICK e : e = GateDecided'[g]
      OBVIOUS
    <2>15. /\ d = [k \in 1 .. m |-> rounds[g][k].forwarded]
           /\ e = [k \in 1 .. m + 1 |-> rounds'[g][k].forwarded]
      BY <2>6, <2>13, <2>14 DEF GateDecided
    <2>16. d \in Seq(BOOLEAN) /\ Len(d) = m
      <3>1. \A k \in 1 .. m : rounds[g][k] \in Round
        <4>1. rounds[g] \in Seq(Round)
          BY <1>4
        <4>2. QED
          BY <2>6, <4>1, ElementOfSeq
      <3>2. \A k \in 1 .. m : rounds[g][k].forwarded \in BOOLEAN
        BY <3>1 DEF Round
      <3>3. d \in [1 .. m -> BOOLEAN]
        BY <2>15, <3>2
      <3>4. QED
        BY <3>3, SeqDef, LenProperties
    <2>17. Extends(d, e, v)
      <3>1. /\ \A i \in 1 .. m : i \in 1 .. m + 1
            /\ m + 1 \in 1 .. m + 1
        OBVIOUS
      <3>2. \A i \in 1 .. m : e[i] = d[i]
        BY <2>6, <2>15, <3>1
      <3>3. e[m + 1] = v
        BY <2>7, <2>15, <3>1
      <3>4. QED
        BY <2>15, <2>16, <3>2, <3>3 DEF Extends
    <2>18. e = Append(d, v)
      BY <2>16, <2>17, SeqGrows
    <2>19. GateDecided' = [GateDecided EXCEPT ![g] = Append(GateDecided[g], v)]
      <3>1. \A k \in Sessions \ {g} : GateDecided'[k] = GateDecided[k]
        BY DEF GateDecided
      <3>2. /\ GateDecided = [k \in Sessions |-> GateDecided[k]]
            /\ GateDecided' = [k \in Sessions |-> GateDecided'[k]]
        BY DEF GateDecided
      <3>3. QED
        BY <2>13, <2>14, <2>18, <3>1, <3>2
    <2>20. Gate!Decide(g)
      <3>1. GateMembers[g] = ServicesOf(g)
        BY DEF GateMembers
      <3>2. GateMembers[g] # {}
        <4>1. 1 \in 1 .. Len(S)
          BY <2>1
        <4>2. QED
          BY <2>10, <3>1, <4>1
      <3>3. Len(GateDecided[g]) + 1 = m + 1
        BY <2>13, <2>16
      <3>4. \A s \in GateMembers[g] : m + 1 <= Len(GateAsked[g][s])
        BY <2>9, <2>11, <3>1
      <3>5. v = \A s, t \in GateMembers[g] : GateAsked[g][s][m + 1] = GateAsked[g][t][m + 1]
        BY <2>12, <3>1
      <3>6. QED
        BY <1>2, <1>3, <2>19, <3>2, <3>3, <3>4, <3>5 DEF Gate!Decide
    <2>21. QED
      BY <2>20 DEF GateStep, Gate!GateNext
  <1>7. QED
    BY <1>5, <1>6 DEF CollectsOwn

LEMMA LoopDecides ==
    ASSUME Parallel = FALSE, ServedInv, ServedInv', [Next]_vars, UNCHANGED GateTold,
           NEW g \in Sessions, RunLoop(g) \/ DeliverResponse(g)
    PROVE  GateStep
  <1>1. /\ JoinedInv /\ OrderInv /\ OrphanInv /\ IInv /\ SortedInv /\ OwnQueue
        /\ OrderInv'
    BY DEF ServedInv, JoinedInv, OrderInv, OrphanInv
  <1>2. UNCHANGED <<launch, accepted>>
    BY DEF RunLoop, DeliverResponse
  <1>3. PICK store \in Seq(Calls) :
           /\ Active(g) /\ loop[g].pc # "none" /\ Collect(g, store)
           /\ Len(store) <= Len(launch[g].services)
           /\ \A c \in Calls : handler'[c].content = handler[c].content
    <2>1. CASE RunLoop(g)
      <3>1. /\ Active(g) /\ loop[g].pc # "none" /\ Collect(g, loop[g].store)
            /\ UNCHANGED handler
        BY <2>1 DEF RunLoop, Active
      <3>2. loop[g].store \in Seq(Calls) /\ Len(loop[g].store) <= Len(launch[g].services)
        BY <1>1, StoreType, StoreFits
      <3>3. \A c \in Calls : handler'[c].content = handler[c].content
        BY <3>1
      <3>4. QED
        BY <3>1, <3>2, <3>3
    <2>2. CASE DeliverResponse(g)
      <3>1. /\ Active(g) /\ Collect(g, <<>>)
            /\ \A c \in Calls : Settled(c)
        BY <1>1, <2>2, DeliversToAll
      <3>2. \A c \in Calls : handler'[c].content = handler[c].content
        BY <3>1 DEF Settled, Stays
      <3>3. loop[g].pc # "none"
        BY <3>1 DEF Active
      <3>4. <<>> \in Seq(Calls) /\ Len(<<>>) <= Len(launch[g].services)
        <4>1. <<>> \in Seq(Calls) /\ Len(<<>>) = 0
          BY EmptySeq
        <4>2. Len(launch[g].services) \in Nat
          BY <1>1, StoreType
        <4>3. QED
          BY <4>1, <4>2
      <3>5. QED
        BY <3>1, <3>2, <3>3, <3>4
    <2>3. QED
      BY <2>1, <2>2
  <1>4. \A i : Source(g, i) = g
    BY <1>1, <1>3, OwnSource
  <1>5. PICK n \in Len(store) + 1 .. Len(launch[g].services) + 1 : CollectsOwn(g, store, n)
    BY <1>1, <1>3, <1>4, CollectOwn
  <1>6. n \in Nat
    <2>1. Len(store) \in Nat
      BY <1>3, LenProperties
    <2>2. QED
      BY <1>5, <2>1
  <1>7. \A k \in Sessions \ {g} : rounds'[k] = rounds[k]
    BY <1>1, <1>3, CollectEffect
  <1>8. QED
    BY <1>1, <1>2, <1>3, <1>5, <1>6, <1>7, CollectDecides

(* Stops, cancellations and failures of rounds are no step of the gate.    *)
LEMMA SilentSteps ==
    ASSUME UNCHANGED <<launch, handler, accepted, rounds>>, UNCHANGED GateTold
    PROVE  GateStep
  <1>1. UNCHANGED <<GateMembers, GateAsked, GateDecided>>
    BY DEF GateMembers, ServicesOf, GateAsked, GateDecided
  <1>2. QED
    BY <1>1 DEF GateStep, Gate!gateVars

LEMMA NextGate ==
    ASSUME Parallel = FALSE, ServedInv, ServedInv', [Next]_vars
    PROVE  GateStep
  <1>1. IInv /\ IInv'
    BY DEF ServedInv, JoinedInv, OrderInv, OrphanInv
  <1>2. CASE \E c \in Calls : ResumeHandler(c)
    BY <1>1, <1>2, ResumeTells
  <1>3. CASE \A c \in Calls : ~ResumeHandler(c)
    <2>1. UNCHANGED GateTold
      BY <1>1, <1>3, ToldByHandlers
    <2>2. ASSUME NEW r \in Ids, NEW l \in ServiceLists, Start(r, l) PROVE GateStep
      BY <1>1, <2>2, StartOpens
    <2>3. ASSUME NEW r \in Ids, Stop(r) PROVE GateStep
      <3>1. UNCHANGED <<launch, handler, accepted, rounds>>
        BY <2>3 DEF Stop
      <3>2. QED
        BY <2>1, <3>1, SilentSteps
    <2>4. ASSUME NEW c \in Calls, NEW g \in Sessions, NEW s \in Services,
                 NEW x \in Contents, NEW h \in Hosts, Submit(c, g, s, x, h)
          PROVE  GateStep
      BY <1>1, <2>1, <2>4, SubmitAsks
    <2>5. ASSUME NEW g \in Sessions, RunLoop(g) \/ DeliverResponse(g) PROVE GateStep
      BY <2>1, <2>5, LoopDecides
    <2>6. ASSUME NEW g \in Sessions, RoundFails(g) PROVE GateStep
      <3>1. UNCHANGED <<launch, handler, accepted, rounds>>
        BY <2>6 DEF RoundFails
      <3>2. QED
        BY <2>1, <3>1, SilentSteps
    <2>7. ASSUME NEW g \in Sessions, HandleCancelled(g) PROVE GateStep
      <3>1. UNCHANGED <<launch, handler, accepted, rounds>>
        BY <2>7 DEF HandleCancelled
      <3>2. QED
        BY <2>1, <3>1, SilentSteps
    <2>8. CASE UNCHANGED vars
      <3>1. UNCHANGED <<launch, handler, accepted, rounds>>
        BY <2>8 DEF vars
      <3>2. QED
        BY <2>1, <3>1, SilentSteps
    <2>9. QED
      BY <1>3, <2>2, <2>3, <2>4, <2>5, <2>6, <2>7, <2>8 DEF Next
  <1>4. QED
    BY <1>2, <1>3

LEMMA InitGate == Init => Gate!GateInit
  <1> SUFFICES ASSUME Init PROVE Gate!GateInit
    OBVIOUS
  <1>1. <<>> \in Seq(Calls) /\ Len(<<>>) = 0 /\ DOMAIN <<>> = {}
    BY EmptySeq
  <1>2. GateMembers = [g \in Sessions |-> {}]
    <2>1. \A g \in Sessions : ServicesOf(g) = {}
      BY <1>1 DEF Init, ServicesOf
    <2>2. QED
      BY <2>1 DEF GateMembers
  <1>3. GateDecided = [g \in Sessions |-> <<>>]
    <2>1. ASSUME NEW g \in Sessions
          PROVE  [n \in DOMAIN rounds[g] |-> rounds[g][n].forwarded] = <<>>
      <3>1. DOMAIN rounds[g] = {}
        BY <1>1 DEF Init
      <3>2. QED
        BY <3>1
    <2>2. QED
      BY <2>1 DEF GateDecided
  <1>4. GateAsked = [g \in Sessions |-> [s \in Services |-> <<>>]]
    <2>1. ASSUME NEW g \in Sessions, NEW s \in Services
          PROVE  [i \in DOMAIN accepted[g][s] |-> handler[accepted[g][s][i]].content] = <<>>
      <3>1. DOMAIN accepted[g][s] = {}
        BY <1>1 DEF Init
      <3>2. QED
        BY <3>1
    <2>2. QED
      BY <2>1 DEF GateAsked
  <1>5. GateTold = [g \in Sessions |-> [s \in Services |-> <<>>]]
    <2>1. IInv
      BY InitIInv
    <2>2. ASSUME NEW g \in Sessions, NEW s \in Services PROVE GateTold[g][s] = <<>>
      <3>1. ServedUpTo(g, s, 0)
        BY InitServed
      <3>2. GateTold[g][s] = [i \in 1 .. 0 |-> i]
        BY <2>1, <3>1, ToldUpTo
      <3>3. QED
        BY <3>2
    <2>3. QED
      BY <2>2 DEF GateTold
  <1>6. QED
    BY <1>2, <1>3, <1>4, <1>5 DEF Gate!GateInit

(* If no id is started twice and every variant waits for the answer to a   *)
(* call before it makes the next, the proxy implements the gate: rounds,   *)
(* verdicts and answers are the decisions of UnanimityGate, step by step   *)
(* (proxy_handler and handle_requests).                                    *)
THEOREM IsGate ==
    ASSUME Retry = FALSE, Parallel = FALSE
    PROVE  Spec => ImplementsGate
  <1>1. ServedInv /\ [Next]_vars => ServedInv'
    BY NextServedInv
  <1>2. ServedInv /\ ServedInv' /\ [Next]_vars => [Gate!GateNext]_(Gate!gateVars)
    BY NextGate DEF GateStep
  <1>3. Init => ServedInv /\ Gate!GateInit
    BY InitServedInv, InitGate
  <1>4. QED
    BY <1>1, <1>2, <1>3, PTL DEF Spec, ImplementsGate, Gate!GateSpec
=============================================================================
