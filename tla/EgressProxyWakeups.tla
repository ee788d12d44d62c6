-------------------------- MODULE EgressProxyWakeups --------------------------
(***************************************************************************)
(* No wake-up is lost at the queues of the egress proxy.                   *)
(*                                                                         *)
(* That somebody is awake when a queue with items has waiters does not     *)
(* survive a step: one woken getter takes one of two items and leaves the  *)
(* other.  What does is that every item has a woken getter of its own.     *)
(***************************************************************************)
EXTENDS EgressProxySafety

(* n items have a getter in W each, no two the same one. *)
Backs(n, W) == \E f \in [1 .. n -> W] : \A i, j \in 1 .. n : f[i] = f[j] => i = j

(* If somebody waits at q, every item has a getter in W on its way.        *)
Backed(q, W) == q.getters # <<>> => Backs(Len(q.items), W)

Listed(q, p) == \E i \in DOMAIN q.getters : q.getters[i] = p

(* Those that were woken at a queue and have not run yet.                  *)
WokenLoops(x, s) ==
    {g \in Sessions : loop[g].pc \in {"woken", "cancelled"} /\ loop[g].on = x /\ Awaited(g) = s}

WokenHandlers(x, s) ==
    {c \in Calls : handler[c].pc = "woken" /\ handler[c].on = x /\ handler[c].sender = s}

LoopsAwake ==
    /\ \A g \in Sessions : loop[g].pc = "waiting" => Listed(requests[loop[g].on][Awaited(g)], g)
    /\ \A x \in Sessions, s \in Services : Backed(requests[x][s], WokenLoops(x, s))

HandlersAwake ==
    /\ \A c \in Calls : handler[c].pc = "waiting" =>
          Listed(responses[handler[c].on][handler[c].sender], c)
    /\ \A x \in Sessions, s \in Services : Backed(responses[x][s], WokenHandlers(x, s))

AwakeInv == IInv /\ LoopsAwake /\ HandlersAwake

-----------------------------------------------------------------------------
(* Items and the getters that back them.                                   *)

LEMMA BacksNothing == ASSUME NEW W PROVE Backs(0, W)
  <1> DEFINE f == [i \in 1 .. 0 |-> i]
  <1>1. f \in [1 .. 0 -> W] /\ \A i, j \in 1 .. 0 : f[i] = f[j] => i = j
    OBVIOUS
  <1>2. QED
    BY <1>1 DEF Backs

LEMMA BacksSome ==
    ASSUME NEW n \in Nat \ {0}, NEW W, Backs(n, W)
    PROVE  W # {}
  BY DEF Backs

LEMMA BacksFewer ==
    ASSUME NEW n \in Nat, NEW m \in Nat, m <= n, NEW W, NEW V, W \subseteq V, Backs(n, W)
    PROVE  Backs(m, V)
  <1>1. PICK f \in [1 .. n -> W] : \A i, j \in 1 .. n : f[i] = f[j] => i = j
    BY DEF Backs
  <1> DEFINE h == [i \in 1 .. m |-> f[i]]
  <1>2. h \in [1 .. m -> V] /\ \A i, j \in 1 .. m : h[i] = h[j] => i = j
    BY <1>1
  <1>3. QED
    BY <1>2 DEF Backs

(* One getter more, one item more. *)
LEMMA BacksMore ==
    ASSUME NEW n \in Nat, NEW W, NEW p, p \notin W, Backs(n, W)
    PROVE  Backs(n + 1, W \cup {p})
  <1>1. PICK f \in [1 .. n -> W] : \A i, j \in 1 .. n : f[i] = f[j] => i = j
    BY DEF Backs
  <1> DEFINE h == [i \in 1 .. n + 1 |-> IF i = n + 1 THEN p ELSE f[i]]
  <1>2. \A i \in 1 .. n + 1 : i = n + 1 \/ i \in 1 .. n
    OBVIOUS
  <1>3. h \in [1 .. n + 1 -> W \cup {p}]
    BY <1>1, <1>2
  <1>4. \A i, j \in 1 .. n + 1 : h[i] = h[j] => i = j
    BY <1>1, <1>2
  <1> HIDE DEF h
  <1>5. QED
    BY <1>3, <1>4 DEF Backs

(* One getter less, one item less. *)
LEMMA BacksLess ==
    ASSUME NEW n \in Nat \ {0}, NEW W, NEW p, Backs(n, W)
    PROVE  Backs(n - 1, W \ {p})
  <1>1. PICK f \in [1 .. n -> W] : \A i, j \in 1 .. n : f[i] = f[j] => i = j
    BY DEF Backs
  <1> DEFINE h == [i \in 1 .. n - 1 |-> IF f[i] = p THEN f[n] ELSE f[i]]
  <1>2. n \in 1 .. n /\ \A i \in 1 .. n - 1 : i \in 1 .. n /\ i # n
    OBVIOUS
  <1>3. \A i \in 1 .. n - 1 : h[i] \in W \ {p}
    BY <1>1, <1>2
  <1>4. \A i, j \in 1 .. n - 1 : h[i] = h[j] => i = j
    BY <1>1, <1>2
  <1>5. h \in [1 .. n - 1 -> W \ {p}]
    BY <1>3
  <1> HIDE DEF h
  <1>6. QED
    BY <1>4, <1>5 DEF Backs

(* A getter in place of another. *)
LEMMA BacksSwap ==
    ASSUME NEW n \in Nat, NEW W, NEW p, NEW r, r \notin W, Backs(n, W)
    PROVE  Backs(n, (W \ {p}) \cup {r})
  <1>1. PICK f \in [1 .. n -> W] : \A i, j \in 1 .. n : f[i] = f[j] => i = j
    BY DEF Backs
  <1> DEFINE h == [i \in 1 .. n |-> IF f[i] = p THEN r ELSE f[i]]
  <1>2. h \in [1 .. n -> (W \ {p}) \cup {r}]
    BY <1>1
  <1>3. \A i, j \in 1 .. n : h[i] = h[j] => i = j
    BY <1>1
  <1> HIDE DEF h
  <1>4. QED
    BY <1>2, <1>3 DEF Backs

-----------------------------------------------------------------------------
(* The operations of a queue.                                              *)

LEMMA QueueLengths ==
    ASSUME NEW Item, NEW Proc, NEW q \in Queue(Item, Proc)
    PROVE  /\ q.items \in Seq(Item) /\ Len(q.items) \in Nat
           /\ q.items = <<>> <=> Len(q.items) = 0
           /\ q.getters \in Seq(Proc) /\ Len(q.getters) \in Nat
           /\ DOMAIN q.getters = 1 .. Len(q.getters)
           /\ q.getters = <<>> <=> Len(q.getters) = 0
  <1>1. q.items \in Seq(Item) /\ q.getters \in Seq(Proc)
    BY DEF Queue
  <1>2. QED
    BY <1>1, LenProperties, EmptySeq

LEMMA BackedPut ==
    ASSUME NEW Item, NEW Proc, NEW q \in Queue(Item, Proc), NEW x \in Item,
           NEW W, NEW V, Backed(q, W), WokenBy(q) \cap W = {}, W \cup WokenBy(q) \subseteq V
    PROVE  Backed(PutNowait(q, x), V)
  <1>1. /\ PutNowait(q, x).items = Append(q.items, x)
        /\ PutNowait(q, x).getters = IF q.getters = <<>> THEN <<>> ELSE Tail(q.getters)
    BY PutNowaitType
  <1>2. Len(q.items) \in Nat /\ Len(Append(q.items, x)) = Len(q.items) + 1
    BY QueueLengths, AppendProperties
  <1>3. ASSUME q.getters # <<>> PROVE Backs(Len(q.items) + 1, V)
    <2>1. Backs(Len(q.items), W) /\ WokenBy(q) = {Head(q.getters)}
      BY <1>3 DEF Backed, WokenBy
    <2>2. PICK p : p = Head(q.getters)
      OBVIOUS
    <2>3. Backs(Len(q.items) + 1, W \cup {p})
      BY <1>2, <2>1, <2>2, BacksMore
    <2>4. W \cup {p} \subseteq V
      BY <2>1, <2>2
    <2>5. QED
      BY <1>2, <2>3, <2>4, BacksFewer
  <1>4. QED
    BY <1>1, <1>2, <1>3 DEF Backed

(* An item is taken, by a getter that was woken or by another. *)
LEMMA BackedTake ==
    ASSUME NEW Item, NEW Proc, NEW q \in Queue(Item, Proc), ~IsEmpty(q),
           NEW W, NEW V, NEW p, Backed(q, W), W \ {p} \subseteq V
    PROVE  Backed(GetNowait(q), V)
  <1>1. GetNowait(q).items = Tail(q.items) /\ GetNowait(q).getters = q.getters
    BY GetNowaitType
  <1>2. Len(q.items) \in Nat \ {0} /\ Len(Tail(q.items)) = Len(q.items) - 1
    <2>1. q.items \in Seq(Item) /\ q.items # <<>>
      BY QueueLengths DEF IsEmpty
    <2>2. QED
      BY <2>1, QueueLengths, HeadTailProperties
  <1>3. ASSUME q.getters # <<>> PROVE Backs(Len(q.items) - 1, V)
    <2>1. Backs(Len(q.items) - 1, W \ {p})
      BY <1>2, <1>3, BacksLess DEF Backed
    <2>2. QED
      BY <1>2, <2>1, BacksFewer
  <1>4. QED
    BY <1>1, <1>2, <1>3 DEF Backed

LEMMA BackedPassOn ==
    ASSUME NEW Item, NEW Proc, NEW q \in Queue(Item, Proc), ~IsEmpty(q),
           NEW W, NEW V, NEW p, Backed(q, W), WokenBy(q) \cap W = {},
           (W \ {p}) \cup WokenBy(q) \subseteq V
    PROVE  Backed(PassOn(q), V)
  <1>1. /\ PassOn(q).items = q.items
        /\ PassOn(q).getters = IF q.getters = <<>> THEN <<>> ELSE Tail(q.getters)
    BY PassOnType
  <1>2. Len(q.items) \in Nat
    BY QueueLengths
  <1>3. ASSUME q.getters # <<>> PROVE Backs(Len(q.items), V)
    <2>1. Backs(Len(q.items), W) /\ WokenBy(q) = {Head(q.getters)}
      BY <1>3 DEF Backed, WokenBy
    <2>2. PICK r : r = Head(q.getters)
      OBVIOUS
    <2>3. Backs(Len(q.items), (W \ {p}) \cup {r})
      BY <1>2, <2>1, <2>2, BacksSwap
    <2>4. (W \ {p}) \cup {r} \subseteq V
      BY <2>1, <2>2
    <2>5. QED
      BY <1>2, <2>3, <2>4, BacksFewer
  <1>4. QED
    BY <1>1, <1>3 DEF Backed

LEMMA BackedWithdraw ==
    ASSUME NEW Item, NEW Proc, NEW q \in Queue(Item, Proc), NEW p,
           \A i, j \in DOMAIN q.getters : q.getters[i] = q.getters[j] => i = j,
           NEW W, NEW V, Backed(q, W), W \subseteq V
    PROVE  Backed(Withdraw(q, p), V)
  <1>1. /\ Withdraw(q, p) \in Queue(Item, Proc) /\ Withdraw(q, p).items = q.items
        /\ \A i \in DOMAIN Withdraw(q, p).getters :
              \E l \in DOMAIN q.getters : Withdraw(q, p).getters[i] = q.getters[l]
    BY WithdrawType
  <1>2. Withdraw(q, p).getters # <<>> => q.getters # <<>>
    BY <1>1, QueueLengths
  <1>3. Len(q.items) \in Nat
    BY QueueLengths
  <1>4. QED
    BY <1>1, <1>2, <1>3, BacksFewer DEF Backed

(* Nobody is backed at an empty queue, and nobody needs to be. *)
LEMMA BackedEmpty ==
    ASSUME NEW q, q.items = <<>>, NEW W
    PROVE  Backed(q, W)
  BY BacksNothing, EmptySeq DEF Backed

LEMMA BackedKeeps ==
    ASSUME NEW Item, NEW Proc, NEW q \in Queue(Item, Proc),
           NEW W, NEW V, Backed(q, W), W \subseteq V
    PROVE  Backed(q, V)
  BY QueueLengths, BacksFewer DEF Backed

(* The waiting list but for its first. *)
LEMMA ListedTail ==
    ASSUME NEW Proc, NEW w \in Seq(Proc), w # <<>>, NEW i \in DOMAIN w, w[i] # Head(w)
    PROVE  \E j \in DOMAIN Tail(w) : Tail(w)[j] = w[i]
  <1>1. /\ Tail(w) \in Seq(Proc) /\ Len(Tail(w)) = Len(w) - 1 /\ Head(w) = w[1]
        /\ \A k \in 1 .. Len(Tail(w)) : Tail(w)[k] = w[k + 1]
    BY HeadTailProperties
  <1>2. /\ DOMAIN w = 1 .. Len(w) /\ Len(w) \in Nat
        /\ DOMAIN Tail(w) = 1 .. Len(w) - 1
    BY <1>1, LenProperties
  <1>3. i \in 2 .. Len(w) /\ i - 1 \in 1 .. Len(w) - 1
    BY <1>1, <1>2
  <1>4. Tail(w)[i - 1] = w[i]
    BY <1>1, <1>2, <1>3
  <1>5. QED
    BY <1>2, <1>3, <1>4

LEMMA ListedWoken ==
    ASSUME NEW Item, NEW Proc, NEW q \in Queue(Item, Proc), NEW p, Listed(q, p),
           p \notin WokenBy(q)
    PROVE  q.getters # <<>> /\ \E j \in DOMAIN Tail(q.getters) : Tail(q.getters)[j] = p
  <1>1. PICK i \in DOMAIN q.getters : q.getters[i] = p
    BY DEF Listed
  <1>2. q.getters \in Seq(Proc) /\ q.getters # <<>>
    BY <1>1, QueueLengths
  <1>3. q.getters[i] # Head(q.getters)
    BY <1>1, <1>2 DEF WokenBy
  <1>4. QED
    BY <1>1, <1>2, <1>3, ListedTail

LEMMA ListedPut ==
    ASSUME NEW Item, NEW Proc, NEW q \in Queue(Item, Proc), NEW x \in Item, NEW p,
           Listed(q, p), p \notin WokenBy(q)
    PROVE  Listed(PutNowait(q, x), p)
  <1>1. PutNowait(q, x).getters = IF q.getters = <<>> THEN <<>> ELSE Tail(q.getters)
    BY PutNowaitType
  <1>2. q.getters # <<>> /\ \E j \in DOMAIN Tail(q.getters) : Tail(q.getters)[j] = p
    BY ListedWoken
  <1>3. QED
    BY <1>1, <1>2 DEF Listed

LEMMA ListedPassOn ==
    ASSUME NEW Item, NEW Proc, NEW q \in Queue(Item, Proc), ~IsEmpty(q), NEW p,
           Listed(q, p), p \notin WokenBy(q)
    PROVE  Listed(PassOn(q), p)
  <1>1. PassOn(q).getters = IF q.getters = <<>> THEN <<>> ELSE Tail(q.getters)
    BY PassOnType
  <1>2. q.getters # <<>> /\ \E j \in DOMAIN Tail(q.getters) : Tail(q.getters)[j] = p
    BY ListedWoken
  <1>3. QED
    BY <1>1, <1>2 DEF Listed

LEMMA ListedBlock ==
    ASSUME NEW Proc, NEW w \in Seq(Proc), NEW p \in Proc
    PROVE  /\ \E i \in DOMAIN Append(w, p) : Append(w, p)[i] = p
           /\ \A k \in DOMAIN w : \E i \in DOMAIN Append(w, p) : Append(w, p)[i] = w[k]
  <1>1. /\ Append(w, p) \in Seq(Proc) /\ Len(Append(w, p)) = Len(w) + 1
        /\ \A i \in 1 .. Len(w) : Append(w, p)[i] = w[i]
        /\ Append(w, p)[Len(w) + 1] = p
    BY AppendProperties
  <1>2. /\ DOMAIN w = 1 .. Len(w) /\ Len(w) \in Nat
        /\ DOMAIN Append(w, p) = 1 .. Len(w) + 1
    BY <1>1, LenProperties
  <1>3. QED
    BY <1>1, <1>2

LEMMA ListedWithdraw ==
    ASSUME NEW Item, NEW Proc, NEW q \in Queue(Item, Proc), NEW p, NEW r, r # p, Listed(q, r)
    PROVE  Listed(Withdraw(q, p), r)
  <1> DEFINE w == q.getters
             k == CHOOSE i \in DOMAIN w : w[i] = p
             v == Without(w, k)
  <1>1. PICK l \in DOMAIN w : w[l] = r
    BY DEF Listed
  <1>2. CASE \E i \in DOMAIN w : w[i] = p
    <2>1. k \in DOMAIN w /\ w[k] = p
      BY <1>2
    <2>2. Withdraw(q, p).getters = v
      BY <1>2 DEF Withdraw, Queue
    <2> HIDE DEF k
    <2>3. DOMAIN w = 1 .. Len(w) /\ Len(w) \in Nat
      BY QueueLengths
    <2>4. v = [i \in 1 .. Len(w) - 1 |-> w[IF i < k THEN i ELSE i + 1]]
      BY DEF Without
    <2> HIDE DEF w, v
    <2>5. l # k
      BY <1>1, <2>1
    <2>6. \E i \in 1 .. Len(w) - 1 : l = IF i < k THEN i ELSE i + 1
      <3>1. CASE l < k
        <4>1. l \in 1 .. Len(w) - 1 /\ l = IF l < k THEN l ELSE l + 1
          BY <2>1, <2>3, <3>1
        <4>2. QED
          BY <4>1
      <3>2. CASE l > k
        <4>1. l - 1 \in 1 .. Len(w) - 1 /\ l = IF l - 1 < k THEN l - 1 ELSE (l - 1) + 1
          BY <2>1, <2>3, <3>2
        <4>2. QED
          BY <4>1
      <3>3. QED
        BY <2>1, <2>3, <2>5, <3>1, <3>2
    <2>7. \E i \in DOMAIN v : v[i] = r
      BY <1>1, <2>4, <2>6
    <2>8. QED
      BY <2>2, <2>7 DEF Listed
  <1>3. CASE ~\E i \in DOMAIN w : w[i] = p
    BY <1>3 DEF Withdraw
  <1>4. QED
    BY <1>2, <1>3

-----------------------------------------------------------------------------
(* The loops and the request queues.                                       *)

(* Those a put or a passed on wake-up schedules were waiting there.        *)
LEMMA WokenWaited ==
    ASSUME IInv, NEW x \in Sessions, NEW s \in Services, NEW p \in WokenBy(requests[x][s])
    PROVE  /\ p \in Sessions /\ loop[p].pc = "waiting" /\ loop[p].on = x /\ Awaited(p) = s
           /\ p \notin WokenLoops(x, s)
  <1>1. requests[x][s] \in Queue(Calls, Sessions)
    BY DEF IInv, TypeOK
  <1>2. /\ p \in Sessions /\ 1 \in DOMAIN requests[x][s].getters
        /\ p = requests[x][s].getters[1]
    BY <1>1, WokenByFirst
  <1>3. loop[p].pc = "waiting" /\ loop[p].on = x /\ Awaited(p) = s
    BY <1>2 DEF IInv, LoopGetters
  <1>4. QED
    BY <1>2, <1>3 DEF WokenLoops

LEMMA LoopsFrame ==
    ASSUME IInv, LoopsAwake, UNCHANGED requests,
           \A g \in Sessions :
              /\ loop'[g].pc = "waiting" => UNCHANGED <<loop[g], launch[g]>>
              /\ loop[g].on # None /\ loop[g].pc \in {"woken", "cancelled"} =>
                    /\ loop'[g].pc \in {"woken", "cancelled"} /\ loop'[g].on = loop[g].on
                    /\ loop'[g].store = loop[g].store /\ launch'[g] = launch[g]
    PROVE  LoopsAwake'
  <1>1. ASSUME NEW g \in Sessions, loop'[g].pc = "waiting"
        PROVE  Listed(requests[loop[g].on][Awaited(g)], g)'
    <2>1. loop'[g] = loop[g] /\ launch'[g] = launch[g]
      BY <1>1
    <2>2. Listed(requests[loop[g].on][Awaited(g)], g)
      BY <1>1, <2>1 DEF LoopsAwake
    <2>3. QED
      BY <2>1, <2>2 DEF Awaited, Listed
  <1>2. ASSUME NEW x \in Sessions, NEW s \in Services
        PROVE  Backed(requests[x][s], WokenLoops(x, s))'
    <2>1. requests[x][s] \in Queue(Calls, Sessions)
      BY DEF IInv, TypeOK
    <2>2. WokenLoops(x, s) \subseteq WokenLoops(x, s)'
      BY NoneAssumption DEF WokenLoops, Awaited
    <2>3. Backed(requests[x][s], WokenLoops(x, s))
      BY DEF LoopsAwake
    <2> DEFINE W == WokenLoops(x, s)
               V == WokenLoops(x, s)'
               q == requests[x][s]
    <2>4. Backed(q, V)
      <3> HIDE DEF W, V, q
      <3>1. q \in Queue(Calls, Sessions) /\ Backed(q, W) /\ W \subseteq V
        BY <2>1, <2>2, <2>3 DEF W, V, q
      <3>2. QED
        BY <3>1, BackedKeeps
    <2>5. QED
      BY <2>4 DEF Backed
  <1>3. QED
    BY <1>1, <1>2 DEF LoopsAwake

(* A step at one queue. *)
LEMMA OneQueue ==
    ASSUME IInv, LoopsAwake, UNCHANGED launch, NEW x \in Sessions, NEW s \in Services,
           \A y \in Sessions, t \in Services :
              ~(y = x /\ t = s) => requests'[y][t] = requests[y][t],
           \A k \in Sessions :
              /\ loop'[k].pc = "waiting" =>
                    /\ loop'[k] = loop[k]
                    /\ loop[k].on = x /\ Awaited(k) = s => Listed(requests'[x][s], k)
              /\ loop[k].pc \in {"woken", "cancelled"} /\ loop[k].on # None
                 /\ ~(loop[k].on = x /\ Awaited(k) = s) => loop'[k] = loop[k],
           NEW V, V = WokenLoops(x, s)', Backed(requests'[x][s], V)
    PROVE  LoopsAwake'
  <1>1. ASSUME NEW k \in Sessions, loop'[k].pc = "waiting"
        PROVE  Listed(requests[loop[k].on][Awaited(k)], k)'
    <2>1. loop'[k] = loop[k] /\ Awaited(k)' = Awaited(k)
      BY <1>1 DEF Awaited
    <2>2. Listed(requests[loop[k].on][Awaited(k)], k)
      BY <1>1, <2>1 DEF LoopsAwake
    <2>3. loop[k].on \in Sessions /\ Awaited(k) \in Services
      <3>1. loop[k].on \in Sessions /\ Awaited(k) \in ServicesOf(loop[k].on)
        BY <1>1, <2>1 DEF IInv, TypeOK, LoopInv, Loop
      <3>2. QED
        BY <3>1, NoneAssumption, HasQueueType DEF IInv, HasQueue
    <2>4. Listed(requests'[loop[k].on][Awaited(k)], k)
      BY <1>1, <2>2, <2>3
    <2>5. QED
      BY <2>1, <2>4 DEF Listed
  <1>2. ASSUME NEW y \in Sessions, NEW t \in Services
        PROVE  Backed(requests[y][t], WokenLoops(y, t))'
    <2>1. CASE y = x /\ t = s
      BY <2>1 DEF Backed
    <2>2. CASE ~(y = x /\ t = s)
      <3> DEFINE U == WokenLoops(y, t)
                 X == WokenLoops(y, t)'
                 q == requests[y][t]
      <3>1. U \subseteq X
        BY <2>2, NoneAssumption DEF WokenLoops, Awaited
      <3>2. q \in Queue(Calls, Sessions) /\ Backed(q, U)
        BY DEF IInv, TypeOK, LoopsAwake
      <3> HIDE DEF U, X, q
      <3>3. Backed(q, X)
        BY <3>1, <3>2, BackedKeeps
      <3>4. requests'[y][t] = q
        BY <2>2 DEF q
      <3>5. QED
        BY <3>3, <3>4 DEF X, Backed
    <2>3. QED
      BY <2>1, <2>2
  <1>3. QED
    BY <1>1, <1>2 DEF LoopsAwake

(* A call is put in a queue, or no queue is touched. *)
LEMMA SubmitLoopsAwake ==
    ASSUME IInv, LoopsAwake, NEW c \in Calls, NEW g \in Sessions, NEW s \in Services,
           NEW x \in Contents, NEW h \in Hosts, Submit(c, g, s, x, h)
    PROVE  LoopsAwake'
  <1>1. CASE UNCHANGED <<requests, loop>>
    BY <1>1, LoopsFrame DEF Submit
  <1>2. CASE HasQueue(registry[launch[g].id], s)
    <2>1. PICK q \in Sessions : q = registry[launch[g].id]
      BY <1>2, RegistryType DEF Submit, HasQueue
    <2>2. /\ requests' = [requests EXCEPT ![q][s] = PutNowait(requests[q][s], c)]
          /\ loop' = Wake(WokenBy(requests[q][s])) /\ UNCHANGED launch
      BY <1>2, <2>1 DEF Submit, IInv, TypeOK
    <2> DEFINE r == requests[q][s]
               W == WokenLoops(q, s)
               V == WokenLoops(q, s)'
    <2>3. /\ requests \in [Sessions -> [Services -> Queue(Calls, Sessions)]]
          /\ r \in Queue(Calls, Sessions)
      BY DEF IInv, TypeOK
    <2>4. \A p \in WokenBy(r) :
             /\ p \in Sessions /\ loop[p].pc = "waiting" /\ loop[p].on = q /\ Awaited(p) = s
             /\ p \notin W
      BY WokenWaited
    <2>5. \A k \in Sessions :
             /\ k \notin WokenBy(r) => loop'[k] = loop[k]
             /\ k \in WokenBy(r) => loop'[k] = [loop[k] EXCEPT !.pc = "woken"]
      BY <2>2 DEF Wake
    <2>6. \A k \in WokenBy(r) :
             /\ loop'[k].pc = "woken" /\ loop'[k].on = loop[k].on
             /\ loop'[k].store = loop[k].store
      <3> HIDE DEF r, W
      <3>1. \A k \in Sessions : loop[k] \in Loop
        BY DEF IInv, TypeOK
      <3>2. QED
        BY <2>4, <2>5, <3>1 DEF Loop
    <2>7. /\ requests'[q][s] = PutNowait(r, c)
          /\ \A y \in Sessions, t \in Services :
                ~(y = q /\ t = s) => requests'[y][t] = requests[y][t]
      BY <2>2, <2>3
    <2>8. W \cup WokenBy(r) \subseteq V
      <3> HIDE DEF r
      <3>1. \A k \in WokenBy(r) : Awaited(k)' = s
        BY <2>2, <2>4, <2>6 DEF Awaited
      <3>2. WokenBy(r) \subseteq V
        BY <2>4, <2>6, <3>1 DEF WokenLoops
      <3>3. W \subseteq V
        BY <2>2, <2>4, <2>5 DEF WokenLoops, Awaited
      <3>4. QED
        BY <3>2, <3>3
    <2>9. Backed(r, W)
      BY DEF LoopsAwake
    <2>10. \A k \in Sessions : loop[k].pc = "waiting" /\ loop[k].on = q /\ Awaited(k) = s
              => Listed(r, k)
      BY DEF LoopsAwake
    <2>11. Backed(PutNowait(r, c), V)
      <3>1. WokenBy(r) \cap W = {}
        BY <2>4
      <3> HIDE DEF r, W, V
      <3>2. QED
        BY <2>3, <2>8, <2>9, <3>1, BackedPut
    <2>12. \A k \in Sessions :
              /\ loop'[k].pc = "waiting" =>
                    /\ loop'[k] = loop[k]
                    /\ loop[k].on = q /\ Awaited(k) = s => Listed(PutNowait(r, c), k)
              /\ loop[k].pc \in {"woken", "cancelled"} => loop'[k] = loop[k]
      <3> HIDE DEF r
      <3>1. \A k \in Sessions : loop'[k].pc = "waiting" => k \notin WokenBy(r)
        BY <2>6
      <3>2. \A k \in Sessions : Listed(r, k) /\ k \notin WokenBy(r) => Listed(PutNowait(r, c), k)
        BY <2>3, ListedPut
      <3>3. QED
        BY <2>4, <2>5, <2>10, <3>1, <3>2
    <2> HIDE DEF r
    <2>13. QED
      BY <2>2, <2>7, <2>11, <2>12, OneQueue
  <1>3. QED
    BY <1>1, <1>2 DEF Submit

(* A task that waits leaves the waiting list; one that was woken stays a   *)
(* getter that will look at the queue.                                     *)
LEMMA StopLoopsAwake ==
    ASSUME IInv, LoopsAwake, NEW r \in Ids, Stop(r)
    PROVE  LoopsAwake'
  <1>1. /\ loop \in [Sessions -> Loop] /\ registry[r] \in Sessions
        /\ requests \in [Sessions -> [Services -> Queue(Calls, Sessions)]]
    BY DEF IInv, TypeOK, Stop
  <1>2. PICK g \in Sessions : g = registry[r] /\ Cancel(g) /\ UNCHANGED launch
    BY <1>1 DEF Stop
  <1>3. CASE loop[g].pc = "waiting"
    <2>2. PICK x \in Sessions, s \in Services : x = loop[g].on /\ s = Awaited(g)
      <3>1. loop[g].on \in Sessions /\ Awaited(g) \in ServicesOf(loop[g].on)
        BY <1>1, <1>3 DEF IInv, LoopInv, Loop
      <3>2. QED
        BY <3>1, NoneAssumption, HasQueueType DEF IInv, HasQueue
    <2>1. /\ loop' = [loop EXCEPT ![g].pc = "cancelled", ![g].on = None]
          /\ requests' = [requests EXCEPT ![x][s] = Withdraw(requests[x][s], g)]
      BY <1>1, <1>2, <1>3, <2>2 DEF Cancel
    <2>3. loop'[g].pc = "cancelled" /\ \A k \in Sessions \ {g} : loop'[k] = loop[k]
      BY <1>1, <2>1 DEF Loop
    <2>4. /\ requests'[x][s] = Withdraw(requests[x][s], g)
          /\ \A y \in Sessions, t \in Services :
                ~(y = x /\ t = s) => requests'[y][t] = requests[y][t]
      BY <1>1, <2>1, <2>2
    <2> DEFINE q == requests[x][s]
               W == WokenLoops(x, s)
               V == WokenLoops(x, s)'
    <2>5. /\ q \in Queue(Calls, Sessions) /\ Backed(q, W)
          /\ \A i, j \in DOMAIN q.getters : q.getters[i] = q.getters[j] => i = j
      BY <1>1, <2>2 DEF LoopsAwake, IInv, LoopGetters, Distinct
    <2>6. W \subseteq V
      BY <1>2, <1>3, <2>3 DEF WokenLoops, Awaited
    <2>7. \A k \in Sessions : loop[k].pc = "waiting" /\ loop[k].on = x /\ Awaited(k) = s
              => Listed(q, k)
      BY DEF LoopsAwake
    <2> HIDE DEF q, W, V
    <2>8. Backed(Withdraw(q, g), V)
      BY <2>5, <2>6, BackedWithdraw
    <2>9. \A k \in Sessions :
             /\ loop'[k].pc = "waiting" =>
                   /\ loop'[k] = loop[k]
                   /\ loop[k].on = x /\ Awaited(k) = s => Listed(Withdraw(q, g), k)
             /\ loop[k].pc \in {"woken", "cancelled"} => loop'[k] = loop[k]
      BY <1>3, <2>3, <2>5, <2>7, ListedWithdraw
    <2>10. requests'[x][s] = Withdraw(q, g) /\ V = WokenLoops(x, s)'
      BY <2>4 DEF q, V
    <2>11. QED
      BY <1>2, <2>2, <2>4, <2>8, <2>9, <2>10, OneQueue
  <1>4. CASE loop[g].pc # "waiting"
    <2>1. /\ UNCHANGED requests
          /\ loop' = loop \/ loop' = [loop EXCEPT ![g].pc = "cancelled"]
      BY <1>2, <1>4 DEF Cancel
    <2>2. \A k \in Sessions : \/ loop'[k] = loop[k]
                              \/ /\ loop'[k].pc = "cancelled" /\ loop'[k].on = loop[k].on
                                 /\ loop'[k].store = loop[k].store
      BY <1>1, <2>1 DEF Loop
    <2>3. QED
      BY <1>2, <2>1, <2>2, LoopsFrame
  <1>5. QED
    BY <1>3, <1>4

(* A cancelled getter that was woken hands its wake-up on.                 *)
LEMMA HandleCancelledLoopsAwake ==
    ASSUME IInv, LoopsAwake, NEW g \in Sessions, HandleCancelled(g)
    PROVE  LoopsAwake'
  <1>1. /\ loop \in [Sessions -> Loop] /\ loop[g].pc = "cancelled" /\ UNCHANGED launch
        /\ requests \in [Sessions -> [Services -> Queue(Calls, Sessions)]]
    BY DEF IInv, TypeOK, HandleCancelled
  <1>2. CASE loop[g].on = None
    <2>1. loop' = [loop EXCEPT ![g].pc = "returned"] /\ UNCHANGED requests
      BY <1>2 DEF HandleCancelled
    <2>2. loop'[g].pc = "returned" /\ \A k \in Sessions \ {g} : loop'[k] = loop[k]
      BY <1>1, <2>1 DEF Loop
    <2>3. QED
      BY <1>1, <1>2, <2>1, <2>2, LoopsFrame
  <1>3. CASE loop[g].on # None
    <2>1. PICK x \in Sessions, s \in Services : x = loop[g].on /\ s = Awaited(g)
      <3>1. loop[g].on \in Sessions /\ Awaited(g) \in ServicesOf(loop[g].on)
        BY <1>1, <1>3 DEF IInv, LoopInv, Loop
      <3>2. QED
        BY <3>1, NoneAssumption, HasQueueType DEF IInv, HasQueue
    <2> DEFINE q == requests[x][s]
               W == WokenLoops(x, s)
    <2>2. loop[g].on = x /\ Awaited(g) = s
      BY <2>1
    <2>3. \/ /\ ~IsEmpty(q) /\ requests' = [requests EXCEPT ![x][s] = PassOn(q)]
             /\ loop' = [Wake(WokenBy(q)) EXCEPT ![g].pc = "returned"]
          \/ /\ IsEmpty(q) /\ UNCHANGED requests
             /\ loop' = [loop EXCEPT ![g].pc = "returned"]
      BY <1>1, <1>3, <2>1 DEF HandleCancelled
    <2> DEFINE V == WokenLoops(x, s)'
    <2>4. q \in Queue(Calls, Sessions) /\ Backed(q, W)
      BY <1>1, <2>1 DEF LoopsAwake
    <2>5. \A k \in Sessions : loop[k].pc = "waiting" /\ loop[k].on = x /\ Awaited(k) = s
              => Listed(q, k)
      BY DEF LoopsAwake
    <2>6. \A p \in WokenBy(q) :
             /\ p \in Sessions /\ loop[p].pc = "waiting" /\ loop[p].on = x /\ Awaited(p) = s
             /\ p \notin W
      BY <2>1, WokenWaited
    <2>7. CASE ~IsEmpty(q)
      <3>1. /\ requests' = [requests EXCEPT ![x][s] = PassOn(q)]
            /\ loop' = [Wake(WokenBy(q)) EXCEPT ![g].pc = "returned"]
        BY <2>3, <2>7
      <3>2. /\ requests'[x][s] = PassOn(q)
            /\ \A y \in Sessions, t \in Services :
                  ~(y = x /\ t = s) => requests'[y][t] = requests[y][t]
        BY <1>1, <2>1, <3>1
      <3> HIDE DEF q
      <3>3. /\ loop'[g].pc = "returned"
            /\ \A k \in Sessions \ {g} :
                 /\ k \notin WokenBy(q) => loop'[k] = loop[k]
                 /\ k \in WokenBy(q) => loop'[k] = [loop[k] EXCEPT !.pc = "woken"]
        <4>1. g \notin WokenBy(q)
          BY <1>1, <2>6
        <4>2. QED
          BY <1>1, <3>1, <4>1 DEF Wake, Loop
      <3>4. \A k \in WokenBy(q) :
               /\ loop'[k].pc = "woken" /\ loop'[k].on = loop[k].on
               /\ loop'[k].store = loop[k].store
        <4>1. \A k \in WokenBy(q) : k \in Sessions \ {g}
          BY <1>1, <2>6
        <4>2. \A k \in WokenBy(q) :
                 loop[k] \in Loop /\ loop'[k] = [loop[k] EXCEPT !.pc = "woken"]
          BY <1>1, <3>3, <4>1
        <4>3. QED
          BY <4>2 DEF Loop
      <3>5. (W \ {g}) \cup WokenBy(q) \subseteq V
        <4>1. \A k \in WokenBy(q) : Awaited(k)' = s
          BY <1>1, <2>6, <3>4 DEF Awaited
        <4>2. WokenBy(q) \subseteq V
          BY <2>6, <3>4, <4>1 DEF WokenLoops
        <4>3. W \ {g} \subseteq V
          BY <1>1, <2>6, <3>3 DEF WokenLoops, Awaited
        <4>4. QED
          BY <4>2, <4>3
      <3>6. Backed(PassOn(q), V)
        <4>1. WokenBy(q) \cap W = {}
          BY <2>6
        <4> HIDE DEF W, V
        <4>2. QED
          BY <2>4, <2>7, <3>5, <4>1, BackedPassOn
      <3>7. \A k \in Sessions :
              /\ loop'[k].pc = "waiting" =>
                    /\ loop'[k] = loop[k]
                    /\ loop[k].on = x /\ Awaited(k) = s => Listed(PassOn(q), k)
              /\ loop[k].pc \in {"woken", "cancelled"} /\ loop[k].on # None
                 /\ ~(loop[k].on = x /\ Awaited(k) = s) => loop'[k] = loop[k]
        <4>1. \A k \in Sessions : loop'[k].pc = "waiting" => k # g /\ k \notin WokenBy(q)
          BY <3>3, <3>4
        <4>2. \A k \in Sessions : Listed(q, k) /\ k \notin WokenBy(q) => Listed(PassOn(q), k)
          BY <2>4, <2>7, ListedPassOn
        <4>3. QED
          BY <2>2, <2>5, <2>6, <3>3, <4>1, <4>2
      <3>8. QED
        BY <1>1, <2>1, <3>2, <3>6, <3>7, OneQueue
    <2>8. CASE IsEmpty(q)
      <3>1. loop' = [loop EXCEPT ![g].pc = "returned"] /\ UNCHANGED requests
        BY <2>3, <2>8
      <3>2. loop'[g].pc = "returned" /\ \A k \in Sessions \ {g} : loop'[k] = loop[k]
        BY <1>1, <3>1 DEF Loop
      <3>3. Backed(requests'[x][s], V)
        BY <2>8, <3>1, BackedEmpty DEF IsEmpty
      <3>4. \A k \in Sessions :
              /\ loop'[k].pc = "waiting" =>
                    /\ loop'[k] = loop[k]
                    /\ loop[k].on = x /\ Awaited(k) = s => Listed(requests'[x][s], k)
              /\ loop[k].pc \in {"woken", "cancelled"} /\ loop[k].on # None
                 /\ ~(loop[k].on = x /\ Awaited(k) = s) => loop'[k] = loop[k]
        BY <2>2, <2>5, <3>1, <3>2
      <3>5. QED
        BY <1>1, <2>1, <3>1, <3>3, <3>4, OneQueue
    <2>9. QED
      BY <2>7, <2>8
  <1>4. QED
    BY <1>2, <1>3

LEMMA StartLoopsAwake ==
    ASSUME IInv, LoopsAwake, NEW r \in Ids, NEW l \in ServiceLists, Start(r, l)
    PROVE  LoopsAwake'
  <1>1. PICK g \in Sessions :
           /\ loop[g].pc = "none" /\ loop' = [loop EXCEPT ![g].pc = "created"]
           /\ launch' = [launch EXCEPT ![g] = [id |-> r, services |-> l]]
           /\ UNCHANGED requests
    BY DEF Start
  <1>2. /\ loop'[g].pc = "created"
        /\ \A k \in Sessions \ {g} : loop'[k] = loop[k] /\ launch'[k] = launch[k]
    BY <1>1 DEF IInv, TypeOK, Loop
  <1>3. QED
    BY <1>1, <1>2, LoopsFrame

LEMMA RoundEndsLoopsAwake ==
    ASSUME IInv, LoopsAwake, NEW g \in Sessions, loop[g].pc \in {"forwarding", "rejecting"},
           loop' = [loop EXCEPT ![g].pc = "failed"], UNCHANGED <<launch, requests>>
    PROVE  LoopsAwake'
  <1>1. loop'[g].pc = "failed" /\ \A k \in Sessions \ {g} : loop'[k] = loop[k]
    BY DEF IInv, TypeOK, Loop
  <1>2. QED
    BY <1>1, LoopsFrame

LEMMA LengthsMoved ==
    ASSUME IInv, NEW x \in Sessions, NEW s \in Services, Kept(x, s) \/ Popped(x, s),
           requests' \in [Sessions -> [Services -> Queue(Calls, Sessions)]]
    PROVE  /\ Len(requests[x][s].items) \in Nat /\ Len(requests'[x][s].items) \in Nat
           /\ Len(requests'[x][s].items) <= Len(requests[x][s].items)
           /\ Popped(x, s) => Len(requests'[x][s].items) < Len(requests[x][s].items)
  <1> DEFINE m == Len(requests[x][s].items)
             n == Len(requests'[x][s].items)
  <1>1. requests[x][s] \in Queue(Calls, Sessions) /\ requests'[x][s] \in Queue(Calls, Sessions)
    BY DEF IInv, TypeOK
  <1>2. requests[x][s].items \in Seq(Calls) /\ requests'[x][s].items \in Seq(Calls)
    BY <1>1 DEF Queue
  <1>3. /\ m \in Nat /\ DOMAIN requests[x][s].items = 1 .. m
        /\ n \in Nat /\ DOMAIN requests'[x][s].items = 1 .. n
    BY <1>2, LenProperties
  <1> HIDE DEF m, n
  <1>4. Kept(x, s) => n <= m
    <2>1. Kept(x, s) => \A i \in 1 .. n : i \in 1 .. m
      BY <1>3 DEF Kept
    <2>2. QED
      BY <1>3, <2>1
  <1>5. Popped(x, s) => n < m
    <2>1. Popped(x, s) => 1 \in 1 .. m /\ \A i \in 1 .. n : i + 1 \in 1 .. m
      BY <1>3 DEF Popped
    <2>2. n = 0 \/ n \in 1 .. n
      BY <1>3
    <2>3. QED
      BY <1>3, <2>1, <2>2
  <1>6. QED
    BY <1>3, <1>4, <1>5 DEF m, n

(* A woken loop that runs takes from the queue it was woken at, if there   *)
(* is anything to take.                                                    *)
LEMMA WokenTakes ==
    ASSUME IInv, NEW g \in Sessions, loop[g].pc = "woken", Collect(g, loop[g].store)
    PROVE  \/ IsEmpty(requests[loop[g].on][Awaited(g)])
           \/ Popped(loop[g].on, Awaited(g))
  <1>1. /\ loop[g].store \in Seq(Calls) /\ Len(loop[g].store) \in Nat
        /\ Len(launch[g].services) \in Nat
    BY StoreType
  <1>2. /\ loop[g].on # None /\ Len(loop[g].store) < Len(launch[g].services)
        /\ Awaited(g) \in ServicesOf(loop[g].on)
    BY DEF IInv, LoopInv
  <1>3. PICK n \in Len(loop[g].store) + 1 .. Len(launch[g].services) + 1 :
           /\ EndsAt(g, n)
           /\ \A i \in Len(loop[g].store) + 1 .. n - 1 :
                 Popped(Source(g, i), launch[g].services[i])
    <2>1. loop[g].pc # "none" /\ Len(loop[g].store) <= Len(launch[g].services)
      BY <1>1, <1>2
    <2> DEFINE Found(store) == \E n \in Len(store) + 1 .. Len(launch[g].services) + 1 :
                 /\ EndsAt(g, n)
                 /\ \A i \in Len(store) + 1 .. n - 1 : Popped(Source(g, i), launch[g].services[i])
    <2>2. \A store \in Seq(Calls) : Collect(g, store) /\ Len(store) <= Len(launch[g].services)
                                      => Found(store)
      BY <2>1, CollectMoves
    <2>3. Found(loop[g].store)
      <3> HIDE DEF Found
      <3>1. QED
        BY <1>1, <2>1, <2>2
    <2>4. QED
      BY <2>3
  <1>4. PICK m : m = Len(loop[g].store) + 1
    OBVIOUS
  <1>5. Source(g, m) = loop[g].on /\ launch[g].services[m] = Awaited(g)
    BY <1>4 DEF Source, Awaited
  <1>6. CASE n = m
    <2>1. m # Len(launch[g].services) + 1
      BY <1>1, <1>2, <1>4
    <2>2. HasQueue(Source(g, m), launch[g].services[m])
      BY <1>2, <1>5 DEF HasQueue
    <2>3. QED
      BY <1>3, <1>5, <1>6, <2>1, <2>2 DEF EndsAt
  <1>7. CASE n # m
    <2>1. m \in Len(loop[g].store) + 1 .. n - 1
      BY <1>1, <1>3, <1>4, <1>7
    <2>2. QED
      BY <1>3, <1>5, <2>1
  <1>8. QED
    BY <1>6, <1>7

LEMMA CollectLoopsAwake ==
    ASSUME IInv, LoopsAwake, UNCHANGED launch, NEW g \in Sessions, NEW store \in Seq(Calls),
           loop[g].pc \in {"created", "woken", "forwarding", "rejecting"},
           loop[g].pc = "woken" => store = loop[g].store,
           Len(store) <= Len(launch[g].services), Collect(g, store)
    PROVE  LoopsAwake'
  <1> DEFINE awaited == launch[g].services[Len(loop'[g].store) + 1]
             Joined(y, t) == loop'[g].pc = "waiting" /\ y = loop'[g].on /\ t = awaited
  <1>1. /\ requests' \in [Sessions -> [Services -> Queue(Calls, Sessions)]]
        /\ \A h \in Sessions \ {g} : loop'[h] = loop[h]
        /\ loop'[g].pc = "waiting" => loop'[g].on \in Sessions
        /\ \A y \in Sessions, t \in Services :
              requests'[y][t].getters = IF Joined(y, t)
                                        THEN Append(requests[y][t].getters, g)
                                        ELSE requests[y][t].getters
    BY CollectEffect
  <1>2. \A y \in Sessions, t \in Services : Kept(y, t) \/ Popped(y, t)
    BY CollectMoves
  <1>3. loop'[g].pc = "waiting" => awaited \in Services
    <2>1. loop'[g].pc = "waiting" =>
             loop'[g].on \in Sessions /\ awaited \in ServicesOf(loop'[g].on)
      BY CollectEffect
    <2>2. QED
      BY <2>1, NoneAssumption, HasQueueType DEF IInv, HasQueue
  <1>4. \A y \in Sessions, t \in Services :
           /\ Len(requests[y][t].items) \in Nat /\ Len(requests'[y][t].items) \in Nat
           /\ Len(requests'[y][t].items) <= Len(requests[y][t].items)
           /\ Popped(y, t) => Len(requests'[y][t].items) < Len(requests[y][t].items)
    BY <1>1, <1>2, LengthsMoved
  <1>5. loop'[g].pc = "waiting" => IsEmpty(requests[loop'[g].on][awaited])
    <2>1. PICK n \in Len(store) + 1 .. Len(launch[g].services) + 1 :
             Len(loop'[g].store) = n - 1 /\ EndsAt(g, n)
      BY CollectMoves
    <2>2. n = Len(loop'[g].store) + 1
      <3>1. Len(store) \in Nat /\ Len(launch[g].services) \in Nat
        BY StoreType, LenProperties
      <3>2. QED
        BY <2>1, <3>1
    <2>3. QED
      BY <2>1, <2>2 DEF EndsAt
  <1>6. \A y \in Sessions, t \in Services :
           loop[g].pc = "woken" /\ loop[g].on = y /\ Awaited(g) = t =>
              IsEmpty(requests[y][t]) \/ Popped(y, t)
    BY WokenTakes
  <1> HIDE DEF awaited
  <1>7. ASSUME NEW y \in Sessions, NEW t \in Services
        PROVE  Backed(requests[y][t], WokenLoops(y, t))'
    <2> DEFINE q == requests[y][t]
               r == requests'[y][t]
               W == WokenLoops(y, t)
               V == WokenLoops(y, t)'
    <2>1. /\ q \in Queue(Calls, Sessions) /\ r \in Queue(Calls, Sessions) /\ Backed(q, W)
          /\ q.items = <<>> <=> Len(q.items) = 0
          /\ r.items = <<>> <=> Len(r.items) = 0
      <3>1. q \in Queue(Calls, Sessions) /\ r \in Queue(Calls, Sessions) /\ Backed(q, W)
        BY <1>1 DEF IInv, TypeOK, LoopsAwake
      <3>2. QED
        BY <3>1, QueueLengths
    <2>2. W \ {g} \subseteq V
      BY <1>1 DEF WokenLoops, Awaited
    <2>3. g \in W => IsEmpty(q) \/ Len(r.items) < Len(q.items)
      BY <1>4, <1>6 DEF WokenLoops
    <2>4. /\ Len(q.items) \in Nat /\ Len(r.items) \in Nat /\ Len(r.items) <= Len(q.items)
          /\ r.getters = IF Joined(y, t) THEN Append(q.getters, g) ELSE q.getters
          /\ Joined(y, t) => IsEmpty(q)
      BY <1>1, <1>4, <1>5
    <2> HIDE DEF q, r, W, V, Joined
    <2>5. CASE IsEmpty(q)
      <3>1. r.items = <<>>
        BY <2>1, <2>4, <2>5 DEF IsEmpty
      <3>2. QED
        BY <3>1, BackedEmpty DEF r, V, Backed
    <2>6. CASE ~IsEmpty(q)
      <3>1. r.getters = q.getters
        BY <2>4, <2>6
      <3>2. ASSUME q.getters # <<>> PROVE Backs(Len(r.items), V)
        <4>1. Backs(Len(q.items), W) /\ Len(q.items) # 0
          BY <2>1, <2>6, <3>2 DEF Backed, IsEmpty
        <4>2. CASE g \in W
          <5>1. Backs(Len(q.items) - 1, W \ {g})
            BY <2>4, <4>1, BacksLess
          <5>2. Len(q.items) - 1 \in Nat /\ Len(r.items) <= Len(q.items) - 1
            BY <2>3, <2>4, <2>6, <4>1, <4>2
          <5>3. QED
            BY <2>2, <2>4, <5>1, <5>2, BacksFewer
        <4>3. CASE g \notin W
          <5>1. W \subseteq V
            BY <2>2, <4>3
          <5>2. QED
            BY <2>4, <4>1, <5>1, BacksFewer
        <4>4. QED
          BY <4>2, <4>3
      <3>3. Backed(r, V)
        BY <3>1, <3>2 DEF Backed
      <3>4. QED
        BY <3>3 DEF r, V, Backed
    <2>7. QED
      BY <2>5, <2>6
  <1>8. ASSUME NEW k \in Sessions, loop'[k].pc = "waiting"
        PROVE  Listed(requests[loop[k].on][Awaited(k)], k)'
    <2>1. \A y \in Sessions, t \in Services : requests[y][t].getters \in Seq(Sessions)
      BY DEF IInv, TypeOK, Queue
    <2>2. CASE k = g
      <3>1. PICK y \in Sessions, t \in Services : y = loop'[g].on /\ t = awaited
        BY <1>1, <1>3, <1>8, <2>2
      <3>2. requests'[y][t].getters = Append(requests[y][t].getters, g)
        BY <1>1, <1>8, <2>2, <3>1
      <3>3. \E i \in DOMAIN requests'[y][t].getters : requests'[y][t].getters[i] = g
        <4>1. PICK w \in Seq(Sessions) : w = requests[y][t].getters
          BY <2>1
        <4>2. \E i \in DOMAIN Append(w, g) : Append(w, g)[i] = g
          BY ListedBlock
        <4>3. QED
          BY <3>2, <4>1, <4>2
      <3>4. QED
        BY <2>2, <3>1, <3>3 DEF Listed, Awaited, awaited
    <2>3. CASE k # g
      <3>1. loop'[k] = loop[k] /\ launch'[k] = launch[k]
        BY <1>1, <2>3
      <3>2. PICK y \in Sessions, t \in Services : y = loop[k].on /\ t = Awaited(k)
        <4>1. loop[k].on \in Sessions /\ Awaited(k) \in ServicesOf(loop[k].on)
          BY <1>8, <3>1 DEF IInv, TypeOK, LoopInv, Loop
        <4>2. QED
          BY <4>1, NoneAssumption, HasQueueType DEF IInv, HasQueue
      <3>3. PICK i \in DOMAIN requests[y][t].getters : requests[y][t].getters[i] = k
        BY <1>8, <3>1, <3>2 DEF LoopsAwake, Listed
      <3>4. \E j \in DOMAIN requests'[y][t].getters : requests'[y][t].getters[j] = k
        <4>1. CASE Joined(y, t)
          <5>1. requests'[y][t].getters = Append(requests[y][t].getters, g)
            BY <1>1, <4>1
          <5>2. PICK w \in Seq(Sessions) : w = requests[y][t].getters
            BY <2>1
          <5>3. \A d \in DOMAIN w : \E j \in DOMAIN Append(w, g) : Append(w, g)[j] = w[d]
            BY SMTT(30), ListedBlock
          <5>4. QED
            BY <3>3, <5>1, <5>2, <5>3
        <4>2. CASE ~Joined(y, t)
          BY <1>1, <3>3, <4>2
        <4>3. QED
          BY <4>1, <4>2
      <3>5. QED
        BY <3>1, <3>2, <3>4 DEF Listed, Awaited
    <2>4. QED
      BY <2>2, <2>3
  <1>9. QED
    BY <1>7, <1>8 DEF LoopsAwake

-----------------------------------------------------------------------------
(* The handlers and the response queues.                                   *)

LEMMA HandlersFrame ==
    ASSUME HandlersAwake, UNCHANGED <<responses, handler>>
    PROVE  HandlersAwake'
  BY DEF HandlersAwake, Backed, WokenHandlers, Listed

(* A handler looks at the response queue of its call and finds nothing, or *)
(* takes a response.                                                       *)
LEMMA LooksAwake ==
    ASSUME IInv, HandlersAwake, NEW q \in Sessions, NEW s \in Services, NEW c \in Calls,
           handler[c].pc \in {"idle", "woken"},
           handler[c].pc = "woken" => handler[c].on = q /\ handler[c].sender = s,
           \A d \in Calls \ {c} : handler'[d] = handler[d],
           \/ /\ IsEmpty(responses[q][s])
              /\ responses' = [responses EXCEPT ![q][s] = BlockOn(responses[q][s], c)]
              /\ handler'[c].pc = "waiting" /\ handler'[c].on = q /\ handler'[c].sender = s
           \/ /\ ~IsEmpty(responses[q][s])
              /\ responses' = [responses EXCEPT ![q][s] = GetNowait(responses[q][s])]
              /\ handler'[c].pc = "answered"
    PROVE  HandlersAwake'
  <1>1. responses \in [Sessions -> [Services -> Queue(Answer, Calls)]]
    BY DEF IInv, TypeOK
  <1>2. \A y \in Sessions, t \in Services :
           ~(y = q /\ t = s) => responses'[y][t] = responses[y][t]
    BY <1>1
  <1>3. \A d \in Calls : handler[d].pc = "waiting" =>
           handler[d].on \in Sessions /\ handler[d].sender \in Services
    <2>1. \A d \in Calls : handler[d] \in Handler
      BY DEF IInv, TypeOK
    <2>2. QED
      BY <2>1 DEF IInv, HandlerInv, Handler
  <1>4. ASSUME NEW y \in Sessions, NEW t \in Services, ~(y = q /\ t = s)
        PROVE  Backed(responses[y][t], WokenHandlers(y, t))'
    <2> DEFINE r == responses[y][t]
               W == WokenHandlers(y, t)
               V == WokenHandlers(y, t)'
    <2>1. r \in Queue(Answer, Calls) /\ Backed(r, W) /\ responses'[y][t] = r
      BY <1>1, <1>2, <1>4 DEF HandlersAwake
    <2>2. W \subseteq V
      BY <1>4 DEF WokenHandlers
    <2> HIDE DEF r, W, V
    <2>3. Backed(r, V)
      BY <2>1, <2>2, BackedKeeps
    <2>4. QED
      BY <2>1, <2>3 DEF V, Backed
  <1> DEFINE b == responses[q][s]
             W == WokenHandlers(q, s)
             V == WokenHandlers(q, s)'
  <1>5. b \in Queue(Answer, Calls) /\ b.getters \in Seq(Calls) /\ Backed(b, W)
    BY <1>1 DEF HandlersAwake, Queue
  <1>6. \A d \in Calls \ {c} : handler[d].pc = "waiting" /\ handler[d].on = q /\ handler[d].sender = s
           => Listed(b, d)
    BY DEF HandlersAwake
  <1>7. \A d \in Calls \ {c} : handler'[d].pc = "waiting" /\ ~(handler[d].on = q /\ handler[d].sender = s)
           => Listed(responses'[handler'[d].on][handler'[d].sender], d)
    <2>1. ASSUME NEW d \in Calls \ {c}, handler'[d].pc = "waiting",
                 ~(handler[d].on = q /\ handler[d].sender = s)
          PROVE  Listed(responses'[handler'[d].on][handler'[d].sender], d)
      <3>1. handler'[d] = handler[d] /\ handler[d].pc = "waiting"
        BY <2>1
      <3>2. Listed(responses[handler[d].on][handler[d].sender], d)
        BY <3>1 DEF HandlersAwake
      <3>3. responses'[handler[d].on][handler[d].sender] = responses[handler[d].on][handler[d].sender]
        BY <1>2, <1>3, <2>1, <3>1
      <3>4. QED
        BY <3>1, <3>2, <3>3
    <2>2. QED
      BY <2>1
  <1>8. ASSUME NEW r, responses'[q][s] = r, Backed(r, V),
               handler'[c].pc = "waiting" => handler'[c].on = q /\ handler'[c].sender = s /\ Listed(r, c),
               \A d \in Calls \ {c} : Listed(b, d) => Listed(r, d)
        PROVE  HandlersAwake'
    <2>1. ASSUME NEW y \in Sessions, NEW t \in Services
          PROVE  Backed(responses[y][t], WokenHandlers(y, t))'
      <3>1. CASE y = q /\ t = s
        BY <1>8, <3>1 DEF Backed
      <3>2. QED
        BY <1>4, <3>1
    <2>2. ASSUME NEW d \in Calls, handler'[d].pc = "waiting"
          PROVE  Listed(responses'[handler'[d].on][handler'[d].sender], d)
      <3>1. CASE d = c
        BY <1>8, <2>2, <3>1
      <3>2. CASE d # c /\ handler[d].on = q /\ handler[d].sender = s
        <4>1. handler'[d] = handler[d] /\ Listed(b, d)
          BY <1>6, <2>2, <3>2
        <4> HIDE DEF b
        <4>2. QED
          BY <1>8, <3>2, <4>1
      <3>3. QED
        BY <1>7, <2>2, <3>1, <3>2
    <2>3. QED
      BY <2>1, <2>2 DEF HandlersAwake, Listed
  <1>9. CASE IsEmpty(b)
    <2> DEFINE r == BlockOn(b, c)
    <2>1. responses'[q][s] = r /\ handler'[c].pc = "waiting"
          /\ handler'[c].on = q /\ handler'[c].sender = s
      BY <1>1, <1>9
    <2> HIDE DEF b
    <2>2. r.items = b.items /\ r.getters = Append(b.getters, c)
      BY <1>5, BlockOnType
    <2> HIDE DEF r
    <2>3. Backed(r, V)
      BY <1>9, <2>2, BackedEmpty DEF IsEmpty
    <2>4. Listed(r, c) /\ \A d \in Calls : Listed(b, d) => Listed(r, d)
      <3>1. PICK w \in Seq(Calls) : w = b.getters
        BY <1>5
      <3>2. /\ \E i \in DOMAIN Append(w, c) : Append(w, c)[i] = c
            /\ \A k \in DOMAIN w : \E i \in DOMAIN Append(w, c) : Append(w, c)[i] = w[k]
        BY SMTT(30), ListedBlock
      <3>3. QED
        BY <2>2, <3>1, <3>2 DEF Listed
    <2>5. QED
      BY <1>8, <2>1, <2>3, <2>4
  <1>10. CASE ~IsEmpty(b)
    <2> DEFINE r == GetNowait(b)
    <2>1. responses'[q][s] = r /\ handler'[c].pc = "answered"
      BY <1>1, <1>10
    <2>2. W \ {c} \subseteq V
      BY DEF WokenHandlers
    <2> HIDE DEF b, W, V
    <2>3. Backed(r, V)
      BY <1>5, <1>10, <2>2, BackedTake
    <2>4. r.getters = b.getters
      BY <1>5, <1>10, GetNowaitType
    <2> HIDE DEF r
    <2>5. \A d \in Calls : Listed(b, d) => Listed(r, d)
      BY <2>4 DEF Listed
    <2>6. QED
      BY <1>8, <2>1, <2>3, <2>5
  <1>11. QED
    BY <1>9, <1>10

LEMMA SubmitHandlersAwake ==
    ASSUME IInv, HandlersAwake, NEW c \in Calls, NEW g \in Sessions, NEW s \in Services,
           NEW x \in Contents, NEW h \in Hosts, Submit(c, g, s, x, h)
    PROVE  HandlersAwake'
  <1> DEFINE call == [pc |-> "error", on |-> None, origin |-> g, sender |-> s,
                      content |-> x, host |-> h, answer |-> NoAnswer]
  <1>1. /\ handler \in [Calls -> Handler] /\ handler[c].pc = "idle" /\ Started(g)
        /\ responses \in [Sessions -> [Services -> Queue(Answer, Calls)]]
    BY DEF IInv, TypeOK, Submit
  <1>2. CASE ~HasQueue(registry[launch[g].id], s)
    <2>1. handler' = [handler EXCEPT ![c] = call] /\ UNCHANGED responses
      BY <1>2 DEF Submit
    <2>2. handler'[c].pc = "error" /\ \A d \in Calls \ {c} : handler'[d] = handler[d]
      BY <1>1, <2>1
    <2>4. ASSUME NEW y \in Sessions, NEW t \in Services
          PROVE  Backed(responses[y][t], WokenHandlers(y, t))'
      <3> DEFINE r == responses[y][t]
                 W == WokenHandlers(y, t)
                 V == WokenHandlers(y, t)'
      <3>1. r \in Queue(Answer, Calls) /\ Backed(r, W)
        BY <1>1 DEF HandlersAwake
      <3>3. W \subseteq V
        BY <1>1, <2>2 DEF WokenHandlers
      <3> HIDE DEF r, W, V
      <3>2. Backed(r, V)
        BY <3>1, <3>3, BackedKeeps
      <3>4. QED
        BY <2>1, <3>2 DEF r, V, Backed
    <2>5. ASSUME NEW d \in Calls, handler'[d].pc = "waiting"
          PROVE  Listed(responses'[handler'[d].on][handler'[d].sender], d)
      BY <2>1, <2>2, <2>5 DEF HandlersAwake
    <2>6. QED
      BY <2>4, <2>5 DEF HandlersAwake, Listed
  <1>3. CASE HasQueue(registry[launch[g].id], s)
    <2>1. PICK q \in Sessions : q = registry[launch[g].id]
      BY <1>1, <1>3, RegistryType DEF HasQueue
    <2>2. CASE IsEmpty(responses[q][s])
      <3>1. /\ handler' = [handler EXCEPT ![c] = [call EXCEPT !.pc = "waiting", !.on = q]]
            /\ responses' = [responses EXCEPT ![q][s] = BlockOn(responses[q][s], c)]
        BY <1>1, <1>3, <2>1, <2>2 DEF Submit
      <3>2. /\ handler'[c].pc = "waiting" /\ handler'[c].on = q /\ handler'[c].sender = s
            /\ \A d \in Calls \ {c} : handler'[d] = handler[d]
        BY <1>1, <3>1
      <3>3. QED
        BY <1>1, <2>2, <3>1, <3>2, LooksAwake
    <2>3. CASE ~IsEmpty(responses[q][s])
      <3>1. /\ handler' = [handler EXCEPT ![c] =
                  [call EXCEPT !.pc = "answered", !.on = q, !.answer = Head(responses[q][s].items)]]
            /\ responses' = [responses EXCEPT ![q][s] = GetNowait(responses[q][s])]
        BY <1>1, <1>3, <2>1, <2>3 DEF Submit
      <3>2. handler'[c].pc = "answered" /\ \A d \in Calls \ {c} : handler'[d] = handler[d]
        BY <1>1, <3>1
      <3>3. QED
        BY <1>1, <2>3, <3>1, <3>2, LooksAwake
    <2>4. QED
      BY <2>2, <2>3
  <1>4. QED
    BY <1>2, <1>3

LEMMA ResumeHandlerAwake ==
    ASSUME IInv, HandlersAwake, NEW c \in Calls, ResumeHandler(c)
    PROVE  HandlersAwake'
  <1>1. /\ handler \in [Calls -> Handler] /\ handler[c] \in Handler /\ handler[c].pc = "woken"
        /\ responses \in [Sessions -> [Services -> Queue(Answer, Calls)]]
    BY DEF IInv, TypeOK, ResumeHandler
  <1>2. PICK q \in Sessions, s \in Services : q = handler[c].on /\ s = handler[c].sender
    BY <1>1 DEF IInv, HandlerInv, Handler
  <1>3. CASE IsEmpty(responses[q][s])
    <2>1. /\ handler' = [handler EXCEPT ![c].pc = "waiting"]
          /\ responses' = [responses EXCEPT ![q][s] = BlockOn(responses[q][s], c)]
      BY <1>1, <1>2, <1>3 DEF ResumeHandler
    <2>2. /\ handler'[c].pc = "waiting" /\ handler'[c].on = q /\ handler'[c].sender = s
          /\ \A d \in Calls \ {c} : handler'[d] = handler[d]
      BY <1>1, <1>2, <2>1 DEF Handler
    <2>3. QED
      BY <1>1, <1>2, <1>3, <2>1, <2>2, LooksAwake
  <1>4. CASE ~IsEmpty(responses[q][s])
    <2>1. /\ handler' = [handler EXCEPT ![c].pc = "answered",
                                        ![c].answer = Head(responses[q][s].items)]
          /\ responses' = [responses EXCEPT ![q][s] = GetNowait(responses[q][s])]
      BY <1>1, <1>2, <1>4 DEF ResumeHandler
    <2>2. handler'[c].pc = "answered" /\ \A d \in Calls \ {c} : handler'[d] = handler[d]
      BY <1>1, <2>1 DEF Handler
    <2>3. QED
      BY <1>1, <1>2, <1>4, <2>1, <2>2, LooksAwake
  <1>5. QED
    BY <1>3, <1>4

(* Each response that is put wakes the handler that has waited longest.    *)
LEMMA DeliverResponseAwake ==
    ASSUME IInv, HandlersAwake, NEW g \in Sessions, DeliverResponse(g)
    PROVE  HandlersAwake'
  <1>0. loop[g].pc \in {"forwarding", "rejecting"}
    BY DEF DeliverResponse
  <1>1. PICK target : target = registry[launch[g].id]
    OBVIOUS
  <1>2. PICK R : R = Recipients(g)
    OBVIOUS
  <1>3. PICK a \in Answer : a = Response(g)
    BY <1>0, RecipientsType
  <1> DEFINE woken == UNION {WokenBy(responses[target][s]) : s \in R}
  <1>4. /\ responses' = [x \in Sessions |-> [s \in Services |->
             IF x = target /\ s \in R THEN PutNowait(responses[x][s], a) ELSE responses[x][s]]]
        /\ handler' = [c \in Calls |->
             IF c \in woken THEN [handler[c] EXCEPT !.pc = "woken"] ELSE handler[c]]
    BY <1>1, <1>2, <1>3 DEF DeliverResponse
  <1>5. \A s \in R : target \in Sessions /\ s \in Services
    BY <1>0, <1>1, <1>2, RecipientsType
  <1>6. /\ \A y \in Sessions, t \in Services : responses[y][t] \in Queue(Answer, Calls)
        /\ \A c \in Calls : handler[c] \in Handler
    BY DEF IInv, TypeOK
  <1>7. \A s \in R : \A p \in WokenBy(responses[target][s]) :
           /\ p \in Calls /\ handler[p].pc = "waiting"
           /\ handler[p].on = target /\ handler[p].sender = s
    <2>1. ASSUME NEW s \in R, NEW p \in WokenBy(responses[target][s])
          PROVE  /\ p \in Calls /\ handler[p].pc = "waiting"
                 /\ handler[p].on = target /\ handler[p].sender = s
      <3>1. target \in Sessions /\ s \in Services /\ responses[target][s] \in Queue(Answer, Calls)
        BY <1>5, <1>6
      <3>2. /\ p \in Calls /\ 1 \in DOMAIN responses[target][s].getters
            /\ p = responses[target][s].getters[1]
        BY <3>1, WokenByFirst
      <3>3. QED
        BY <3>1, <3>2 DEF IInv, HandlerGetters
    <2>2. QED
      BY <2>1
  <1>8. \A c \in Calls :
           /\ c \notin woken => handler'[c] = handler[c]
           /\ c \in woken => /\ handler'[c].pc = "woken" /\ handler'[c].on = handler[c].on
                             /\ handler'[c].sender = handler[c].sender
    <2> HIDE DEF woken
    <2>1. QED
      BY <1>4, <1>6 DEF Handler
  <1>9. ASSUME NEW y \in Sessions, NEW t \in Services
        PROVE  /\ Backed(responses[y][t], WokenHandlers(y, t))'
               /\ \A c \in Calls \ woken : Listed(responses[y][t], c) => Listed(responses'[y][t], c)
    <2> DEFINE q == responses[y][t]
               W == WokenHandlers(y, t)
               V == WokenHandlers(y, t)'
    <2>1. q \in Queue(Answer, Calls) /\ Backed(q, W)
      BY <1>6 DEF HandlersAwake
    <2>2. W \subseteq V
      <3>1. \A c \in W : c \notin woken
        BY <1>7 DEF WokenHandlers
      <3> HIDE DEF woken
      <3>2. QED
        BY <1>8, <3>1 DEF WokenHandlers
    <2>3. CASE y = target /\ t \in R
      <3>1. responses'[y][t] = PutNowait(q, a)
        BY <1>4, <2>3
      <3>2. /\ \A p \in WokenBy(q) : /\ p \in woken /\ p \in Calls /\ handler[p].pc = "waiting"
                                     /\ handler[p].on = y /\ handler[p].sender = t
        BY <1>7, <2>3
      <3>3. WokenBy(q) \cap W = {}
        BY <3>2 DEF WokenHandlers
      <3>4. WokenBy(q) \subseteq V
        <4> HIDE DEF q, woken
        <4>1. QED
          BY <1>8, <3>2 DEF WokenHandlers
      <3>5. \A c \in Calls \ woken : c \notin WokenBy(q)
        BY <3>2
      <3> HIDE DEF q, W, V, woken
      <3>6. Backed(PutNowait(q, a), V)
        BY <2>1, <2>2, <3>3, <3>4, BackedPut
      <3>7. \A c \in Calls \ woken : Listed(q, c) => Listed(PutNowait(q, a), c)
        BY <2>1, <3>5, ListedPut
      <3>8. QED
        BY <3>1, <3>6, <3>7 DEF q, V, Backed
    <2>4. CASE ~(y = target /\ t \in R)
      <3>1. responses'[y][t] = q
        BY <1>4, <2>4
      <3> HIDE DEF q, W, V, woken
      <3>2. Backed(q, V)
        BY <2>1, <2>2, BackedKeeps
      <3>3. QED
        BY <3>1, <3>2 DEF q, V, Backed
    <2>5. QED
      BY <2>3, <2>4
  <1> HIDE DEF woken
  <1>10. ASSUME NEW c \in Calls, handler'[c].pc = "waiting"
         PROVE  Listed(responses'[handler'[c].on][handler'[c].sender], c)
    <2>1. c \notin woken /\ handler'[c] = handler[c] /\ handler[c].pc = "waiting"
      BY <1>8, <1>10
    <2>2. PICK y \in Sessions, t \in Services : y = handler[c].on /\ t = handler[c].sender
      BY <1>6, <2>1 DEF IInv, HandlerInv, Handler
    <2>3. Listed(responses[y][t], c)
      BY <2>1, <2>2 DEF HandlersAwake
    <2>4. Listed(responses'[y][t], c)
      BY <1>9, <2>1, <2>3
    <2>5. QED
      BY <2>1, <2>2, <2>4
  <1>11. QED
    BY <1>9, <1>10 DEF HandlersAwake, Listed

-----------------------------------------------------------------------------
(* The theorem. *)

LEMMA NextAwake == AwakeInv /\ [Next]_vars => AwakeInv'
  <1> SUFFICES ASSUME IInv, LoopsAwake, HandlersAwake, [Next]_vars
               PROVE  LoopsAwake' /\ HandlersAwake'
    BY NextIInv DEF AwakeInv
  <1>1. ASSUME NEW r \in Ids, NEW l \in ServiceLists, Start(r, l)
        PROVE  LoopsAwake' /\ HandlersAwake'
    BY <1>1, StartLoopsAwake, HandlersFrame DEF Start
  <1>2. ASSUME NEW r \in Ids, Stop(r) PROVE LoopsAwake' /\ HandlersAwake'
    BY <1>2, StopLoopsAwake, HandlersFrame DEF Stop
  <1>3. ASSUME NEW c \in Calls, NEW g \in Sessions, NEW s \in Services,
               NEW x \in Contents, NEW h \in Hosts, Submit(c, g, s, x, h)
        PROVE  LoopsAwake' /\ HandlersAwake'
    BY <1>3, SubmitLoopsAwake, SubmitHandlersAwake
  <1>4. ASSUME NEW c \in Calls, ResumeHandler(c) PROVE LoopsAwake' /\ HandlersAwake'
    <2>1. UNCHANGED <<requests, loop, launch>>
      BY <1>4 DEF ResumeHandler
    <2>2. QED
      BY <1>4, <2>1, LoopsFrame, ResumeHandlerAwake
  <1>5. ASSUME NEW g \in Sessions, RunLoop(g) PROVE LoopsAwake' /\ HandlersAwake'
    <2>1. /\ loop[g].pc \in {"created", "woken"} /\ Collect(g, loop[g].store)
          /\ UNCHANGED <<launch, responses, handler>>
      BY <1>5 DEF RunLoop
    <2>2. loop[g].store \in Seq(Calls) /\ Len(loop[g].store) <= Len(launch[g].services)
      <3>1. CASE loop[g].pc = "created"
        BY <3>1, StoreType, EmptySeq DEF IInv, LoopInv
      <3>2. CASE loop[g].pc = "woken"
        BY <3>2, StoreType DEF IInv, LoopInv
      <3>3. QED
        BY <2>1, <3>1, <3>2
    <2>3. QED
      BY <2>1, <2>2, CollectLoopsAwake, HandlersFrame
  <1>6. ASSUME NEW g \in Sessions, DeliverResponse(g) PROVE LoopsAwake' /\ HandlersAwake'
    <2>1. /\ loop[g].pc \in {"forwarding", "rejecting"} /\ UNCHANGED launch
          /\ \/ Collect(g, <<>>)
             \/ loop' = [loop EXCEPT ![g].pc = "failed"] /\ UNCHANGED requests
      BY <1>6 DEF DeliverResponse, NewStore
    <2>2. CASE Collect(g, <<>>)
      <3>1. <<>> \in Seq(Calls) /\ Len(<<>>) = 0 /\ Len(<<>>) <= Len(launch[g].services)
        BY StoreType, EmptySeq
      <3>2. QED
        BY <1>6, <2>1, <2>2, <3>1, CollectLoopsAwake, DeliverResponseAwake
    <2>3. CASE loop' = [loop EXCEPT ![g].pc = "failed"] /\ UNCHANGED requests
      BY <1>6, <2>1, <2>3, RoundEndsLoopsAwake, DeliverResponseAwake
    <2>4. QED
      BY <2>1, <2>2, <2>3
  <1>7. ASSUME NEW g \in Sessions, RoundFails(g) PROVE LoopsAwake' /\ HandlersAwake'
    BY <1>7, RoundEndsLoopsAwake, HandlersFrame DEF RoundFails
  <1>8. ASSUME NEW g \in Sessions, HandleCancelled(g) PROVE LoopsAwake' /\ HandlersAwake'
    BY <1>8, HandleCancelledLoopsAwake, HandlersFrame DEF HandleCancelled
  <1>9. CASE UNCHANGED vars
    BY <1>9, LoopsFrame, HandlersFrame DEF vars
  <1>10. QED
    BY <1>1, <1>2, <1>3, <1>4, <1>5, <1>6, <1>7, <1>8, <1>9 DEF Next

LEMMA InitAwake == Init => AwakeInv
  <1> SUFFICES ASSUME Init PROVE LoopsAwake /\ HandlersAwake
    BY InitIInv DEF AwakeInv
  <1>1. \A x \in Sessions, s \in Services :
           requests[x][s].items = <<>> /\ responses[x][s].items = <<>>
    BY DEF Init, EmptyQueue
  <1>2. LoopsAwake
    BY <1>1, BackedEmpty DEF Init, LoopsAwake
  <1>3. HandlersAwake
    BY <1>1, BackedEmpty DEF Init, HandlersAwake
  <1>4. QED
    BY <1>2, <1>3

(* Somebody who waits at a queue that is not empty is backed. *)
LEMMA BackedAwake ==
    ASSUME NEW Item, NEW Proc, NEW q \in Queue(Item, Proc), NEW p, Listed(q, p),
           NEW W, Backed(q, W), ~IsEmpty(q)
    PROVE  W # {}
  <1>1. q.getters # <<>> /\ Len(q.items) \in Nat \ {0}
    BY QueueLengths DEF Listed, IsEmpty
  <1>2. QED
    BY <1>1, BacksSome DEF Backed

LEMMA AwakeSuffices == ASSUME AwakeInv PROVE NoLostWakeup
  <1>1. IInv /\ LoopsAwake /\ HandlersAwake
    BY DEF AwakeInv
  <1>2. ASSUME NEW g \in Sessions, loop[g].pc = "waiting", ~IsEmpty(requests[loop[g].on][Awaited(g)])
        PROVE  \E h \in Sessions : /\ loop[h].pc \in {"woken", "cancelled"}
                                  /\ loop[h].on = loop[g].on /\ Awaited(h) = Awaited(g)
    <2>1. PICK x \in Sessions, s \in Services : x = loop[g].on /\ s = Awaited(g)
      <3>1. loop[g].on \in Sessions /\ Awaited(g) \in ServicesOf(loop[g].on)
        BY <1>1, <1>2 DEF IInv, TypeOK, LoopInv, Loop
      <3>2. QED
        BY <1>1, <3>1, NoneAssumption, HasQueueType DEF IInv, HasQueue
    <2>2. requests[x][s] \in Queue(Calls, Sessions)
      BY <1>1 DEF IInv, TypeOK
    <2>3. WokenLoops(x, s) # {}
      BY <1>1, <1>2, <2>1, <2>2, BackedAwake DEF LoopsAwake
    <2>4. QED
      BY <2>1, <2>3 DEF WokenLoops
  <1>3. ASSUME NEW c \in Calls, handler[c].pc = "waiting",
               ~IsEmpty(responses[handler[c].on][handler[c].sender])
        PROVE  \E d \in Calls : /\ handler[d].pc = "woken" /\ handler[d].on = handler[c].on
                               /\ handler[d].sender = handler[c].sender
    <2>1. handler[c] \in Handler
      BY <1>1 DEF IInv, TypeOK
    <2>2. PICK x \in Sessions, s \in Services : x = handler[c].on /\ s = handler[c].sender
      BY <1>1, <1>3, <2>1 DEF IInv, HandlerInv, Handler
    <2>3. responses[x][s] \in Queue(Answer, Calls)
      BY <1>1 DEF IInv, TypeOK
    <2>4. WokenHandlers(x, s) # {}
      BY <1>1, <1>3, <2>2, <2>3, BackedAwake DEF HandlersAwake
    <2>5. QED
      BY <2>2, <2>4 DEF WokenHandlers
  <1>4. QED
    BY <1>2, <1>3 DEF NoLostWakeup

(* At the queues of the egress proxy no wake-up is lost: whenever a task   *)
(* or a handler waits at a queue that holds something, another that has    *)
(* been woken is on its way to it, whatever is put, taken out of turn,     *)
(* cancelled or stopped in between (get() in main.py:68 and 76).           *)
THEOREM NoWakeupLost == Spec => []NoLostWakeup
  BY InitAwake, NextAwake, AwakeSuffices, PTL DEF Spec
=============================================================================
