---------------------------- MODULE AsyncioQueue ----------------------------
(***************************************************************************)
(* Python's unbounded asyncio.Queue, as the egress proxy uses it.          *)
(*                                                                         *)
(* A queue is its items and the coroutines ("getters") blocked in get().   *)
(* put() on an unbounded queue never suspends: it appends the item and     *)
(* wakes the getter that has waited longest.  The woken getter is only     *)
(* scheduled; when it runs it looks at the queue again, because a get()    *)
(* that ran in between takes the item without waiting its turn.            *)
(***************************************************************************)
EXTENDS Sequences, Naturals

Queue(Item, Proc) == [items : Seq(Item), getters : Seq(Proc)]

EmptyQueue == [items |-> <<>>, getters |-> <<>>]

IsEmpty(q) == q.items = <<>>

(* Queue.put_nowait: the item joins the end, the first getter leaves the   *)
(* waiting list.                                                           *)
PutNowait(q, x) ==
    [items   |-> Append(q.items, x),
     getters |-> IF q.getters = <<>> THEN <<>> ELSE Tail(q.getters)]

(* Mutant of WokenBy: the future of the getter is never resolved. *)
WakesNobody(q) == {}

(* The getter a put schedules, if there is one. *)
WokenBy(q) == IF q.getters = <<>> THEN {} ELSE {Head(q.getters)}

(* Queue.get_nowait on a queue that is not empty leaves the rest. *)
GetNowait(q) == [q EXCEPT !.items = Tail(@)]

(* Queue.get on an empty queue: the coroutine joins the waiting list. *)
BlockOn(q, p) == [q EXCEPT !.getters = Append(@, p)]

(* The sequence w without its k-th element. *)
Without(w, k) == [i \in 1 .. Len(w) - 1 |-> w[IF i < k THEN i ELSE i + 1]]

(* A cancelled get() leaves the waiting list. *)
Withdraw(q, p) ==
    IF \E i \in DOMAIN q.getters : q.getters[i] = p
    THEN [q EXCEPT !.getters = Without(@, CHOOSE i \in DOMAIN @ : @[i] = p)]
    ELSE q

(* A getter that was cancelled after it was woken passes the wake-up on.   *)
PassOn(q) ==
    IF IsEmpty(q) \/ q.getters = <<>>
    THEN q
    ELSE [q EXCEPT !.getters = Tail(@)]
=============================================================================
