-------------------------- MODULE EgressProxySafety --------------------------
(***************************************************************************)
(* The safety of the egress proxy, from the invariant of EgressProxyProofs:*)
(*   - no task is left behind by a stop, if no id is started twice;        *)
(*   - nothing is forwarded but what every chosen variant has asked for,   *)
(*     however calls, starts, stops and answers interleave;                *)
(*   - no call counts twice: from the queue it was put in a call moves to  *)
(*     the store of one loop and from there to one round.                  *)
(* The last two hold also if an id is started again while its session runs *)
(* and several loops read the same queues.                                 *)
(***************************************************************************)
EXTENDS EgressProxyProofs

-----------------------------------------------------------------------------
(* No task is left behind.                                                 *)

(* Without redelivery an id is started once, so it names one session.      *)
IdsUnique ==
    \A g, h \in Sessions : launch[g].id # None /\ launch[g].id = launch[h].id => g = h

Active(g) == loop[g].pc \in {"created", "waiting", "woken", "forwarding", "rejecting"}

OrphanInv == IInv /\ IdsUnique /\ NoOrphanLoop

LEMMA InitOrphanInv == Init => OrphanInv
  <1> SUFFICES ASSUME Init PROVE OrphanInv
    OBVIOUS
  <1>1. IInv
    BY InitIInv
  <1>2. IdsUnique /\ NoOrphanLoop
    BY DEF Init, IdsUnique, NoOrphanLoop
  <1>3. QED
    BY <1>1, <1>2 DEF OrphanInv

(* A step that starts and stops no session, and sets no task going that    *)
(* was not, leaves none behind.                                            *)
LEMMA OrphanFrame ==
    ASSUME OrphanInv, UNCHANGED <<registry, launch>>,
           \A g \in Sessions : Active(g)' => Active(g)
    PROVE  IdsUnique' /\ NoOrphanLoop'
  BY DEF OrphanInv, IdsUnique, NoOrphanLoop, Active

(* A wake-up reaches only tasks that wait. *)
LEMMA WakeActive ==
    ASSUME IInv, NEW x \in Sessions, NEW s \in Services,
           NEW p \in WokenBy(requests[x][s])
    PROVE  loop[p].pc = "waiting"
  <1>1. requests[x][s] \in Queue(Calls, Sessions)
    BY DEF IInv, TypeOK
  <1>2. 1 \in DOMAIN requests[x][s].getters /\ p = requests[x][s].getters[1]
    BY <1>1, WokenByFirst
  <1>3. QED
    BY <1>2 DEF IInv, LoopGetters

(* A task that is woken was waiting; the others are as they were.          *)
LEMMA WakeKeepsActive ==
    ASSUME IInv, NEW x \in Sessions, NEW s \in Services, NEW g \in Sessions,
           NEW lp, lp = Wake(WokenBy(requests[x][s]))
    PROVE  lp[g] = loop[g] \/ loop[g].pc = "waiting"
  <1>1. g \in WokenBy(requests[x][s]) => loop[g].pc = "waiting"
    BY WakeActive
  <1>2. QED
    BY <1>1 DEF Wake

(* If no id is started twice, no task is ever left running that its id     *)
(* does not name: the steps.                                               *)
LEMMA NextOrphanInv ==
    ASSUME Retry = FALSE, OrphanInv, [Next]_vars
    PROVE  OrphanInv'
  <1>0. IInv /\ IInv'
    BY NextIInv DEF OrphanInv
  <1>1. /\ registry \in [Ids -> Sessions \cup {None}] /\ loop \in [Sessions -> Loop]
        /\ launch \in [Sessions -> [id : Ids \cup {None}, services : Seq(Services)]]
    BY <1>0 DEF IInv, TypeOK
  <1> SUFFICES IdsUnique' /\ NoOrphanLoop'
    BY <1>0 DEF OrphanInv
  <1>2. ASSUME NEW r \in Ids, NEW l \in ServiceLists, Start(r, l)
        PROVE  IdsUnique' /\ NoOrphanLoop'
    <2>1. \A g \in Sessions : launch[g].id # r
      BY <1>2 DEF Start
    <2>2. PICK g \in Sessions :
             /\ loop[g].pc = "none"
             /\ registry' = [registry EXCEPT ![r] = g]
             /\ launch' = [launch EXCEPT ![g] = [id |-> r, services |-> l]]
             /\ loop' = [loop EXCEPT ![g].pc = "created"]
      BY <1>2 DEF Start
    <2>3. /\ launch'[g].id = r
          /\ \A h \in Sessions \ {g} : launch'[h] = launch[h] /\ loop'[h] = loop[h]
      BY <1>1, <2>2
    <2>4. IdsUnique'
      BY <2>1, <2>3 DEF IdsUnique, OrphanInv
    <2>5. NoOrphanLoop'
      <3>1. SUFFICES ASSUME NEW h \in Sessions, Active(h)'
                     PROVE  registry'[launch'[h].id] = h
        BY DEF NoOrphanLoop, Active
      <3>2. CASE h = g
        BY <1>1, <2>2, <2>3, <3>2
      <3>3. CASE h # g
        <4>1. launch'[h] = launch[h] /\ Active(h)
          BY <2>3, <3>1, <3>3 DEF Active
        <4>2. registry[launch[h].id] = h
          BY <4>1 DEF OrphanInv, NoOrphanLoop, Active
        <4>3. launch[h].id \in Ids /\ launch[h].id # r
          BY <1>0, <2>1, <4>1 DEF IInv, LaunchInv, Active
        <4>4. QED
          BY <1>1, <2>2, <4>1, <4>2, <4>3
      <3>4. QED
        BY <3>2, <3>3
    <2>6. QED
      BY <2>4, <2>5
  <1>3. ASSUME NEW r \in Ids, Stop(r)
        PROVE  IdsUnique' /\ NoOrphanLoop'
    <2>0. registry[r] \in Sessions
      BY <1>1, <1>3 DEF Stop
    <2>1. PICK g \in Sessions :
             /\ g = registry[r] /\ Cancel(g) /\ UNCHANGED launch
             /\ registry' = [registry EXCEPT ![r] = None]
      BY <1>3, <2>0 DEF Stop
    <2>2. launch[g].id = r
      BY <1>0, <2>0, <2>1, NoneAssumption DEF IInv, RegistryInv
    <2>3. /\ \A h \in Sessions \ {g} : loop'[h] = loop[h]
          /\ ~Active(g)'
      <3>1. CASE loop[g].pc = "waiting"
        <4>1. loop' = [loop EXCEPT ![g].pc = "cancelled", ![g].on = None]
          BY <2>1, <3>1 DEF Cancel
        <4>2. QED
          BY <1>1, <2>2, <4>1 DEF Active, Loop
      <3>2. CASE loop[g].pc \in {"created", "woken", "forwarding", "rejecting"}
        <4>1. loop' = [loop EXCEPT ![g].pc = "cancelled"]
          BY <2>1, <3>2 DEF Cancel
        <4>2. QED
          BY <1>1, <2>2, <4>1 DEF Active, Loop
      <3>3. CASE ~Active(g)
        <4>1. UNCHANGED loop
          BY <2>1, <3>3 DEF Cancel, Active
        <4>2. QED
          BY <3>3, <4>1 DEF Active
      <3>4. QED
        BY <3>1, <3>2, <3>3 DEF Active
    <2>4. IdsUnique'
      BY <2>1 DEF IdsUnique, OrphanInv
    <2>5. NoOrphanLoop'
      <3>1. SUFFICES ASSUME NEW h \in Sessions, Active(h)'
                     PROVE  registry'[launch'[h].id] = h
        BY DEF NoOrphanLoop, Active
      <3>2. h # g /\ Active(h)
        BY <2>3, <3>1 DEF Active
      <3>3. registry[launch[h].id] = h /\ launch[h].id \in Ids
        BY <1>0, <3>2 DEF OrphanInv, NoOrphanLoop, Active, IInv, LaunchInv
      <3>4. launch[h].id # r
        BY <2>1, <3>2, <3>3
      <3>5. QED
        BY <1>1, <2>1, <3>3, <3>4
    <2>6. QED
      BY <2>4, <2>5
  <1>4. ASSUME NEW c \in Calls, NEW g \in Sessions, NEW s \in Services,
               NEW x \in Contents, NEW h \in Hosts, Submit(c, g, s, x, h)
        PROVE  IdsUnique' /\ NoOrphanLoop'
    <2> DEFINE q == registry[launch[g].id]
    <2>1. /\ UNCHANGED <<registry, launch>> /\ launch[g].id # None
          /\ UNCHANGED loop \/ (HasQueue(q, s) /\ loop' = Wake(WokenBy(requests[q][s])))
      BY <1>4 DEF Submit, Started
    <2>2. \A k \in Sessions : loop'[k] = loop[k] \/ loop[k].pc = "waiting"
      <3>1. CASE UNCHANGED loop
        BY <3>1
      <3>2. CASE HasQueue(q, s) /\ loop' = Wake(WokenBy(requests[q][s]))
        <4>1. q \in Sessions \cup {None} /\ TypeOK
          BY <1>0, <1>1, <2>1 DEF IInv
        <4>2. q \in Sessions
          BY <3>2, <4>1, HasQueueType
        <4> HIDE DEF q
        <4>3. QED
          BY <1>0, <3>2, <4>2, WakeKeepsActive
      <3>3. QED
        BY <2>1, <3>1, <3>2
    <2>3. QED
      BY <2>1, <2>2, OrphanFrame DEF Active
  <1>5. ASSUME NEW c \in Calls, ResumeHandler(c)
        PROVE  IdsUnique' /\ NoOrphanLoop'
    BY <1>5, OrphanFrame DEF ResumeHandler, Active
  <1>6. ASSUME NEW g \in Sessions, RunLoop(g) \/ DeliverResponse(g) \/ RoundFails(g)
        PROVE  IdsUnique' /\ NoOrphanLoop'
    <2>1. /\ Active(g) /\ UNCHANGED <<registry, launch>>
          /\ \A h \in Sessions \ {g} : loop'[h] = loop[h]
      <3>1. CASE RunLoop(g)
        <4>1. /\ loop[g].pc \in {"created", "woken"} /\ loop[g].store \in Seq(Calls)
              /\ Collect(g, loop[g].store)
              /\ UNCHANGED <<registry, launch>>
          BY <1>1, <3>1 DEF RunLoop, Loop
        <4>2. \A h \in Sessions \ {g} : loop'[h] = loop[h]
          BY <1>0, <4>1, CollectEffect
        <4>3. QED
          BY <4>1, <4>2 DEF Active
      <3>2. CASE DeliverResponse(g)
        <4>1. /\ loop[g].pc \in {"forwarding", "rejecting"} /\ UNCHANGED <<registry, launch>>
              /\ Collect(g, <<>>) \/ loop' = [loop EXCEPT ![g].pc = "failed"]
          BY <3>2 DEF DeliverResponse, NewStore
        <4>2. <<>> \in Seq(Calls)
          BY EmptySeq
        <4>3. \A h \in Sessions \ {g} : loop'[h] = loop[h]
          <5>1. CASE Collect(g, <<>>)
            BY <1>0, <4>1, <4>2, <5>1, CollectEffect
          <5>2. CASE loop' = [loop EXCEPT ![g].pc = "failed"]
            BY <1>1, <5>2
          <5>3. QED
            BY <4>1, <5>1, <5>2
        <4>4. QED
          BY <4>1, <4>3 DEF Active
      <3>3. CASE RoundFails(g)
        BY <1>1, <3>3 DEF RoundFails, Active
      <3>4. QED
        BY <1>6, <3>1, <3>2, <3>3
    <2>2. QED
      BY <2>1, OrphanFrame DEF Active
  <1>7. ASSUME NEW g \in Sessions, HandleCancelled(g)
        PROVE  IdsUnique' /\ NoOrphanLoop'
    <2> DEFINE x == loop[g].on
               s == Awaited(g)
               lp == Wake(WokenBy(requests[x][s]))
    <2>1. /\ loop[g].pc = "cancelled" /\ UNCHANGED <<registry, launch>>
          /\ \/ loop' = [loop EXCEPT ![g].pc = "returned"]
             \/ x # None /\ loop' = [lp EXCEPT ![g].pc = "returned"]
      BY <1>7 DEF HandleCancelled
    <2>2. \A h \in Sessions : Active(h)' => Active(h)
      <3>1. CASE loop' = [loop EXCEPT ![g].pc = "returned"]
        BY <1>1, <3>1 DEF Active, Loop
      <3>2. CASE x # None /\ loop' = [lp EXCEPT ![g].pc = "returned"]
        <4>1. x \in Sessions \cup {None} /\ HasQueue(x, s) /\ TypeOK
          BY <1>0, <1>1, <3>2 DEF Loop, HasQueue, IInv, LoopInv
        <4>2. x \in Sessions /\ s \in Services
          BY <4>1, HasQueueType
        <4> HIDE DEF x, s
        <4>3. \A h \in Sessions : lp[h] = loop[h] \/ loop[h].pc = "waiting"
          BY <1>0, <4>2, WakeKeepsActive
        <4>4. loop' = [lp EXCEPT ![g] = [lp[g] EXCEPT !.pc = "returned"]]
          BY <3>2
        <4>5. lp = [h \in Sessions |-> lp[h]]
          BY DEF Wake
        <4> HIDE DEF lp
        <4>6. /\ \A h \in Sessions \ {g} : loop'[h] = lp[h]
              /\ loop'[g] = [lp[g] EXCEPT !.pc = "returned"]
          BY <4>4, <4>5
        <4>7. lp[g] \in Loop /\ "returned" \in LoopPCs
          BY <1>1, <2>1, <4>3 DEF LoopPCs
        <4>8. loop'[g].pc = "returned"
          BY <4>6, <4>7, LoopMoves
        <4>9. QED
          BY <4>3, <4>6, <4>8 DEF Active
      <3>3. QED
        BY <2>1, <3>1, <3>2
    <2>3. QED
      BY <2>1, <2>2, OrphanFrame
  <1>8. CASE UNCHANGED vars
    BY <1>8, OrphanFrame DEF vars, Active
  <1>9. QED
    BY <1>2, <1>3, <1>4, <1>5, <1>6, <1>7, <1>8 DEF Next

(* If no id is started twice, a stop always reaches the task of its id: no *)
(* task that may still take calls is left outside the registries.          *)
THEOREM NoOrphans ==
    ASSUME Retry = FALSE
    PROVE  Spec => []NoOrphanLoop
  <1>1. OrphanInv /\ [Next]_vars => OrphanInv'
    BY NextOrphanInv
  <1>2. OrphanInv => NoOrphanLoop
    BY DEF OrphanInv
  <1>3. QED
    BY InitOrphanInv, <1>1, <1>2, PTL DEF Spec

(* Only a running task decides rounds, and only its own. *)
LEMMA DecidesItsOwn ==
    ASSUME IInv, [Next]_vars, NEW g \in Sessions, rounds'[g] # rounds[g]
    PROVE  Active(g)
  <1>1. ASSUME NEW h \in Sessions, RunLoop(h) PROVE Active(g)
    <2>1. loop[h].pc \in {"created", "woken"} /\ Collect(h, loop[h].store)
      BY <1>1 DEF RunLoop
    <2>2. loop[h] \in Loop
      BY DEF IInv, TypeOK
    <2>3. loop[h].store \in Seq(Calls)
      BY <2>2 DEF Loop
    <2>4. g = h
      BY <2>1, <2>3, CollectEffect
    <2>5. QED
      BY <2>1, <2>4 DEF Active
  <1>2. ASSUME NEW h \in Sessions, DeliverResponse(h) PROVE Active(g)
    <2>1. /\ loop[h].pc \in {"forwarding", "rejecting"}
          /\ Collect(h, <<>>) \/ UNCHANGED rounds
      BY <1>2 DEF DeliverResponse, NewStore
    <2>2. Collect(h, <<>>)
      BY <2>1
    <2>3. <<>> \in Seq(Calls)
      BY EmptySeq
    <2>4. g = h
      BY <2>1, <2>2, <2>3, CollectEffect
    <2>5. QED
      BY <2>1, <2>4 DEF Active
  <1>3. \/ \E h \in Sessions : RunLoop(h) \/ DeliverResponse(h)
        \/ UNCHANGED rounds
    <2>1. ASSUME NEW r \in Ids, NEW l \in ServiceLists, Start(r, l) PROVE UNCHANGED rounds
      BY <2>1 DEF Start
    <2>2. ASSUME NEW r \in Ids, Stop(r) PROVE UNCHANGED rounds
      BY <2>2 DEF Stop
    <2>3. ASSUME NEW c \in Calls, NEW h \in Sessions, NEW s \in Services,
                 NEW x \in Contents, NEW host \in Hosts, Submit(c, h, s, x, host)
          PROVE  UNCHANGED rounds
      BY <2>3 DEF Submit
    <2>4. ASSUME NEW c \in Calls, ResumeHandler(c) PROVE UNCHANGED rounds
      BY <2>4 DEF ResumeHandler
    <2>5. ASSUME NEW h \in Sessions, RoundFails(h) \/ HandleCancelled(h)
          PROVE  UNCHANGED rounds
      BY <2>5 DEF RoundFails, HandleCancelled
    <2>6. CASE UNCHANGED vars
      BY <2>6 DEF vars
    <2>7. QED
      BY <2>1, <2>2, <2>3, <2>4, <2>5, <2>6 DEF Next
  <1>4. QED
    BY <1>1, <1>2, <1>3

(* If no id is started twice, a session that was stopped decides nothing   *)
(* more: neither forwards a call nor rejects one (stop, main.py).          *)
THEOREM StoppedIsSilent ==
    ASSUME Retry = FALSE
    PROVE  Spec => NoRoundAfterStop
  <1>1. OrphanInv /\ [Next]_vars => OrphanInv'
    BY NextOrphanInv
  <1>2. OrphanInv /\ [Next]_vars =>
           [\A g \in Sessions : rounds'[g] # rounds[g] => registry[launch[g].id] = g]_vars
    <2>1. SUFFICES ASSUME OrphanInv, [Next]_vars, NEW g \in Sessions, rounds'[g] # rounds[g]
                   PROVE  registry[launch[g].id] = g
      OBVIOUS
    <2>2. Active(g)
      BY <2>1, DecidesItsOwn DEF OrphanInv
    <2>3. QED
      BY <2>1, <2>2 DEF OrphanInv, NoOrphanLoop, Active
  <1>3. QED
    BY InitOrphanInv, <1>1, <1>2, PTL DEF Spec, NoRoundAfterStop

-----------------------------------------------------------------------------
(* The inductive invariant: a call is where its sender put it.             *)

(* c was made, by s. *)
MadeBy(c, s) == handler[c].pc # "idle" /\ handler[c].sender = s

(* A queue of s holds calls of s. *)
QueuesSorted ==
    \A x \in Sessions, s \in Services : \A i \in DOMAIN requests[x][s].items :
        MadeBy(requests[x][s].items[i], s)

(* The calls a loop holds are those of its first services, one of each.    *)
StoreSorted(g) ==
    \A i \in DOMAIN loop[g].store :
        i <= Len(launch[g].services) /\ MadeBy(loop[g].store[i], launch[g].services[i])

RoundSound(g, r) ==
    /\ Len(r.store) = Len(launch[g].services)
    /\ \A i \in DOMAIN r.store : MadeBy(r.store[i], launch[g].services[i])
    /\ r.forwarded => \A i, j \in DOMAIN r.store :
                         handler[r.store[i]].content = handler[r.store[j]].content

RoundsSorted(g) ==
    /\ \A n \in DOMAIN rounds[g] : RoundSound(g, rounds[g][n])
    /\ loop[g].pc = "none" => rounds[g] = <<>>

SortedInv ==
    IInv /\ QueuesSorted /\ \A g \in Sessions : StoreSorted(g) /\ RoundsSorted(g)

-----------------------------------------------------------------------------
(* What a step leaves alone.                                               *)

(* Who made a call, and of what content, does not change.                  *)
CallsStand ==
    \A c \in Calls : handler[c].pc # "idle" =>
        /\ handler'[c].pc # "idle"
        /\ handler'[c].sender = handler[c].sender /\ handler'[c].content = handler[c].content

LEMMA CallsStandStep == ASSUME IInv, [Next]_vars PROVE CallsStand
  <1>0. handler \in [Calls -> Handler]
    BY DEF IInv, TypeOK
  <1>1. CASE UNCHANGED handler
    BY <1>1 DEF CallsStand
  <1>2. ASSUME NEW c \in Calls, NEW g \in Sessions, NEW s \in Services,
               NEW x \in Contents, NEW h \in Hosts, Submit(c, g, s, x, h)
        PROVE  CallsStand
    <2>1. handler[c].pc = "idle" /\ \A d \in Calls \ {c} : handler'[d] = handler[d]
      BY <1>0, <1>2 DEF Submit
    <2>2. QED
      BY <2>1 DEF CallsStand
  <1>3. ASSUME NEW c \in Calls, ResumeHandler(c)
        PROVE  CallsStand
    <2>1. /\ handler'[c].pc \in {"waiting", "answered"}
          /\ handler'[c].sender = handler[c].sender /\ handler'[c].content = handler[c].content
          /\ \A d \in Calls \ {c} : handler'[d] = handler[d]
      BY <1>0, <1>3 DEF ResumeHandler, Handler
    <2>2. QED
      BY <2>1 DEF CallsStand
  <1>4. ASSUME NEW g \in Sessions, DeliverResponse(g)
        PROVE  CallsStand
    <2>1. \A c \in Calls : \/ handler'[c] = handler[c]
                           \/ handler'[c] = [handler[c] EXCEPT !.pc = "woken"]
      BY <1>4 DEF DeliverResponse
    <2>2. QED
      <3>1. ASSUME NEW c \in Calls, handler'[c] = [handler[c] EXCEPT !.pc = "woken"]
            PROVE  /\ handler'[c].pc = "woken" /\ handler'[c].sender = handler[c].sender
                   /\ handler'[c].content = handler[c].content
        <4>1. handler[c] \in Handler
          BY <1>0
        <4>2. QED
          BY <3>1, <4>1 DEF Handler
      <3>2. QED
        BY <2>1, <3>1 DEF CallsStand
  <1>5. ASSUME NEW r \in Ids, NEW l \in ServiceLists, Start(r, l) PROVE UNCHANGED handler
    BY <1>5 DEF Start
  <1>6. ASSUME NEW r \in Ids, Stop(r) PROVE UNCHANGED handler
    BY <1>6 DEF Stop
  <1>7. ASSUME NEW g \in Sessions, RunLoop(g) \/ RoundFails(g) \/ HandleCancelled(g)
        PROVE  UNCHANGED handler
    BY <1>7 DEF RunLoop, RoundFails, HandleCancelled
  <1>8. CASE UNCHANGED vars
    BY <1>1, <1>8 DEF vars
  <1>9. QED
    BY <1>1, <1>2, <1>3, <1>4, <1>5, <1>6, <1>7, <1>8 DEF Next

LEMMA MadeByStands ==
    ASSUME CallsStand, NEW c \in Calls, NEW s, MadeBy(c, s)
    PROVE  MadeBy(c, s)'
  BY DEF CallsStand, MadeBy

LEMMA ItemType ==
    ASSUME IInv, NEW x \in Sessions, NEW s \in Services
    PROVE  /\ requests[x][s] \in Queue(Calls, Sessions)
           /\ requests[x][s].items \in Seq(Calls)
           /\ \A i \in DOMAIN requests[x][s].items : requests[x][s].items[i] \in Calls
  <1>1. requests[x][s] \in Queue(Calls, Sessions)
    BY DEF IInv, TypeOK
  <1>2. requests[x][s].items \in Seq(Calls)
    BY <1>1 DEF Queue
  <1>3. QED
    BY <1>1, <1>2, LenProperties, ElementOfSeq

LEMMA StoreType ==
    ASSUME IInv, NEW g \in Sessions
    PROVE  /\ loop[g].store \in Seq(Calls) /\ Len(loop[g].store) \in Nat
           /\ DOMAIN loop[g].store = 1 .. Len(loop[g].store)
           /\ \A i \in DOMAIN loop[g].store : loop[g].store[i] \in Calls
           /\ rounds[g] \in Seq(Round) /\ Len(rounds[g]) \in Nat
           /\ DOMAIN rounds[g] = 1 .. Len(rounds[g])
           /\ launch[g].services \in Seq(Services) /\ Len(launch[g].services) \in Nat
  <1>1. loop[g] \in Loop /\ rounds[g] \in Seq(Round) /\ launch[g].services \in Seq(Services)
    BY DEF IInv, TypeOK
  <1>2. loop[g].store \in Seq(Calls)
    BY <1>1 DEF Loop
  <1>3. QED
    BY <1>1, <1>2, LenProperties, ElementOfSeq

LEMMA RoundType ==
    ASSUME IInv, NEW g \in Sessions, NEW n \in DOMAIN rounds[g]
    PROVE  /\ rounds[g][n].store \in Seq(Calls)
           /\ \A i \in DOMAIN rounds[g][n].store : rounds[g][n].store[i] \in Calls
  <1>1. rounds[g][n] \in Round
    BY StoreType, ElementOfSeq
  <1>2. rounds[g][n].store \in Seq(Calls)
    BY <1>1 DEF Round
  <1>3. QED
    BY <1>2, LenProperties, ElementOfSeq

(* Who a response is put for, and where. *)
LEMMA RecipientsType ==
    ASSUME IInv, NEW g \in Sessions, loop[g].pc \in {"forwarding", "rejecting"}
    PROVE  /\ \A s \in Recipients(g) : registry[launch[g].id] \in Sessions /\ s \in Services
           /\ Response(g) \in Answer
  <1>1. /\ registry[launch[g].id] \in Sessions \cup {None}
        /\ launch[g].services \in Seq(Services) /\ TypeOK
    BY DEF IInv, TypeOK, LaunchInv
  <1>2. ASSUME NEW s \in Recipients(g) PROVE HasQueue(registry[launch[g].id], s)
    <2>1. PICK i \in DOMAIN launch[g].services :
             /\ s = launch[g].services[i]
             /\ \A k \in 1 .. i : HasQueue(registry[launch[g].id], launch[g].services[k])
      BY DEF Recipients
    <2>2. i \in 1 .. i
      BY <1>1, LenProperties
    <2>3. QED
      BY <2>1, <2>2
  <1>3. Len(rounds[g]) \in Nat \ {0}
    <2>1. rounds[g] \in Seq(Round) /\ rounds[g] # <<>>
      BY DEF IInv, TypeOK, LoopInv
    <2>2. QED
      BY <2>1, EmptySeq
  <1>4. QED
    BY <1>1, <1>2, <1>3, HasQueueType DEF Response, Answer

(* A sound round stays sound. *)
LEMMA RoundStands ==
    ASSUME CallsStand, NEW g \in Sessions, launch'[g] = launch[g],
           NEW r, RoundSound(g, r), \A i \in DOMAIN r.store : r.store[i] \in Calls
    PROVE  /\ Len(r.store) = Len(launch'[g].services)
           /\ \A i \in DOMAIN r.store : /\ handler'[r.store[i]].pc # "idle"
                                        /\ handler'[r.store[i]].sender = launch'[g].services[i]
           /\ r.forwarded => \A i, j \in DOMAIN r.store :
                                handler'[r.store[i]].content = handler'[r.store[j]].content
  <1>1. \A i \in DOMAIN r.store : /\ handler[r.store[i]].pc # "idle"
                                 /\ handler[r.store[i]].sender = launch[g].services[i]
    BY DEF RoundSound, MadeBy
  <1>2. \A i \in DOMAIN r.store : /\ handler'[r.store[i]].pc # "idle"
                                 /\ handler'[r.store[i]].sender = launch[g].services[i]
                                 /\ handler'[r.store[i]].content = handler[r.store[i]].content
    BY <1>1 DEF CallsStand
  <1>3. QED
    BY <1>2 DEF RoundSound

(* A session that takes no step keeps its calls and its rounds in order.   *)
LEMMA SessionStands ==
    ASSUME IInv, CallsStand, NEW g \in Sessions, launch'[g] = launch[g],
           StoreSorted(g), RoundsSorted(g),
           loop'[g].store = loop[g].store, rounds'[g] = rounds[g],
           loop'[g].pc = "none" => loop[g].pc = "none"
    PROVE  StoreSorted(g)' /\ RoundsSorted(g)'
  <1>1. StoreSorted(g)'
    <2>1. \A i \in DOMAIN loop[g].store : loop[g].store[i] \in Calls
      BY StoreType
    <2>2. QED
      BY <2>1 DEF StoreSorted, MadeBy, CallsStand
  <1>2. ASSUME NEW n \in DOMAIN rounds[g] PROVE RoundSound(g, rounds[g][n])'
    <2>1. RoundSound(g, rounds[g][n])
      BY DEF RoundsSorted
    <2>2. \A i \in DOMAIN rounds[g][n].store : rounds[g][n].store[i] \in Calls
      BY RoundType
    <2>3. PICK r : r = rounds[g][n]
      OBVIOUS
    <2>4. rounds'[g][n] = r
      BY <2>3
    <2>5. QED
      BY <2>1, <2>2, <2>3, <2>4, RoundStands DEF RoundSound, MadeBy
  <1>3. QED
    BY <1>1, <1>2 DEF RoundsSorted

(* Queues that keep their items keep them in order. *)
LEMMA QueuesStand ==
    ASSUME IInv, CallsStand, QueuesSorted,
           \A x \in Sessions, s \in Services : requests'[x][s].items = requests[x][s].items
    PROVE  QueuesSorted'
  <1>1. ASSUME NEW x \in Sessions, NEW s \in Services, NEW i \in DOMAIN requests[x][s].items
        PROVE  /\ handler'[requests[x][s].items[i]].pc # "idle"
               /\ handler'[requests[x][s].items[i]].sender = s
    <2>1. requests[x][s].items[i] \in Calls
      BY ItemType
    <2>2. MadeBy(requests[x][s].items[i], s)
      BY DEF QueuesSorted
    <2>3. QED
      BY <2>1, <2>2 DEF MadeBy, CallsStand
  <1>2. QED
    BY <1>1 DEF QueuesSorted, MadeBy

-----------------------------------------------------------------------------
(* What a loop that collects takes: the queues keep calls of their own     *)
(* service only, and so does the store, at the place of that service.      *)

LEMMA TailKeeps ==
    ASSUME NEW S, NEW w \in Seq(S), w # <<>>, NEW i \in DOMAIN Tail(w)
    PROVE  i + 1 \in DOMAIN w /\ Tail(w)[i] = w[i + 1]
  <1>1. /\ Tail(w) \in Seq(S) /\ Len(Tail(w)) = Len(w) - 1
        /\ \A k \in 1 .. Len(Tail(w)) : Tail(w)[k] = w[k + 1]
    BY HeadTailProperties
  <1>2. /\ DOMAIN w = 1 .. Len(w) /\ Len(w) \in Nat
        /\ DOMAIN Tail(w) = 1 .. Len(Tail(w))
    BY <1>1, LenProperties
  <1>3. QED
    BY <1>1, <1>2

LEMMA HeadIsFirst ==
    ASSUME IInv, NEW x \in Sessions, NEW s \in Services, ~IsEmpty(requests[x][s])
    PROVE  /\ 1 \in DOMAIN requests[x][s].items
           /\ Head(requests[x][s].items) = requests[x][s].items[1]
  <1>1. requests[x][s].items \in Seq(Calls) /\ requests[x][s].items # <<>>
    BY ItemType DEF IsEmpty
  <1>2. QED
    BY <1>1, EmptySeq, LenProperties, HeadTailProperties

(* The items of a queue stay, or the first is gone. *)
Kept(x, s) ==
    \A i \in DOMAIN requests'[x][s].items :
        /\ i \in DOMAIN requests[x][s].items
        /\ requests'[x][s].items[i] = requests[x][s].items[i]

Popped(x, s) ==
    /\ 1 \in DOMAIN requests[x][s].items
    /\ \A i \in DOMAIN requests'[x][s].items :
          /\ i + 1 \in DOMAIN requests[x][s].items
          /\ requests'[x][s].items[i] = requests[x][s].items[i + 1]

(* The i-th call g holds now is the one gone from a queue of the i-th      *)
(* service.                                                                *)
Takes(g, i) ==
    /\ launch[g].services[i] \in Services
    /\ \E x \in Sessions :
          /\ Popped(x, launch[g].services[i])
          /\ loop'[g].store[i] = requests[x][launch[g].services[i]].items[1]

(* Where a stretch that took n - 1 calls ends: with all of them, at a      *)
(* queue that is empty, or where there is none.                            *)
EndsAt(g, n) ==
    \/ n = Len(launch[g].services) + 1 /\ loop'[g].pc \in {"forwarding", "rejecting"}
    \/ /\ loop'[g].pc = "waiting" /\ loop'[g].on = Source(g, n)
       /\ IsEmpty(requests[Source(g, n)][launch[g].services[n]])
    \/ loop'[g].pc = "failed" /\ ~HasQueue(Source(g, n), launch[g].services[n])

(* A stretch of the loop moves calls from the heads of queues to the       *)
(* store, and the store to a round when it is complete.                    *)
LEMMA CollectMoves ==
    ASSUME IInv, NEW g \in Sessions, NEW store \in Seq(Calls),
           loop[g].pc # "none", Collect(g, store),
           Len(store) <= Len(launch[g].services)
    PROVE  /\ \A x \in Sessions, s \in Services : Kept(x, s) \/ Popped(x, s)
           /\ \A i \in DOMAIN loop'[g].store :
                 /\ i \in DOMAIN launch[g].services /\ i <= Len(launch[g].services)
                 /\ loop'[g].store[i] \in Calls
                 /\ (i \in DOMAIN store /\ loop'[g].store[i] = store[i]) \/ Takes(g, i)
           /\ \/ rounds'[g] = rounds[g]
              \/ /\ loop'[g].pc \in {"forwarding", "rejecting"}
                 /\ Len(loop'[g].store) = Len(launch[g].services)
                 /\ rounds'[g] = Append(rounds[g],
                      [store |-> loop'[g].store, forwarded |-> Unanimous(loop'[g].store)])
           /\ \E n \in Len(store) + 1 .. Len(launch[g].services) + 1 :
                 /\ Len(loop'[g].store) = n - 1 /\ EndsAt(g, n)
                 /\ \A i \in Len(store) + 1 .. n - 1 : Popped(Source(g, i), launch[g].services[i])
  <1> DEFINE services == launch[g].services
             from     == Len(store) + 1
             got(n)   == [i \in 1 .. n - 1 |->
                            IF i < from THEN store[i]
                            ELSE Head(requests[Source(g, i)][services[i]].items)]
             Took(n, x, s) == \E i \in from .. n - 1 : Source(g, i) = x /\ services[i] = s
             rest(n)  == [x \in Sessions |-> [s \in Services |->
                            IF Took(n, x, s) THEN GetNowait(requests[x][s]) ELSE requests[x][s]]]
             Decides(n) ==
               /\ n = Len(services) + 1
               /\ requests' = rest(n)
               /\ rounds' = [rounds EXCEPT ![g] =
                    Append(@, [store |-> got(n), forwarded |-> Unanimous(got(n))])]
               /\ loop' = [loop EXCEPT ![g] =
                    [pc |-> IF Unanimous(got(n)) THEN "forwarding" ELSE "rejecting",
                     on |-> None, store |-> got(n)]]
             Waits(n) ==
               /\ ~Readable(g, n)
               /\ HasQueue(Source(g, n), services[n])
               /\ requests' = [rest(n) EXCEPT ![Source(g, n)][services[n]] = BlockOn(@, g)]
               /\ loop' = [loop EXCEPT ![g] =
                    [pc |-> "waiting", on |-> Source(g, n), store |-> got(n)]]
               /\ UNCHANGED rounds
             Fails(n) ==
               /\ ~HasQueue(Source(g, n), services[n])
               /\ requests' = rest(n)
               /\ loop' = [loop EXCEPT ![g] = [pc |-> "failed", on |-> None, store |-> got(n)]]
               /\ UNCHANGED rounds
  <1>1. PICK stop \in from .. Len(services) + 1 :
           /\ \A i \in from .. stop - 1 : Readable(g, i)
           /\ Decides(stop) \/ Waits(stop) \/ Fails(stop)
    BY DEF Collect
  <1>2. /\ requests \in [Sessions -> [Services -> Queue(Calls, Sessions)]]
        /\ loop \in [Sessions -> Loop] /\ rounds \in [Sessions -> Seq(Round)]
        /\ services \in Seq(Services)
    <2>1. launch[g].services \in Seq(Services)
      BY DEF IInv, TypeOK
    <2>2. rounds \in [Sessions -> Seq(Round)]
      BY DEF IInv, TypeOK
    <2>3. QED
      BY <2>1, <2>2 DEF IInv, TypeOK
  <1>3. \A i : Source(g, i) \in Sessions \cup {None}
    BY SourceType
  <1>4. TypeOK
    BY DEF IInv
  <1>5. /\ Len(services) \in Nat /\ Len(store) \in Nat /\ DOMAIN store = 1 .. Len(store)
        /\ DOMAIN services = 1 .. Len(services)
        /\ stop \in Nat \ {0} /\ stop - 1 \in Nat /\ stop - 1 <= Len(services)
    <2>1. /\ Len(services) \in Nat /\ Len(store) \in Nat /\ DOMAIN store = 1 .. Len(store)
          /\ DOMAIN services = 1 .. Len(services)
      BY <1>2, LenProperties
    <2> HIDE DEF services
    <2>2. stop \in Len(store) + 1 .. Len(services) + 1
      BY <1>1
    <2>3. QED
      BY <2>1, <2>2
  <1> HIDE DEF services
  <1>6. ASSUME NEW i \in from .. stop - 1
        PROVE  /\ Source(g, i) \in Sessions /\ services[i] \in Services
               /\ requests[Source(g, i)][services[i]] \in Queue(Calls, Sessions)
               /\ ~IsEmpty(requests[Source(g, i)][services[i]])
               /\ Head(requests[Source(g, i)][services[i]].items) \in Calls
               /\ 1 \in DOMAIN requests[Source(g, i)][services[i]].items
               /\ Head(requests[Source(g, i)][services[i]].items)
                    = requests[Source(g, i)][services[i]].items[1]
    <2>1. /\ HasQueue(Source(g, i), services[i])
          /\ ~IsEmpty(requests[Source(g, i)][services[i]])
      BY <1>1 DEF Readable, services
    <2>2. Source(g, i) \in Sessions /\ services[i] \in Services
      BY <1>3, <1>4, <2>1, HasQueueType
    <2>3. requests[Source(g, i)][services[i]] \in Queue(Calls, Sessions)
      BY <1>2, <2>2
    <2>4. Head(requests[Source(g, i)][services[i]].items) \in Calls
      BY <2>1, <2>3, GetNowaitType
    <2>5. /\ 1 \in DOMAIN requests[Source(g, i)][services[i]].items
          /\ Head(requests[Source(g, i)][services[i]].items)
                = requests[Source(g, i)][services[i]].items[1]
      BY <2>1, <2>2, HeadIsFirst
    <2>6. QED
      BY <2>1, <2>2, <2>3, <2>4, <2>5
  <1>7. ASSUME NEW x \in Sessions, NEW s \in Services
        PROVE  /\ ~Took(stop, x, s) => rest(stop)[x][s] = requests[x][s]
               /\ Took(stop, x, s) =>
                     /\ 1 \in DOMAIN requests[x][s].items
                     /\ \A i \in DOMAIN rest(stop)[x][s].items :
                           /\ i + 1 \in DOMAIN requests[x][s].items
                           /\ rest(stop)[x][s].items[i] = requests[x][s].items[i + 1]
    <2>1. CASE Took(stop, x, s)
      <3>1. ~IsEmpty(requests[x][s]) /\ 1 \in DOMAIN requests[x][s].items
        BY <1>6, <2>1
      <3>2. rest(stop)[x][s] = GetNowait(requests[x][s])
        BY <2>1
      <3> HIDE DEF rest, Took
      <3>3. requests[x][s].items \in Seq(Calls) /\ requests[x][s].items # <<>>
        BY <3>1, ItemType DEF IsEmpty
      <3>4. GetNowait(requests[x][s]).items = Tail(requests[x][s].items)
        <4>1. requests[x][s] \in Queue(Calls, Sessions)
          BY <1>2
        <4>2. QED
          BY <3>1, <4>1, GetNowaitType
      <3>5. QED
        BY <2>1, <3>1, <3>2, <3>3, <3>4, TailKeeps
    <2>2. CASE ~Took(stop, x, s)
      BY <2>2
    <2>3. QED
      BY <2>1, <2>2
  <1> DEFINE Moved(q) == \A x \in Sessions, s \in Services :
               /\ ~Took(stop, x, s) => q[x][s].items = requests[x][s].items
               /\ Took(stop, x, s) =>
                     /\ 1 \in DOMAIN requests[x][s].items
                     /\ \A i \in DOMAIN q[x][s].items :
                           /\ i + 1 \in DOMAIN requests[x][s].items
                           /\ q[x][s].items[i] = requests[x][s].items[i + 1]
  <1>8. Moved(rest(stop)) /\ DOMAIN rest(stop) = Sessions
        /\ \A x \in Sessions : DOMAIN rest(stop)[x] = Services
    BY <1>7
  <1>9. ASSUME NEW i \in 1 .. stop - 1
        PROVE  /\ got(stop)[i] \in Calls
               /\ \/ i \in DOMAIN store /\ got(stop)[i] = store[i]
                  \/ /\ Source(g, i) \in Sessions /\ services[i] \in Services
                     /\ Took(stop, Source(g, i), services[i])
                     /\ got(stop)[i] = requests[Source(g, i)][services[i]].items[1]
    <2>1. CASE i < from
      <3>1. i \in DOMAIN store
        BY <1>5, <2>1
      <3>2. store[i] \in Calls
        BY <1>5, <3>1, LenProperties, ElementOfSeq
      <3>3. got(stop)[i] = store[i]
        BY <2>1
      <3>4. QED
        BY <3>1, <3>2, <3>3
    <2>2. CASE ~(i < from)
      <3>1. i \in from .. stop - 1
        BY <1>5, <2>2
      <3>2. got(stop)[i] = Head(requests[Source(g, i)][services[i]].items)
        BY <2>2
      <3>3. Took(stop, Source(g, i), services[i])
        BY <3>1
      <3> HIDE DEF got, Took
      <3>4. QED
        BY <1>6, <3>1, <3>2, <3>3
    <2>3. QED
      BY <2>1, <2>2
  <1>10. Len(got(stop)) = stop - 1 /\ DOMAIN got(stop) = 1 .. stop - 1
    <2> DEFINE f == got(stop)
    <2>1. f \in [1 .. stop - 1 -> Calls]
      BY <1>9
    <2>2. DOMAIN f = 1 .. stop - 1
      OBVIOUS
    <2> HIDE DEF got, f
    <2>3. f \in Seq(Calls) /\ Len(f) = stop - 1
      BY <1>5, <2>1, SeqDef, LenProperties
    <2>4. QED
      BY <2>2, <2>3 DEF f
  <1> HIDE DEF got, rest, Took, from
  <1>11. ASSUME loop'[g].store = got(stop), Moved(requests')
         PROVE  /\ \A x \in Sessions, s \in Services : Kept(x, s) \/ Popped(x, s)
                /\ \A i \in DOMAIN loop'[g].store :
                      /\ i \in DOMAIN services /\ i <= Len(services)
                      /\ loop'[g].store[i] \in Calls
                      /\ (i \in DOMAIN store /\ loop'[g].store[i] = store[i]) \/ Takes(g, i)
                /\ Len(loop'[g].store) = stop - 1
                /\ \A i \in Len(store) + 1 .. stop - 1 : Popped(Source(g, i), services[i])
    <2>1. ASSUME NEW x \in Sessions, NEW s \in Services
          PROVE  (~Took(stop, x, s) => Kept(x, s)) /\ (Took(stop, x, s) => Popped(x, s))
      BY <1>11 DEF Kept, Popped
    <2>2. ASSUME NEW i \in DOMAIN loop'[g].store
          PROVE  /\ i \in DOMAIN services /\ i <= Len(services)
                 /\ loop'[g].store[i] \in Calls
                 /\ (i \in DOMAIN store /\ loop'[g].store[i] = store[i]) \/ Takes(g, i)
      <3>1. i \in 1 .. stop - 1
        BY <1>10, <1>11
      <3>2. i \in DOMAIN services /\ i <= Len(services)
        BY <1>5, <3>1
      <3>3. QED
        BY <1>9, <1>11, <2>1, <3>1, <3>2 DEF Takes, services
    <2>3. ASSUME NEW i \in Len(store) + 1 .. stop - 1
          PROVE  Popped(Source(g, i), services[i])
      <3>1. Took(stop, Source(g, i), services[i])
        BY <2>3 DEF Took, from
      <3>2. Source(g, i) \in Sessions /\ services[i] \in Services
        BY <1>6, <2>3 DEF from
      <3>3. QED
        BY <2>1, <3>1, <3>2
    <2>4. QED
      BY <1>10, <1>11, <2>1, <2>2, <2>3
  <1>12. CASE Decides(stop)
    <2>1. Moved(requests') /\ loop'[g].store = got(stop)
      BY <1>2, <1>8, <1>12
    <2>2. /\ loop'[g].pc \in {"forwarding", "rejecting"}
          /\ rounds'[g] = Append(rounds[g],
                [store |-> got(stop), forwarded |-> Unanimous(got(stop))])
      BY <1>2, <1>12
    <2>3. Len(got(stop)) = Len(services)
      BY <1>5, <1>10, <1>12
    <2>4. stop \in Len(store) + 1 .. Len(launch[g].services) + 1 /\ EndsAt(g, stop)
      BY <1>1, <1>12, <2>2 DEF EndsAt, services, from
    <2>5. QED
      BY <1>11, <2>1, <2>2, <2>3, <2>4 DEF services
  <1>13. CASE Waits(stop)
    <2>1. Source(g, stop) \in Sessions /\ services[stop] \in Services
      BY <1>3, <1>4, <1>13, HasQueueType
    <2>2. \A x \in Sessions, s \in Services :
             requests'[x][s].items = rest(stop)[x][s].items
      BY <1>8, <1>13, <2>1 DEF BlockOn
    <2>3. Moved(requests')
      BY <1>8, <2>2
    <2>4. /\ loop'[g].store = got(stop) /\ rounds' = rounds
          /\ loop'[g].pc = "waiting" /\ loop'[g].on = Source(g, stop)
      BY <1>2, <1>13
    <2>5. stop \in Len(store) + 1 .. Len(launch[g].services) + 1 /\ EndsAt(g, stop)
      BY <1>1, <1>13, <2>4 DEF EndsAt, Readable, services, from
    <2>6. QED
      BY <1>11, <2>3, <2>4, <2>5 DEF services
  <1>14. CASE Fails(stop)
    <2>1. Moved(requests')
      BY <1>8, <1>14
    <2>2. loop'[g].store = got(stop) /\ rounds' = rounds /\ loop'[g].pc = "failed"
      BY <1>2, <1>14
    <2>3. stop \in Len(store) + 1 .. Len(launch[g].services) + 1 /\ EndsAt(g, stop)
      BY <1>1, <1>14, <2>2 DEF EndsAt, services, from
    <2>4. QED
      BY <1>11, <2>1, <2>2, <2>3 DEF services
  <1>15. QED
    BY <1>1, <1>12, <1>13, <1>14

LEMMA CollectSorts ==
    ASSUME IInv, QueuesSorted, NEW g \in Sessions, NEW store \in Seq(Calls),
           loop[g].pc # "none", Collect(g, store),
           Len(store) <= Len(launch[g].services),
           \A i \in DOMAIN store : MadeBy(store[i], launch[g].services[i])
    PROVE  /\ \A x \in Sessions, s \in Services : \A i \in DOMAIN requests'[x][s].items :
                 requests'[x][s].items[i] \in Calls /\ MadeBy(requests'[x][s].items[i], s)
           /\ \A i \in DOMAIN loop'[g].store :
                 /\ i <= Len(launch[g].services) /\ loop'[g].store[i] \in Calls
                 /\ MadeBy(loop'[g].store[i], launch[g].services[i])
  <1>1. ASSUME NEW x \in Sessions, NEW s \in Services
        PROVE  \A i \in DOMAIN requests'[x][s].items :
                 requests'[x][s].items[i] \in Calls /\ MadeBy(requests'[x][s].items[i], s)
    <2>1. Kept(x, s) \/ Popped(x, s)
      BY CollectMoves
    <2>2. \A i \in DOMAIN requests[x][s].items :
             requests[x][s].items[i] \in Calls /\ MadeBy(requests[x][s].items[i], s)
      BY ItemType DEF QueuesSorted
    <2>3. QED
      BY <2>1, <2>2 DEF Kept, Popped
  <1>2. ASSUME NEW i \in DOMAIN loop'[g].store
        PROVE  /\ i <= Len(launch[g].services) /\ loop'[g].store[i] \in Calls
               /\ MadeBy(loop'[g].store[i], launch[g].services[i])
    <2>1. /\ i <= Len(launch[g].services) /\ loop'[g].store[i] \in Calls
          /\ (i \in DOMAIN store /\ loop'[g].store[i] = store[i]) \/ Takes(g, i)
      BY CollectMoves
    <2>2. CASE Takes(g, i)
      <3>1. PICK x \in Sessions :
               /\ launch[g].services[i] \in Services
               /\ 1 \in DOMAIN requests[x][launch[g].services[i]].items
               /\ loop'[g].store[i] = requests[x][launch[g].services[i]].items[1]
        BY <2>2 DEF Takes, Popped
      <3>2. QED
        BY <2>1, <3>1 DEF QueuesSorted
    <2>3. QED
      BY <2>1, <2>2
  <1>3. QED
    BY <1>1, <1>2

(* The round a loop decides is one of its own services' calls, all of one  *)
(* content if it is forwarded; the calls of its next round are in place.   *)
LEMMA CollectStep ==
    ASSUME SortedInv, IInv', CallsStand, UNCHANGED launch,
           NEW g \in Sessions, NEW store \in Seq(Calls),
           loop[g].pc # "none", Collect(g, store),
           Len(store) <= Len(launch[g].services),
           \A i \in DOMAIN store : MadeBy(store[i], launch[g].services[i])
    PROVE  SortedInv'
  <1>1. /\ IInv /\ QueuesSorted
        /\ \A h \in Sessions : StoreSorted(h) /\ RoundsSorted(h)
    BY DEF SortedInv
  <1>2. /\ loop'[g].pc # "none"
        /\ \A h \in Sessions \ {g} : loop'[h] = loop[h] /\ rounds'[h] = rounds[h]
    <2>1. /\ loop'[g].pc \in {"forwarding", "rejecting", "waiting", "failed"}
          /\ \A h \in Sessions \ {g} : loop'[h] = loop[h] /\ rounds'[h] = rounds[h]
      BY <1>1, CollectEffect
    <2>2. QED
      BY <2>1
  <1>3. /\ \A x \in Sessions, s \in Services : \A i \in DOMAIN requests'[x][s].items :
              requests'[x][s].items[i] \in Calls /\ MadeBy(requests'[x][s].items[i], s)
        /\ \A i \in DOMAIN loop'[g].store :
              /\ i <= Len(launch[g].services) /\ loop'[g].store[i] \in Calls
              /\ MadeBy(loop'[g].store[i], launch[g].services[i])
        /\ \/ rounds'[g] = rounds[g]
           \/ /\ Len(loop'[g].store) = Len(launch[g].services)
              /\ rounds'[g] = Append(rounds[g],
                   [store |-> loop'[g].store, forwarded |-> Unanimous(loop'[g].store)])
    <2>1. \/ rounds'[g] = rounds[g]
          \/ /\ Len(loop'[g].store) = Len(launch[g].services)
             /\ rounds'[g] = Append(rounds[g],
                  [store |-> loop'[g].store, forwarded |-> Unanimous(loop'[g].store)])
      BY <1>1, CollectMoves
    <2>2. QED
      BY <1>1, <2>1, CollectSorts
  <1>4. QueuesSorted'
    BY <1>3 DEF QueuesSorted, MadeBy, CallsStand
  <1>5. ASSUME NEW h \in Sessions, h # g
        PROVE  StoreSorted(h)' /\ RoundsSorted(h)'
    <2>1. loop'[h] = loop[h] /\ rounds'[h] = rounds[h] /\ launch'[h] = launch[h]
      BY <1>2, <1>5
    <2>2. StoreSorted(h) /\ RoundsSorted(h)
      BY <1>1
    <2>3. QED
      BY <1>1, <2>1, <2>2, SessionStands
  <1>6. StoreSorted(g)'
    BY <1>3 DEF StoreSorted, MadeBy, CallsStand
  <1>7. RoundsSorted(g)'
    <2>1. ASSUME NEW n \in DOMAIN rounds[g] PROVE RoundSound(g, rounds[g][n])
      BY <1>1 DEF RoundsSorted
    <2>2. CASE rounds'[g] = rounds[g]
      <3>1. ASSUME NEW n \in DOMAIN rounds[g] PROVE RoundSound(g, rounds[g][n])'
        <4>1. PICK r : r = rounds[g][n]
          OBVIOUS
        <4>2. RoundSound(g, r) /\ \A i \in DOMAIN r.store : r.store[i] \in Calls
          BY <1>1, <2>1, <4>1, RoundType
        <4>3. rounds'[g][n] = r /\ launch'[g] = launch[g]
          BY <2>2, <4>1
        <4>4. QED
          BY <4>2, <4>3, RoundStands DEF RoundSound, MadeBy
      <3>2. QED
        BY <1>2, <2>2, <3>1 DEF RoundsSorted
    <2>3. CASE /\ Len(loop'[g].store) = Len(launch[g].services)
               /\ rounds'[g] = Append(rounds[g],
                    [store |-> loop'[g].store, forwarded |-> Unanimous(loop'[g].store)])
      <3> DEFINE new == [store |-> loop'[g].store, forwarded |-> Unanimous(loop'[g].store)]
      <3>1. /\ new.store = loop'[g].store
            /\ new.forwarded => Unanimous(new.store)
        OBVIOUS
      <3>2. rounds'[g] = Append(rounds[g], new)
        BY <2>3
      <3> HIDE DEF new
      <3>3. rounds[g] \in Seq(Round) /\ Len(rounds[g]) \in Nat
            /\ DOMAIN rounds[g] = 1 .. Len(rounds[g])
        BY <1>1, StoreType
      <3>4. new \in Round
        <4>1. rounds' \in [Sessions -> Seq(Round)]
          BY DEF IInv, TypeOK
        <4>2. rounds'[g] \in Seq(Round)
          BY <4>1
        <4>3. loop'[g].store \in Seq(Calls) /\ Unanimous(loop'[g].store) \in BOOLEAN
          <5>1. loop' \in [Sessions -> Loop]
            BY DEF IInv, TypeOK
          <5>2. QED
            BY <5>1 DEF Loop, Unanimous
        <4>4. QED
          BY <4>3 DEF new, Round
      <3>5. /\ DOMAIN rounds'[g] = 1 .. Len(rounds[g]) + 1
            /\ \A n \in 1 .. Len(rounds[g]) : rounds'[g][n] = rounds[g][n]
            /\ rounds'[g][Len(rounds[g]) + 1] = new
        <4>1. /\ Append(rounds[g], new) \in Seq(Round)
              /\ Len(Append(rounds[g], new)) = Len(rounds[g]) + 1
              /\ \A n \in 1 .. Len(rounds[g]) : Append(rounds[g], new)[n] = rounds[g][n]
              /\ Append(rounds[g], new)[Len(rounds[g]) + 1] = new
          BY <3>3, <3>4, AppendProperties
        <4>2. DOMAIN Append(rounds[g], new) = 1 .. Len(rounds[g]) + 1
          BY <4>1, LenProperties
        <4>3. QED
          BY <3>2, <4>1, <4>2
      <3>6. ASSUME NEW n \in 1 .. Len(rounds[g]) PROVE RoundSound(g, rounds[g][n])'
        <4>1. PICK r : r = rounds[g][n]
          OBVIOUS
        <4>2. RoundSound(g, r) /\ \A i \in DOMAIN r.store : r.store[i] \in Calls
          BY <1>1, <2>1, <3>3, <4>1, RoundType
        <4>3. rounds'[g][n] = r /\ launch'[g] = launch[g]
          BY <3>5, <4>1
        <4>4. QED
          BY <4>2, <4>3, RoundStands DEF RoundSound, MadeBy
      <3>7. /\ Len(new.store) = Len(launch[g].services)
            /\ \A i \in DOMAIN new.store :
                  new.store[i] \in Calls /\ MadeBy(new.store[i], launch[g].services[i])
        BY <1>3, <2>3, <3>1
      <3>8. new.forwarded => \A i, j \in DOMAIN new.store :
                               handler[new.store[i]].content = handler[new.store[j]].content
        <4>1. loop'[g].store \in Seq(Calls)
          <5>1. loop' \in [Sessions -> Loop]
            BY DEF IInv, TypeOK
          <5>2. QED
            BY <5>1 DEF Loop
        <4>2. Len(new.store) \in Nat /\ DOMAIN new.store = 1 .. Len(new.store)
          BY <3>1, <4>1, LenProperties
        <4>3. new.forwarded => \A i \in 2 .. Len(new.store) :
                 handler[new.store[i]].content = handler[new.store[1]].content
          BY <3>1 DEF Unanimous
        <4>4. QED
          BY <4>2, <4>3
      <3>9. ASSUME NEW n \in DOMAIN rounds'[g], n = Len(rounds[g]) + 1
            PROVE  RoundSound(g, rounds[g][n])'
        <4>1. \A i \in DOMAIN new.store :
                 /\ handler'[new.store[i]].pc # "idle"
                 /\ handler'[new.store[i]].sender = launch[g].services[i]
                 /\ handler'[new.store[i]].content = handler[new.store[i]].content
          BY <3>7 DEF MadeBy, CallsStand
        <4>2. launch'[g] = launch[g] /\ rounds'[g][n] = new
          BY <3>5, <3>9
        <4>3. QED
          BY <3>7, <3>8, <4>1, <4>2 DEF RoundSound, MadeBy
      <3>10. ASSUME NEW n \in DOMAIN rounds'[g] PROVE RoundSound(g, rounds[g][n])'
        <4>1. n \in 1 .. Len(rounds[g]) \/ n = Len(rounds[g]) + 1
          BY <3>3, <3>5
        <4>2. QED
          BY <3>6, <3>9, <4>1
      <3>11. QED
        BY <1>2, <3>10 DEF RoundsSorted
    <2>4. QED
      BY <1>3, <2>2, <2>3
  <1>8. QED
    BY <1>4, <1>5, <1>6, <1>7 DEF SortedInv

-----------------------------------------------------------------------------
(* The steps.                                                              *)

(* A step that decides no round and takes no call. *)
LEMMA SortedFrame ==
    ASSUME SortedInv, IInv', CallsStand, QueuesSorted', UNCHANGED <<launch, rounds>>,
           \A g \in Sessions : /\ loop'[g].store = loop[g].store
                               /\ loop'[g].pc = "none" => loop[g].pc = "none"
    PROVE  SortedInv'
  <1>1. ASSUME NEW g \in Sessions PROVE StoreSorted(g)' /\ RoundsSorted(g)'
    <2>1. IInv /\ StoreSorted(g) /\ RoundsSorted(g)
      BY DEF SortedInv
    <2>2. QED
      BY <2>1, SessionStands
  <1>2. QED
    BY <1>1 DEF SortedInv

LEMMA StartSorted ==
    ASSUME SortedInv, IInv', CallsStand, NEW r \in Ids, NEW l \in ServiceLists, Start(r, l)
    PROVE  SortedInv'
  <1>1. IInv /\ QueuesSorted /\ \A g \in Sessions : StoreSorted(g) /\ RoundsSorted(g)
    BY DEF SortedInv
  <1>2. PICK g \in Sessions :
           /\ loop[g].pc = "none"
           /\ launch' = [launch EXCEPT ![g] = [id |-> r, services |-> l]]
           /\ loop' = [loop EXCEPT ![g].pc = "created"]
    BY DEF Start
  <1>3. UNCHANGED <<requests, rounds>>
    BY DEF Start
  <1>4. loop \in [Sessions -> Loop]
        /\ launch \in [Sessions -> [id : Ids \cup {None}, services : Seq(Services)]]
    BY <1>1 DEF IInv, TypeOK
  <1>5. QueuesSorted'
    BY <1>1, <1>3, QueuesStand
  <1>6. ASSUME NEW h \in Sessions, h # g PROVE StoreSorted(h)' /\ RoundsSorted(h)'
    <2>1. loop'[h] = loop[h] /\ launch'[h] = launch[h] /\ rounds'[h] = rounds[h]
      BY <1>2, <1>3, <1>4, <1>6
    <2>2. QED
      BY <1>1, <2>1, SessionStands
  <1>7. StoreSorted(g)' /\ RoundsSorted(g)'
    <2>1. loop'[g].pc = "created" /\ rounds'[g] = rounds[g]
      BY <1>2, <1>3, <1>4 DEF Loop
    <2>2. loop'[g].store = <<>>
      BY <2>1 DEF IInv, LoopInv
    <2>3. rounds'[g] = <<>>
      BY <1>1, <1>2, <2>1 DEF RoundsSorted
    <2>4. QED
      BY <2>2, <2>3 DEF StoreSorted, RoundsSorted
  <1>8. QED
    BY <1>5, <1>6, <1>7 DEF SortedInv

(* A stop takes no call out of a queue. *)
LEMMA StopItems ==
    ASSUME IInv, NEW r \in Ids, Stop(r)
    PROVE  \A x \in Sessions, s \in Services : requests'[x][s].items = requests[x][s].items
  <1>1. /\ loop \in [Sessions -> Loop] /\ registry[r] \in Sessions
        /\ requests \in [Sessions -> [Services -> Queue(Calls, Sessions)]]
    BY DEF IInv, TypeOK, Stop
  <1>2. PICK g \in Sessions : g = registry[r] /\ Cancel(g)
    BY <1>1 DEF Stop
  <1>3. CASE UNCHANGED requests
    BY <1>3
  <1>4. CASE loop[g].pc = "waiting"
    <2> DEFINE x == loop[g].on
               s == Awaited(g)
    <2>1. requests' = [requests EXCEPT ![x][s] = Withdraw(requests[x][s], g)]
      BY <1>1, <1>2, <1>4 DEF Cancel
    <2>2. loop[g].on # None
      BY <1>4 DEF IInv, LoopInv
    <2>3. x \in Sessions /\ s \in Services
      <3>1. x \in Sessions /\ s \in ServicesOf(x)
        BY <1>1, <2>2 DEF IInv, LoopInv, Loop
      <3>2. QED
        BY <3>1, NoneAssumption, HasQueueType DEF IInv, HasQueue
    <2> HIDE DEF x, s
    <2>4. Withdraw(requests[x][s], g).items = requests[x][s].items
      <3>1. requests[x][s] \in Queue(Calls, Sessions)
        BY <1>1, <2>3
      <3>2. \A i, j \in DOMAIN requests[x][s].getters :
               requests[x][s].getters[i] = requests[x][s].getters[j] => i = j
        BY <2>3 DEF IInv, LoopGetters, Distinct
      <3>3. QED
        BY <3>1, <3>2, WithdrawType
    <2>5. QED
      BY <1>1, <2>1, <2>3, <2>4
  <1>5. QED
    BY <1>2, <1>3, <1>4 DEF Cancel

LEMMA StopSorted ==
    ASSUME SortedInv, IInv', CallsStand, NEW r \in Ids, Stop(r)
    PROVE  SortedInv'
  <1>1. IInv /\ QueuesSorted
    BY DEF SortedInv
  <1>2. /\ loop \in [Sessions -> Loop] /\ registry[r] \in Sessions
        /\ requests \in [Sessions -> [Services -> Queue(Calls, Sessions)]]
    BY <1>1 DEF IInv, TypeOK, Stop
  <1>3. PICK g \in Sessions : g = registry[r] /\ Cancel(g) /\ UNCHANGED <<launch, rounds>>
    BY <1>2 DEF Stop
  <1>4. \A h \in Sessions : /\ loop'[h].store = loop[h].store
                            /\ loop'[h].pc = "none" => loop[h].pc = "none"
    <2>1. \/ loop' = [loop EXCEPT ![g].pc = "cancelled", ![g].on = None]
          \/ loop' = [loop EXCEPT ![g].pc = "cancelled"]
          \/ loop' = loop
      BY <1>3 DEF Cancel
    <2>2. CASE loop' = [loop EXCEPT ![g].pc = "cancelled", ![g].on = None]
      <3>1. loop'[g].store = loop[g].store /\ loop'[g].pc = "cancelled"
        BY <1>2, <2>2 DEF Loop
      <3>2. \A h \in Sessions \ {g} : loop'[h] = loop[h]
        BY <1>2, <2>2
      <3>3. QED
        BY <3>1, <3>2
    <2>3. CASE loop' = [loop EXCEPT ![g].pc = "cancelled"]
      BY <1>2, <2>3 DEF Loop
    <2>4. QED
      BY <2>1, <2>2, <2>3
  <1>5. \A x \in Sessions, s \in Services : requests'[x][s].items = requests[x][s].items
    BY <1>1, StopItems
  <1>6. QueuesSorted'
    BY <1>1, <1>5, QueuesStand
  <1>7. QED
    BY <1>3, <1>4, <1>6, SortedFrame

(* A cancelled task only passes a wake-up on. *)
LEMMA HandleCancelledItems ==
    ASSUME IInv, NEW g \in Sessions, HandleCancelled(g)
    PROVE  \A y \in Sessions, t \in Services : requests'[y][t].items = requests[y][t].items
  <1> DEFINE x == loop[g].on
             s == Awaited(g)
  <1>1. /\ loop \in [Sessions -> Loop]
        /\ requests \in [Sessions -> [Services -> Queue(Calls, Sessions)]]
    BY DEF IInv, TypeOK
  <1>2. CASE UNCHANGED requests
    BY <1>2
  <1>3. CASE x # None /\ ~IsEmpty(requests[x][s])
    <2>1. requests' = [requests EXCEPT ![x][s] = PassOn(requests[x][s])]
      BY <1>1, <1>3 DEF HandleCancelled
    <2>2. x \in Sessions /\ s \in Services
      <3>1. x \in Sessions /\ s \in ServicesOf(x)
        BY <1>1, <1>3 DEF IInv, LoopInv, Loop
      <3>2. QED
        BY <3>1, NoneAssumption, HasQueueType DEF IInv, HasQueue
    <2>3. ~IsEmpty(requests[x][s])
      BY <1>3
    <2> HIDE DEF x, s
    <2>4. PassOn(requests[x][s]).items = requests[x][s].items
      <3>1. requests[x][s] \in Queue(Calls, Sessions)
        BY <1>1, <2>2
      <3>2. QED
        BY <2>3, <3>1, PassOnType
    <2>5. QED
      BY <1>1, <2>1, <2>2, <2>4
  <1>4. QED
    BY <1>2, <1>3 DEF HandleCancelled

LEMMA HandleCancelledSorted ==
    ASSUME SortedInv, IInv', CallsStand, NEW g \in Sessions, HandleCancelled(g)
    PROVE  SortedInv'
  <1> DEFINE x == loop[g].on
             s == Awaited(g)
  <1>1. IInv /\ QueuesSorted
    BY DEF SortedInv
  <1>2. /\ loop \in [Sessions -> Loop]
        /\ requests \in [Sessions -> [Services -> Queue(Calls, Sessions)]]
    BY <1>1 DEF IInv, TypeOK
  <1>3. UNCHANGED <<launch, rounds>>
    BY DEF HandleCancelled
  <1>4. \A h \in Sessions : /\ loop'[h].store = loop[h].store
                            /\ loop'[h].pc = "none" => loop[h].pc = "none"
    <2>1. \/ loop' = [Wake(WokenBy(requests[x][s])) EXCEPT ![g].pc = "returned"]
          \/ loop' = [loop EXCEPT ![g].pc = "returned"]
      BY DEF HandleCancelled
    <2>2. CASE loop' = [Wake(WokenBy(requests[x][s])) EXCEPT ![g].pc = "returned"]
      BY <1>2, <2>2 DEF Wake, Loop
    <2>3. CASE loop' = [loop EXCEPT ![g].pc = "returned"]
      BY <1>2, <2>3 DEF Loop
    <2>4. QED
      BY <2>1, <2>2, <2>3
  <1>5. \A y \in Sessions, t \in Services : requests'[y][t].items = requests[y][t].items
    BY <1>1, HandleCancelledItems
  <1>6. QueuesSorted'
    BY <1>1, <1>5, QueuesStand
  <1>7. QED
    BY <1>3, <1>4, <1>6, SortedFrame

(* What the id of a started session is registered for. *)
LEMMA RegistryType ==
    ASSUME IInv, NEW g \in Sessions, Started(g)
    PROVE  registry[launch[g].id] \in Sessions \cup {None}
  <1>1. launch[g].id \in Ids \cup {None} /\ launch[g].id # None
    BY DEF IInv, TypeOK, Started
  <1>2. QED
    BY <1>1 DEF IInv, TypeOK

(* A call joins the queue of its sender. *)
LEMMA SubmitSorted ==
    ASSUME SortedInv, IInv', CallsStand, NEW c \in Calls, NEW g \in Sessions,
           NEW s \in Services, NEW x \in Contents, NEW h \in Hosts, Submit(c, g, s, x, h)
    PROVE  SortedInv'
  <1> DEFINE q == registry[launch[g].id]
  <1>1. IInv /\ QueuesSorted
    BY DEF SortedInv
  <1>2. /\ loop \in [Sessions -> Loop] /\ handler \in [Calls -> Handler]
        /\ requests \in [Sessions -> [Services -> Queue(Calls, Sessions)]]
    BY <1>1 DEF IInv, TypeOK
  <1>3. UNCHANGED <<launch, rounds>>
    BY DEF Submit
  <1>4. handler'[c].pc # "idle" /\ handler'[c].sender = s
    <2> DEFINE call == [pc |-> "error", on |-> None, origin |-> g, sender |-> s,
                        content |-> x, host |-> h, answer |-> NoAnswer]
    <2>1. \/ handler' = [handler EXCEPT ![c] = call]
          \/ handler' = [handler EXCEPT ![c] = [call EXCEPT !.pc = "waiting", !.on = q]]
          \/ handler' = [handler EXCEPT ![c] =
                [call EXCEPT !.pc = "answered", !.on = q,
                             !.answer = Head(responses[q][s].items)]]
      BY DEF Submit
    <2>2. /\ call.pc # "idle" /\ call.sender = s
          /\ [call EXCEPT !.pc = "waiting", !.on = q].pc = "waiting"
          /\ [call EXCEPT !.pc = "waiting", !.on = q].sender = s
          /\ [call EXCEPT !.pc = "answered", !.on = q,
                !.answer = Head(responses[q][s].items)].pc = "answered"
          /\ [call EXCEPT !.pc = "answered", !.on = q,
                !.answer = Head(responses[q][s].items)].sender = s
      OBVIOUS
    <2> HIDE DEF call
    <2>3. QED
      BY <1>2, <2>1, <2>2
  <1>5. CASE UNCHANGED <<requests, loop>>
    <2>1. QueuesSorted'
      BY <1>1, <1>5, QueuesStand
    <2>2. QED
      BY <1>3, <1>5, <2>1, SortedFrame
  <1>6. CASE HasQueue(q, s)
    <2>1. /\ requests' = [requests EXCEPT ![q][s] = PutNowait(requests[q][s], c)]
          /\ loop' = Wake(WokenBy(requests[q][s]))
      BY <1>2, <1>6 DEF Submit
    <2>2. q \in Sessions
      BY <1>1, <1>6, RegistryType DEF HasQueue, Submit
    <2> HIDE DEF q
    <2>3. \A k \in Sessions : /\ loop'[k].store = loop[k].store
                              /\ loop'[k].pc = "none" => loop[k].pc = "none"
      BY <1>2, <2>1 DEF Wake, Loop
    <2>4. PutNowait(requests[q][s], c).items = Append(requests[q][s].items, c)
      BY DEF PutNowait
    <2>5. /\ requests'[q][s].items = Append(requests[q][s].items, c)
          /\ \A y \in Sessions, t \in Services :
                ~(y = q /\ t = s) => requests'[y][t] = requests[y][t]
      BY <1>2, <2>1, <2>2, <2>4
    <2>6. ASSUME NEW y \in Sessions, NEW t \in Services,
                 NEW i \in DOMAIN requests[y][t].items
          PROVE  /\ handler'[requests[y][t].items[i]].pc # "idle"
                 /\ handler'[requests[y][t].items[i]].sender = t
      <3>1. requests[y][t].items[i] \in Calls
        BY <1>1, ItemType
      <3>2. MadeBy(requests[y][t].items[i], t)
        BY <1>1 DEF QueuesSorted
      <3>3. QED
        BY <3>1, <3>2 DEF MadeBy, CallsStand
    <2>7. ASSUME NEW y \in Sessions, NEW t \in Services,
                 NEW i \in DOMAIN requests'[y][t].items
          PROVE  /\ handler'[requests'[y][t].items[i]].pc # "idle"
                 /\ handler'[requests'[y][t].items[i]].sender = t
      <3>1. CASE y = q /\ t = s
        <4>1. /\ requests[y][t].items \in Seq(Calls)
              /\ requests'[y][t].items = Append(requests[y][t].items, c)
          BY <1>1, <2>5, <3>1, ItemType
        <4>2. /\ DOMAIN Append(requests[y][t].items, c) = 1 .. Len(requests[y][t].items) + 1
              /\ Len(requests[y][t].items) \in Nat
              /\ DOMAIN requests[y][t].items = 1 .. Len(requests[y][t].items)
              /\ \A k \in 1 .. Len(requests[y][t].items) :
                    Append(requests[y][t].items, c)[k] = requests[y][t].items[k]
              /\ Append(requests[y][t].items, c)[Len(requests[y][t].items) + 1] = c
          BY <4>1, AppendProperties, LenProperties
        <4>3. i \in 1 .. Len(requests[y][t].items) \/ i = Len(requests[y][t].items) + 1
          BY <4>1, <4>2
        <4>4. QED
          BY <1>4, <2>6, <3>1, <4>1, <4>2, <4>3
      <3>2. CASE ~(y = q /\ t = s)
        BY <2>5, <2>6, <3>2
      <3>3. QED
        BY <3>1, <3>2
    <2>8. QueuesSorted'
      BY <2>7 DEF QueuesSorted, MadeBy
    <2>9. QED
      BY <1>3, <2>3, <2>8, SortedFrame
  <1>7. QED
    BY <1>5, <1>6 DEF Submit

LEMMA RunLoopSorted ==
    ASSUME SortedInv, IInv', CallsStand, NEW g \in Sessions, RunLoop(g)
    PROVE  SortedInv'
  <1>1. IInv /\ StoreSorted(g)
    BY DEF SortedInv
  <1>2. /\ loop[g].store \in Seq(Calls) /\ Len(loop[g].store) \in Nat
        /\ DOMAIN loop[g].store = 1 .. Len(loop[g].store)
        /\ Len(launch[g].services) \in Nat
    BY <1>1, StoreType
  <1>3. /\ \A i \in DOMAIN loop[g].store :
              i <= Len(launch[g].services) /\ MadeBy(loop[g].store[i], launch[g].services[i])
    BY <1>1 DEF StoreSorted
  <1>4. Len(loop[g].store) <= Len(launch[g].services)
    BY <1>2, <1>3
  <1>5. loop[g].pc # "none" /\ Collect(g, loop[g].store) /\ UNCHANGED launch
    BY DEF RunLoop
  <1>6. QED
    BY <1>2, <1>3, <1>4, <1>5, CollectStep

LEMMA DeliverResponseSorted ==
    ASSUME SortedInv, IInv', CallsStand, NEW g \in Sessions, DeliverResponse(g)
    PROVE  SortedInv'
  <1>1. IInv /\ QueuesSorted
    BY DEF SortedInv
  <1>2. loop[g].pc # "none" /\ UNCHANGED launch
    BY DEF DeliverResponse
  <1>3. CASE Collect(g, <<>>)
    <2>1. <<>> \in Seq(Calls) /\ Len(<<>>) = 0 /\ DOMAIN <<>> = {}
      BY EmptySeq
    <2>2. Len(launch[g].services) \in Nat
      BY <1>1, StoreType
    <2>3. Len(<<>>) <= Len(launch[g].services)
      BY <2>1, <2>2
    <2>4. \A i \in DOMAIN <<>> : MadeBy(<<>>[i], launch[g].services[i])
      BY <2>1
    <2>5. QED
      BY <1>2, <1>3, <2>1, <2>3, <2>4, CollectStep
  <1>4. CASE loop' = [loop EXCEPT ![g].pc = "failed"] /\ UNCHANGED <<requests, rounds>>
    <2>1. loop \in [Sessions -> Loop]
      BY <1>1 DEF IInv, TypeOK
    <2>2. \A h \in Sessions : /\ loop'[h].store = loop[h].store
                              /\ loop'[h].pc = "none" => loop[h].pc = "none"
      BY <1>4, <2>1 DEF Loop
    <2>3. QueuesSorted'
      BY <1>1, <1>4, QueuesStand
    <2>4. QED
      BY <1>2, <1>4, <2>2, <2>3, SortedFrame
  <1>5. QED
    BY <1>3, <1>4 DEF DeliverResponse, NewStore

LEMMA NextSorted == ASSUME SortedInv, [Next]_vars PROVE SortedInv'
  <1>1. IInv' /\ CallsStand /\ IInv /\ QueuesSorted
    BY NextIInv, CallsStandStep DEF SortedInv
  <1>2. ASSUME UNCHANGED <<launch, loop, requests, rounds>> PROVE SortedInv'
    <2>1. QueuesSorted'
      BY <1>1, <1>2, QueuesStand
    <2>2. QED
      BY <1>1, <1>2, <2>1, SortedFrame
  <1>3. ASSUME NEW c \in Calls, ResumeHandler(c) PROVE SortedInv'
    BY <1>2, <1>3 DEF ResumeHandler
  <1>4. ASSUME NEW g \in Sessions, RoundFails(g) PROVE SortedInv'
    <2>1. loop \in [Sessions -> Loop]
      BY <1>1 DEF IInv, TypeOK
    <2>2. \A h \in Sessions : /\ loop'[h].store = loop[h].store
                              /\ loop'[h].pc = "none" => loop[h].pc = "none"
      BY <1>4, <2>1 DEF RoundFails, Loop
    <2>3. QueuesSorted' /\ UNCHANGED <<launch, rounds>>
      BY <1>1, <1>4, QueuesStand DEF RoundFails
    <2>4. QED
      BY <1>1, <2>2, <2>3, SortedFrame
  <1>5. CASE UNCHANGED vars
    BY <1>2, <1>5 DEF vars
  <1>6. QED
    BY <1>1, <1>3, <1>4, <1>5, StartSorted, StopSorted, SubmitSorted, RunLoopSorted,
       DeliverResponseSorted, HandleCancelledSorted DEF Next

-----------------------------------------------------------------------------
LEMMA InitSorted == Init => SortedInv
  <1> SUFFICES ASSUME Init PROVE SortedInv
    OBVIOUS
  <1>1. IInv
    BY InitIInv
  <1>2. QueuesSorted
    BY DEF Init, QueuesSorted, EmptyQueue
  <1>3. \A g \in Sessions : loop[g].store = <<>> /\ rounds[g] = <<>>
    BY DEF Init
  <1>4. \A g \in Sessions : StoreSorted(g) /\ RoundsSorted(g)
    BY <1>3 DEF StoreSorted, RoundsSorted
  <1>5. QED
    BY <1>1, <1>2, <1>4 DEF SortedInv

(* Whatever the egress proxy forwards, each chosen variant has asked for:  *)
(* a forwarded round holds one call of every one of them, in the order of  *)
(* the list, all of one content (request_store, verify_requests_equal).    *)
THEOREM OnlyUnanimous == Spec => []OnlyUnanimousForwarded
  <1>1. SortedInv => OnlyUnanimousForwarded
    <2>1. SUFFICES ASSUME SortedInv, NEW g \in Sessions, NEW n \in DOMAIN rounds[g],
                          rounds[g][n].forwarded
                   PROVE  /\ Len(rounds[g][n].store) = Len(launch[g].services)
                          /\ \A i \in DOMAIN rounds[g][n].store :
                                handler[rounds[g][n].store[i]].sender = launch[g].services[i]
                          /\ \A i, j \in DOMAIN rounds[g][n].store :
                                handler[rounds[g][n].store[i]].content
                                  = handler[rounds[g][n].store[j]].content
      BY DEF OnlyUnanimousForwarded
    <2>2. RoundSound(g, rounds[g][n])
      BY <2>1 DEF SortedInv, RoundsSorted
    <2>3. QED
      BY <2>1, <2>2 DEF RoundSound, MadeBy
  <1>2. QED
    BY <1>1, InitSorted, NextSorted, PTL DEF Spec

-----------------------------------------------------------------------------
(* No call counts twice.                                                   *)

(* Loops whose store will be part of a round; the others either start      *)
(* their next round anew or never go on.                                   *)
Collecting(g) == loop[g].pc \in {"created", "waiting", "woken"}

Queued(c) ==
    \E x \in Sessions, s \in Services : \E i \in DOMAIN requests[x][s].items :
        requests[x][s].items[i] = c

Held(c) ==
    \E g \in Sessions : Collecting(g) /\ \E i \in DOMAIN loop[g].store : loop[g].store[i] = c

Decided(c) ==
    \E g \in Sessions : \E n \in DOMAIN rounds[g] : \E i \in DOMAIN rounds[g][n].store :
        rounds[g][n].store[i] = c

(* A call is in one place of a kind, and in places of one kind.            *)
QueuedOnce ==
    \A x, y \in Sessions, s, t \in Services :
        \A i \in DOMAIN requests[x][s].items, j \in DOMAIN requests[y][t].items :
            requests[x][s].items[i] = requests[y][t].items[j] => x = y /\ s = t /\ i = j

HeldOnce ==
    \A g, h \in Sessions : Collecting(g) /\ Collecting(h) =>
        \A i \in DOMAIN loop[g].store, j \in DOMAIN loop[h].store :
            loop[g].store[i] = loop[h].store[j] => g = h /\ i = j

Apart ==
    \A c \in Calls : /\ Queued(c) => ~Held(c) /\ ~Decided(c)
                     /\ Held(c) => ~Decided(c)

Places  == QueuedOnce /\ HeldOnce /\ CallDecidedOnce /\ Apart
OnceInv == SortedInv /\ Places

-----------------------------------------------------------------------------
(* A call that nobody has made is nowhere. *)
LEMMA IdleNowhere ==
    ASSUME SortedInv, NEW c \in Calls, handler[c].pc = "idle"
    PROVE  ~Queued(c) /\ ~Held(c) /\ ~Decided(c)
  <1>1. ~Queued(c)
    BY DEF SortedInv, QueuesSorted, Queued, MadeBy
  <1>2. ~Held(c)
    BY DEF SortedInv, StoreSorted, Held, MadeBy
  <1>3. ~Decided(c)
    BY DEF SortedInv, RoundsSorted, RoundSound, Decided, MadeBy
  <1>4. QED
    BY <1>1, <1>2, <1>3

(* A step that moves no call. *)
LEMMA PlacesFrame ==
    ASSUME OnceInv, UNCHANGED rounds,
           \A x \in Sessions, s \in Services : requests'[x][s].items = requests[x][s].items,
           \A g \in Sessions : Collecting(g)' =>
              loop'[g].store = <<>> \/ (Collecting(g) /\ loop'[g].store = loop[g].store)
    PROVE  Places'
  <1>1. DOMAIN <<>> = {}
    OBVIOUS
  <1>2. QueuedOnce'
    BY DEF OnceInv, Places, QueuedOnce
  <1>3. HeldOnce'
    <2>1. SUFFICES ASSUME NEW g \in Sessions, NEW h \in Sessions, Collecting(g)', Collecting(h)',
                          NEW i \in DOMAIN loop'[g].store, NEW j \in DOMAIN loop'[h].store,
                          loop'[g].store[i] = loop'[h].store[j]
                   PROVE  g = h /\ i = j
      BY DEF HeldOnce
    <2>2. /\ Collecting(g) /\ loop'[g].store = loop[g].store
          /\ Collecting(h) /\ loop'[h].store = loop[h].store
      BY <1>1, <2>1
    <2>3. QED
      BY <2>1, <2>2 DEF OnceInv, Places, HeldOnce
  <1>4. CallDecidedOnce'
    BY DEF OnceInv, Places, CallDecidedOnce
  <1>5. Apart'
    <2>1. ASSUME NEW c \in Calls
          PROVE  /\ Queued(c)' => Queued(c)
                 /\ Held(c)' => Held(c)
                 /\ Decided(c)' => Decided(c)
      <3>1. Queued(c)' => Queued(c)
        BY DEF Queued
      <3>2. Held(c)' => Held(c)
        BY <1>1 DEF Held
      <3>3. Decided(c)' => Decided(c)
        BY DEF Decided
      <3>4. QED
        BY <3>1, <3>2, <3>3
    <2>2. QED
      BY <2>1 DEF OnceInv, Places, Apart
  <1>6. QED
    BY <1>2, <1>3, <1>4, <1>5 DEF Places

(* What a stretch of the loop takes is in its store, and nowhere else.     *)
LEMMA CollectPlaces ==
    ASSUME OnceInv, IInv', NEW g \in Sessions, NEW store \in Seq(Calls),
           loop[g].pc # "none", Collect(g, store),
           Len(store) <= Len(launch[g].services),
           \A i \in DOMAIN store : /\ Collecting(g) /\ i \in DOMAIN loop[g].store
                                   /\ store[i] = loop[g].store[i]
    PROVE  Places'
  <1>1. /\ IInv /\ SortedInv
        /\ QueuedOnce /\ HeldOnce /\ CallDecidedOnce /\ Apart
    BY DEF OnceInv, Places, SortedInv
  <1>2. /\ \A x \in Sessions, s \in Services : Kept(x, s) \/ Popped(x, s)
        /\ \A i \in DOMAIN loop'[g].store :
              /\ i \in DOMAIN launch[g].services /\ i <= Len(launch[g].services)
              /\ loop'[g].store[i] \in Calls
              /\ (i \in DOMAIN store /\ loop'[g].store[i] = store[i]) \/ Takes(g, i)
        /\ \/ rounds'[g] = rounds[g]
           \/ /\ loop'[g].pc \in {"forwarding", "rejecting"}
              /\ Len(loop'[g].store) = Len(launch[g].services)
              /\ rounds'[g] = Append(rounds[g],
                   [store |-> loop'[g].store, forwarded |-> Unanimous(loop'[g].store)])
    BY <1>1, CollectMoves
  <1>3. \A h \in Sessions \ {g} : loop'[h] = loop[h] /\ rounds'[h] = rounds[h]
    BY <1>1, CollectEffect
  <1>4. \A i, j \in DOMAIN launch[g].services :
           launch[g].services[i] = launch[g].services[j] => i = j
    <2>1. launch[g].services \in ServiceLists
      BY <1>1 DEF IInv, LaunchInv
    <2>2. QED
      BY <2>1, ServiceListsAssumption
  <1>5. \A x \in Sessions, s \in Services : \A i \in DOMAIN requests'[x][s].items : i \in Nat \ {0}
    <2>1. ASSUME NEW x \in Sessions, NEW s \in Services
          PROVE  /\ Len(requests'[x][s].items) \in Nat
                 /\ DOMAIN requests'[x][s].items = 1 .. Len(requests'[x][s].items)
      <3>1. requests' \in [Sessions -> [Services -> Queue(Calls, Sessions)]]
        BY DEF IInv, TypeOK
      <3>2. requests'[x][s].items \in Seq(Calls)
        BY <3>1 DEF Queue
      <3>3. QED
        BY <3>2, LenProperties
    <2>2. QED
      BY <2>1
  <1>6. QueuedOnce'
    <2>1. SUFFICES ASSUME NEW x \in Sessions, NEW y \in Sessions,
                          NEW s \in Services, NEW t \in Services,
                          NEW i \in DOMAIN requests'[x][s].items,
                          NEW j \in DOMAIN requests'[y][t].items,
                          requests'[x][s].items[i] = requests'[y][t].items[j]
                   PROVE  x = y /\ s = t /\ i = j
      BY DEF QueuedOnce
    <2>2. i \in Nat /\ j \in Nat
      BY <1>5
    <2>3. x = y /\ s = t
      <3>1. \E k \in DOMAIN requests[x][s].items : requests[x][s].items[k] = requests'[x][s].items[i]
        BY <1>2, <2>1 DEF Kept, Popped
      <3>2. \E k \in DOMAIN requests[y][t].items : requests[y][t].items[k] = requests'[y][t].items[j]
        BY <1>2, <2>1 DEF Kept, Popped
      <3>3. QED
        BY <1>1, <2>1, <3>1, <3>2 DEF QueuedOnce
    <2>4. CASE Kept(x, s)
      BY <1>1, <2>1, <2>3, <2>4 DEF QueuedOnce, Kept
    <2>5. CASE Popped(x, s)
      <3>1. i + 1 = j + 1
        BY <1>1, <2>1, <2>3, <2>5 DEF QueuedOnce, Popped
      <3>2. QED
        BY <2>2, <2>3, <3>1
    <2>6. QED
      BY <1>2, <2>4, <2>5
  <1>7. \A c : Queued(c)' => Queued(c)
    BY <1>2 DEF Queued, Kept, Popped
  <1>8. ASSUME NEW i \in DOMAIN loop'[g].store, NEW c \in Calls, c = loop'[g].store[i]
        PROVE  /\ ~Queued(c)' /\ ~Decided(c)
               /\ \A h \in Sessions \ {g} : Collecting(h) =>
                     \A j \in DOMAIN loop[h].store : loop[h].store[j] # c
               /\ \A j \in DOMAIN loop'[g].store : loop'[g].store[j] = c => j = i
    <2>1. CASE i \in DOMAIN store /\ loop'[g].store[i] = store[i]
      <3>1. Collecting(g) /\ i \in DOMAIN loop[g].store /\ loop[g].store[i] = c
        BY <1>8, <2>1
      <3>2. Held(c)
        BY <3>1 DEF Held
      <3>3. ~Queued(c) /\ ~Decided(c)
        BY <1>1, <3>2 DEF Apart
      <3>4. \A h \in Sessions \ {g} : Collecting(h) =>
               \A j \in DOMAIN loop[h].store : loop[h].store[j] # c
        BY <1>1, <3>1 DEF HeldOnce
      <3>5. ASSUME NEW j \in DOMAIN loop'[g].store, loop'[g].store[j] = c PROVE j = i
        <4>1. CASE j \in DOMAIN store /\ loop'[g].store[j] = store[j]
          BY <1>1, <3>1, <3>5, <4>1 DEF HeldOnce
        <4>2. CASE Takes(g, j)
          <5>1. Queued(c)
            BY <3>5, <4>2 DEF Takes, Popped, Queued
          <5>2. QED
            BY <3>3, <5>1
        <4>3. QED
          BY <1>2, <4>1, <4>2
      <3>6. QED
        BY <1>7, <3>3, <3>4, <3>5
    <2>2. CASE Takes(g, i)
      <3>1. PICK x \in Sessions, s \in Services :
               /\ s = launch[g].services[i] /\ Popped(x, s)
               /\ 1 \in DOMAIN requests[x][s].items /\ requests[x][s].items[1] = c
        BY <1>8, <2>2 DEF Takes, Popped
      <3>2. Queued(c)
        BY <3>1 DEF Queued
      <3>3. ~Held(c) /\ ~Decided(c)
        BY <1>1, <3>2 DEF Apart
      <3>4. ~Queued(c)'
        <4>1. SUFFICES ASSUME NEW y \in Sessions, NEW t \in Services,
                              NEW k \in DOMAIN requests'[y][t].items,
                              requests'[y][t].items[k] = c
                       PROVE  FALSE
          BY DEF Queued
        <4>2. y = x /\ t = s
          <5>1. CASE Kept(y, t)
            <6>1. k \in DOMAIN requests[y][t].items /\ requests[y][t].items[k] = c
              BY <4>1, <5>1 DEF Kept
            <6>2. QED
              BY <1>1, <3>1, <6>1 DEF QueuedOnce
          <5>2. CASE Popped(y, t)
            <6>1. k + 1 \in DOMAIN requests[y][t].items /\ requests[y][t].items[k + 1] = c
              BY <4>1, <5>2 DEF Popped
            <6>2. QED
              BY <1>1, <3>1, <6>1 DEF QueuedOnce
          <5>3. QED
            BY <1>2, <5>1, <5>2
        <4>3. k + 1 = 1
          BY <1>1, <3>1, <4>1, <4>2 DEF QueuedOnce, Popped
        <4>4. QED
          BY <1>5, <4>3
      <3>5. ASSUME NEW j \in DOMAIN loop'[g].store, loop'[g].store[j] = c PROVE j = i
        <4>1. CASE j \in DOMAIN store /\ loop'[g].store[j] = store[j]
          <5>1. Held(c)
            BY <3>5, <4>1 DEF Held
          <5>2. QED
            BY <3>3, <5>1
        <4>2. CASE Takes(g, j)
          <5>1. PICK y \in Sessions, t \in Services :
                   /\ t = launch[g].services[j] /\ 1 \in DOMAIN requests[y][t].items
                   /\ requests[y][t].items[1] = c
            BY <3>5, <4>2 DEF Takes, Popped
          <5>2. t = s
            BY SMTT(30), <1>1, <3>1, <5>1 DEF QueuedOnce
          <5>3. i \in DOMAIN launch[g].services /\ j \in DOMAIN launch[g].services
            BY <1>2
          <5>4. QED
            BY <1>4, <3>1, <5>1, <5>2, <5>3
        <4>3. QED
          BY <1>2, <4>1, <4>2
      <3>6. QED
        BY <3>3, <3>4, <3>5 DEF Held
    <2>3. QED
      BY <1>2, <2>1, <2>2
  <1>9. Collecting(g)' => rounds'[g] = rounds[g]
    BY <1>2 DEF Collecting
  <1>10. \A c \in Calls : Held(c)' =>
           \/ Held(c) /\ \A i \in DOMAIN loop'[g].store : loop'[g].store[i] # c
           \/ Collecting(g)' /\ \E i \in DOMAIN loop'[g].store : loop'[g].store[i] = c
    <2>1. SUFFICES ASSUME NEW c \in Calls, NEW h \in Sessions, Collecting(h)',
                          NEW j \in DOMAIN loop'[h].store, loop'[h].store[j] = c
                   PROVE  \/ Held(c) /\ \A i \in DOMAIN loop'[g].store : loop'[g].store[i] # c
                          \/ Collecting(g)' /\ \E i \in DOMAIN loop'[g].store :
                                                  loop'[g].store[i] = c
      BY DEF Held
    <2>2. CASE h = g
      BY <2>1, <2>2
    <2>3. CASE h # g
      <3>1. loop'[h] = loop[h] /\ Collecting(h) /\ loop[h].store[j] = c
        BY <1>3, <2>1, <2>3 DEF Collecting
      <3>2. Held(c)
        BY <2>1, <3>1 DEF Held
      <3>3. \A i \in DOMAIN loop'[g].store : loop'[g].store[i] # c
        BY <1>8, <2>1, <2>3, <3>1
      <3>4. QED
        BY <3>2, <3>3
    <2>4. QED
      BY <2>2, <2>3
  <1>11. HeldOnce'
    <2>1. SUFFICES ASSUME NEW h \in Sessions, NEW k \in Sessions, Collecting(h)', Collecting(k)',
                          NEW i \in DOMAIN loop'[h].store, NEW j \in DOMAIN loop'[k].store,
                          loop'[h].store[i] = loop'[k].store[j]
                   PROVE  h = k /\ i = j
      BY DEF HeldOnce
    <2>2. CASE h = g
      <3>1. loop'[g].store[i] \in Calls
        BY <1>2, <2>2
      <3>2. QED
        BY <1>3, <1>8, <2>1, <2>2, <3>1 DEF Collecting
    <2>3. CASE k = g
      <3>1. loop'[g].store[j] \in Calls
        BY <1>2, <2>3
      <3>2. QED
        BY <1>3, <1>8, <2>1, <2>3, <3>1 DEF Collecting
    <2>4. CASE h # g /\ k # g
      BY <1>1, <1>3, <2>1, <2>4 DEF HeldOnce, Collecting
    <2>5. QED
      BY <2>2, <2>3, <2>4
  <1>12. CASE rounds'[g] = rounds[g]
    <2>1. \A h \in Sessions : rounds'[h] = rounds[h]
      BY <1>3, <1>12
    <2>2. CallDecidedOnce' /\ \A c : Decided(c)' => Decided(c)
      <3>1. CallDecidedOnce'
        BY <1>1, <2>1 DEF CallDecidedOnce
      <3>2. \A c : Decided(c)' => Decided(c)
        BY <2>1 DEF Decided
      <3>3. QED
        BY <3>1, <3>2
    <2>3. Apart'
      <3>1. SUFFICES ASSUME NEW c \in Calls
                     PROVE  /\ Queued(c)' => ~Held(c)' /\ ~Decided(c)'
                            /\ Held(c)' => ~Decided(c)'
        BY DEF Apart
      <3>2. QED
        BY <1>1, <1>7, <1>8, <1>10, <2>2 DEF Apart
    <2>4. QED
      BY <1>6, <1>11, <2>2, <2>3 DEF Places
  <1>13. CASE /\ loop'[g].pc \in {"forwarding", "rejecting"}
              /\ rounds'[g] = Append(rounds[g],
                   [store |-> loop'[g].store, forwarded |-> Unanimous(loop'[g].store)])
    <2> DEFINE new == [store |-> loop'[g].store, forwarded |-> Unanimous(loop'[g].store)]
    <2>1. new.store = loop'[g].store /\ rounds'[g] = Append(rounds[g], new)
      BY <1>13
    <2>2. new \in Round
      <3>1. loop' \in [Sessions -> Loop]
        BY DEF IInv, TypeOK
      <3>2. loop'[g].store \in Seq(Calls) /\ Unanimous(loop'[g].store) \in BOOLEAN
        BY <3>1 DEF Loop, Unanimous
      <3>3. QED
        BY <3>2 DEF Round
    <2> HIDE DEF new
    <2>3. /\ DOMAIN rounds'[g] = 1 .. Len(rounds[g]) + 1
          /\ DOMAIN rounds[g] = 1 .. Len(rounds[g]) /\ Len(rounds[g]) \in Nat
          /\ \A n \in DOMAIN rounds[g] : rounds'[g][n] = rounds[g][n]
          /\ rounds'[g][Len(rounds[g]) + 1] = new
      <3>1. rounds[g] \in Seq(Round) /\ Len(rounds[g]) \in Nat
            /\ DOMAIN rounds[g] = 1 .. Len(rounds[g])
        BY <1>1, StoreType
      <3>2. /\ Append(rounds[g], new) \in Seq(Round)
            /\ Len(Append(rounds[g], new)) = Len(rounds[g]) + 1
            /\ \A n \in 1 .. Len(rounds[g]) : Append(rounds[g], new)[n] = rounds[g][n]
            /\ Append(rounds[g], new)[Len(rounds[g]) + 1] = new
        BY <2>2, <3>1, AppendProperties
      <3>3. DOMAIN Append(rounds[g], new) = 1 .. Len(rounds[g]) + 1
        BY <3>2, LenProperties
      <3>4. QED
        BY <2>1, <3>1, <3>2, <3>3
    <2>4. ASSUME NEW h \in Sessions, NEW n \in DOMAIN rounds'[h]
          PROVE  \/ n \in DOMAIN rounds[h] /\ rounds'[h][n] = rounds[h][n]
                 \/ h = g /\ n = Len(rounds[g]) + 1 /\ rounds'[h][n].store = loop'[g].store
      <3>1. CASE h = g
        <4>1. n \in DOMAIN rounds[g] \/ n = Len(rounds[g]) + 1
          BY <2>3, <2>4, <3>1
        <4>2. QED
          BY <2>1, <2>3, <3>1, <4>1
      <3>2. CASE h # g
        BY <1>3, <2>4, <3>2
      <3>3. QED
        BY <3>1, <3>2
    <2>5. \A c : Decided(c)' =>
             Decided(c) \/ \E i \in DOMAIN loop'[g].store : loop'[g].store[i] = c
      BY <2>4 DEF Decided
    <2>6. CallDecidedOnce'
      <3>1. SUFFICES ASSUME NEW h \in Sessions, NEW k \in Sessions,
                            NEW n \in DOMAIN rounds'[h], NEW m \in DOMAIN rounds'[k],
                            NEW i \in DOMAIN rounds'[h][n].store,
                            NEW j \in DOMAIN rounds'[k][m].store,
                            rounds'[h][n].store[i] = rounds'[k][m].store[j]
                     PROVE  h = k /\ n = m /\ i = j
        BY DEF CallDecidedOnce
      <3>2. CASE n \in DOMAIN rounds[h] /\ rounds'[h][n] = rounds[h][n]
        <4>1. Decided(rounds'[h][n].store[i])
          BY <3>1, <3>2 DEF Decided
        <4>2. CASE m \in DOMAIN rounds[k] /\ rounds'[k][m] = rounds[k][m]
          BY <1>1, <3>1, <3>2, <4>2 DEF CallDecidedOnce
        <4>3. CASE rounds'[k][m].store = loop'[g].store
          <5>1. loop'[g].store[j] \in Calls /\ ~Decided(loop'[g].store[j])
            BY <1>2, <1>8, <3>1, <4>3
          <5>2. QED
            BY <3>1, <4>1, <4>3, <5>1
        <4>4. QED
          BY <2>4, <4>2, <4>3
      <3>3. CASE h = g /\ n = Len(rounds[g]) + 1 /\ rounds'[h][n].store = loop'[g].store
        <4>1. loop'[g].store[i] \in Calls /\ ~Decided(loop'[g].store[i])
          BY <1>2, <1>8, <3>1, <3>3
        <4>2. CASE m \in DOMAIN rounds[k] /\ rounds'[k][m] = rounds[k][m]
          <5>1. Decided(rounds'[k][m].store[j])
            BY <3>1, <4>2 DEF Decided
          <5>2. QED
            BY <3>1, <3>3, <4>1, <5>1
        <4>3. CASE k = g /\ m = Len(rounds[g]) + 1 /\ rounds'[k][m].store = loop'[g].store
          <5>1. i \in DOMAIN loop'[g].store /\ j \in DOMAIN loop'[g].store
                /\ loop'[g].store[j] = loop'[g].store[i]
            BY <3>1, <3>3, <4>3
          <5>2. j = i
            BY <1>8, <4>1, <5>1
          <5>3. QED
            BY <3>3, <4>3, <5>2
        <4>4. QED
          BY <2>4, <4>2, <4>3
      <3>4. QED
        BY <2>4, <3>2, <3>3
    <2>7. Apart'
      <3>1. SUFFICES ASSUME NEW c \in Calls
                     PROVE  /\ Queued(c)' => ~Held(c)' /\ ~Decided(c)'
                            /\ Held(c)' => ~Decided(c)'
        BY DEF Apart
      <3>2. ~Collecting(g)'
        BY <1>13 DEF Collecting
      <3>3. QED
        BY <1>1, <1>7, <1>8, <1>10, <2>5, <3>2 DEF Apart
    <2>8. QED
      BY <1>6, <1>11, <2>6, <2>7 DEF Places
  <1>14. QED
    BY <1>2, <1>12, <1>13

-----------------------------------------------------------------------------
(* The steps.                                                              *)

LEMMA FailPlaces ==
    ASSUME OnceInv, NEW g \in Sessions,
           loop' = [loop EXCEPT ![g].pc = "failed"], UNCHANGED <<requests, rounds>>
    PROVE  Places'
  <1>1. loop \in [Sessions -> Loop]
    BY DEF OnceInv, SortedInv, IInv, TypeOK
  <1>2. loop'[g].pc = "failed" /\ \A h \in Sessions \ {g} : loop'[h] = loop[h]
    BY <1>1 DEF Loop
  <1>3. QED
    BY <1>2, PlacesFrame DEF Collecting

LEMMA StartPlaces ==
    ASSUME OnceInv, IInv', NEW r \in Ids, NEW l \in ServiceLists, Start(r, l)
    PROVE  Places'
  <1>1. loop \in [Sessions -> Loop]
    BY DEF OnceInv, SortedInv, IInv, TypeOK
  <1>2. PICK g \in Sessions : loop' = [loop EXCEPT ![g].pc = "created"]
    BY DEF Start
  <1>3. UNCHANGED <<requests, rounds>>
    BY DEF Start
  <1>4. loop'[g].store = <<>>
    <2>1. loop'[g].pc = "created"
      BY <1>1, <1>2 DEF Loop
    <2>2. QED
      BY <2>1 DEF IInv, LoopInv
  <1>5. \A h \in Sessions \ {g} : loop'[h] = loop[h]
    BY <1>1, <1>2
  <1>6. QED
    BY <1>3, <1>4, <1>5, PlacesFrame DEF Collecting

LEMMA StopPlaces ==
    ASSUME OnceInv, NEW r \in Ids, Stop(r)
    PROVE  Places'
  <1>1. SortedInv /\ IInv
    BY DEF OnceInv, SortedInv
  <1>2. loop \in [Sessions -> Loop] /\ registry[r] \in Sessions
    BY <1>1 DEF IInv, TypeOK, Stop
  <1>3. PICK g \in Sessions : g = registry[r] /\ Cancel(g) /\ UNCHANGED rounds
    BY <1>2 DEF Stop
  <1>4. \A h \in Sessions : Collecting(h)' => Collecting(h) /\ loop'[h].store = loop[h].store
    <2>1. CASE loop[g].pc = "waiting"
      <3>1. loop' = [loop EXCEPT ![g].pc = "cancelled", ![g].on = None]
        BY <1>3, <2>1 DEF Cancel
      <3>2. loop'[g].pc = "cancelled" /\ \A h \in Sessions \ {g} : loop'[h] = loop[h]
        BY <1>2, <3>1 DEF Loop
      <3>3. QED
        BY <3>2 DEF Collecting
    <2>2. CASE loop[g].pc \in {"created", "woken", "forwarding", "rejecting"}
      <3>1. loop' = [loop EXCEPT ![g].pc = "cancelled"]
        BY <1>3, <2>2 DEF Cancel
      <3>2. loop'[g].pc = "cancelled" /\ \A h \in Sessions \ {g} : loop'[h] = loop[h]
        BY <1>2, <3>1 DEF Loop
      <3>3. QED
        BY <3>2 DEF Collecting
    <2>3. CASE loop' = loop
      BY <2>3 DEF Collecting
    <2>4. QED
      BY <1>3, <2>1, <2>2, <2>3 DEF Cancel
  <1>5. \A x \in Sessions, s \in Services : requests'[x][s].items = requests[x][s].items
    BY <1>1, StopItems
  <1>6. QED
    BY <1>3, <1>4, <1>5, PlacesFrame

LEMMA HandleCancelledPlaces ==
    ASSUME OnceInv, NEW g \in Sessions, HandleCancelled(g)
    PROVE  Places'
  <1> DEFINE x == loop[g].on
             s == Awaited(g)
  <1>1. SortedInv /\ IInv
    BY DEF OnceInv, SortedInv
  <1>2. loop \in [Sessions -> Loop]
    BY <1>1 DEF IInv, TypeOK
  <1>3. \A h \in Sessions : Collecting(h)' => Collecting(h) /\ loop'[h].store = loop[h].store
    <2>1. CASE x # None /\ ~IsEmpty(requests[x][s])
      <3>1. loop' = [Wake(WokenBy(requests[x][s])) EXCEPT ![g].pc = "returned"]
        BY <2>1 DEF HandleCancelled
      <3>2. x \in Sessions /\ s \in Services
        <4>1. x \in Sessions /\ s \in ServicesOf(x)
          BY <1>1, <1>2, <2>1 DEF IInv, LoopInv, Loop
        <4>2. QED
          BY <1>1, <4>1, NoneAssumption, HasQueueType DEF IInv, HasQueue
      <3> HIDE DEF x, s
      <3>3. \A h \in WokenBy(requests[x][s]) : loop[h].pc = "waiting"
        BY <1>1, <3>2, WakeActive
      <3>4. /\ loop'[g].pc = "returned"
            /\ \A h \in Sessions \ {g} :
                  loop'[h] = IF h \in WokenBy(requests[x][s])
                             THEN [loop[h] EXCEPT !.pc = "woken"] ELSE loop[h]
        BY <1>2, <3>1 DEF Wake, Loop
      <3>5. \A h \in Sessions : [loop[h] EXCEPT !.pc = "woken"].store = loop[h].store
        BY <1>2 DEF Loop
      <3>6. QED
        BY <3>3, <3>4, <3>5 DEF Collecting
    <2>2. CASE loop' = [loop EXCEPT ![g].pc = "returned"]
      <3>1. loop'[g].pc = "returned" /\ \A h \in Sessions \ {g} : loop'[h] = loop[h]
        BY <1>2, <2>2 DEF Loop
      <3>2. QED
        BY <3>1 DEF Collecting
    <2>3. QED
      BY <2>1, <2>2 DEF HandleCancelled
  <1>4. \A y \in Sessions, t \in Services : requests'[y][t].items = requests[y][t].items
    BY <1>1, HandleCancelledItems
  <1>5. UNCHANGED rounds
    BY DEF HandleCancelled
  <1>6. QED
    BY <1>3, <1>4, <1>5, PlacesFrame

(* A call that is made was nowhere, and joins one queue. *)
LEMMA SubmitPlaces ==
    ASSUME OnceInv, NEW c \in Calls, NEW g \in Sessions, NEW s \in Services,
           NEW x \in Contents, NEW h \in Hosts, Submit(c, g, s, x, h)
    PROVE  Places'
  <1> DEFINE q == registry[launch[g].id]
  <1>1. /\ SortedInv /\ IInv /\ QueuedOnce /\ HeldOnce /\ CallDecidedOnce /\ Apart
    BY DEF OnceInv, SortedInv, Places
  <1>2. loop \in [Sessions -> Loop]
        /\ requests \in [Sessions -> [Services -> Queue(Calls, Sessions)]]
    BY <1>1 DEF IInv, TypeOK
  <1>3. UNCHANGED rounds
    BY DEF Submit
  <1>4. CASE UNCHANGED <<requests, loop>>
    BY <1>3, <1>4, PlacesFrame DEF Collecting
  <1>5. CASE HasQueue(q, s)
    <2>1. /\ requests' = [requests EXCEPT ![q][s] = PutNowait(requests[q][s], c)]
          /\ loop' = Wake(WokenBy(requests[q][s]))
      BY <1>2, <1>5 DEF Submit
    <2>2. q \in Sessions
      BY <1>1, <1>5, RegistryType DEF HasQueue, Submit
    <2> HIDE DEF q
    <2>3. \A k \in Sessions : /\ loop'[k].store = loop[k].store
                              /\ Collecting(k)' => Collecting(k)
      <3>1. \A k \in WokenBy(requests[q][s]) : loop[k].pc = "waiting"
        BY <1>1, <2>2, WakeActive
      <3>2. \A k \in Sessions : [loop[k] EXCEPT !.pc = "woken"].store = loop[k].store
        BY <1>2 DEF Loop
      <3>3. QED
        BY <2>1, <3>1, <3>2 DEF Wake, Collecting
    <2>4. /\ requests'[q][s].items = Append(requests[q][s].items, c)
          /\ \A y \in Sessions, t \in Services :
                ~(y = q /\ t = s) => requests'[y][t] = requests[y][t]
      BY <1>2, <2>1, <2>2 DEF PutNowait
    <2>5. /\ Len(requests[q][s].items) \in Nat
          /\ DOMAIN requests[q][s].items = 1 .. Len(requests[q][s].items)
          /\ DOMAIN requests'[q][s].items = 1 .. Len(requests[q][s].items) + 1
          /\ \A i \in DOMAIN requests[q][s].items :
                requests'[q][s].items[i] = requests[q][s].items[i]
          /\ requests'[q][s].items[Len(requests[q][s].items) + 1] = c
      <3>1. requests[q][s].items \in Seq(Calls)
        BY <1>1, <2>2, ItemType
      <3>2. QED
        BY SMTT(30), <2>4, <3>1, AppendProperties, LenProperties
    <2>6. ~Queued(c) /\ ~Held(c) /\ ~Decided(c)
      BY <1>1, IdleNowhere DEF Submit
    <2>7. ASSUME NEW y \in Sessions, NEW t \in Services, NEW i \in DOMAIN requests'[y][t].items
          PROVE  \/ /\ i \in DOMAIN requests[y][t].items
                    /\ requests'[y][t].items[i] = requests[y][t].items[i]
                    /\ requests[y][t].items[i] # c
                 \/ /\ y = q /\ t = s /\ i = Len(requests[q][s].items) + 1
                    /\ requests'[y][t].items[i] = c
      <3>1. CASE y = q /\ t = s
        <4>1. i \in DOMAIN requests[q][s].items \/ i = Len(requests[q][s].items) + 1
          <5>1. i \in 1 .. Len(requests[q][s].items) + 1
            BY <2>5, <3>1
          <5>2. QED
            BY <2>5, <5>1
        <4>2. QED
          BY <2>5, <2>6, <3>1, <4>1 DEF Queued
      <3>2. CASE ~(y = q /\ t = s)
        BY <2>4, <2>6, <3>2 DEF Queued
      <3>3. QED
        BY <3>1, <3>2
    <2>8. QueuedOnce'
      BY <1>1, <2>7 DEF QueuedOnce
    <2>9. \A d \in Calls : /\ Queued(d)' => Queued(d) \/ d = c
                           /\ Held(d)' => Held(d)
                           /\ Decided(d)' => Decided(d)
      <3>1. ASSUME NEW d \in Calls PROVE Queued(d)' => Queued(d) \/ d = c
        BY <2>7 DEF Queued
      <3>2. ASSUME NEW d \in Calls PROVE Held(d)' => Held(d)
        BY <2>3 DEF Held
      <3>3. ASSUME NEW d \in Calls PROVE Decided(d)' => Decided(d)
        BY <1>3 DEF Decided
      <3>4. QED
        BY <3>1, <3>2, <3>3
    <2>10. HeldOnce'
      BY <1>1, <2>3 DEF HeldOnce
    <2>11. CallDecidedOnce'
      BY <1>1, <1>3 DEF CallDecidedOnce
    <2>12. Apart'
      BY <1>1, <2>6, <2>9 DEF Apart
    <2>13. QED
      BY <2>8, <2>10, <2>11, <2>12 DEF Places
  <1>6. QED
    BY <1>4, <1>5 DEF Submit

LEMMA RunLoopPlaces ==
    ASSUME OnceInv, IInv', NEW g \in Sessions, RunLoop(g)
    PROVE  Places'
  <1>1. IInv /\ StoreSorted(g)
    BY DEF OnceInv, SortedInv
  <1>2. /\ loop[g].store \in Seq(Calls) /\ Len(loop[g].store) \in Nat
        /\ DOMAIN loop[g].store = 1 .. Len(loop[g].store)
        /\ Len(launch[g].services) \in Nat
    BY <1>1, StoreType
  <1>3. Len(loop[g].store) <= Len(launch[g].services)
    <2>1. \A i \in DOMAIN loop[g].store : i <= Len(launch[g].services)
      BY <1>1 DEF StoreSorted
    <2>2. QED
      BY <1>2, <2>1
  <1>4. loop[g].pc # "none" /\ Collecting(g) /\ Collect(g, loop[g].store)
    BY DEF RunLoop, Collecting
  <1>5. QED
    BY <1>2, <1>3, <1>4, CollectPlaces

LEMMA DeliverResponsePlaces ==
    ASSUME OnceInv, IInv', NEW g \in Sessions, DeliverResponse(g)
    PROVE  Places'
  <1>1. IInv
    BY DEF OnceInv, SortedInv
  <1>2. CASE Collect(g, <<>>)
    <2>1. <<>> \in Seq(Calls) /\ Len(<<>>) = 0 /\ DOMAIN <<>> = {}
      BY EmptySeq
    <2>2. Len(launch[g].services) \in Nat
      BY <1>1, StoreType
    <2>3. Len(<<>>) <= Len(launch[g].services)
      BY <2>1, <2>2
    <2>4. loop[g].pc # "none"
      BY DEF DeliverResponse
    <2>5. \A i \in DOMAIN <<>> : /\ Collecting(g) /\ i \in DOMAIN loop[g].store
                                 /\ <<>>[i] = loop[g].store[i]
      BY <2>1
    <2>6. QED
      BY <1>2, <2>1, <2>3, <2>4, <2>5, CollectPlaces
  <1>3. CASE loop' = [loop EXCEPT ![g].pc = "failed"] /\ UNCHANGED <<requests, rounds>>
    BY <1>3, FailPlaces
  <1>4. QED
    BY <1>2, <1>3 DEF DeliverResponse, NewStore

LEMMA NextPlaces == ASSUME OnceInv, [Next]_vars PROVE OnceInv'
  <1>1. SortedInv' /\ IInv'
    BY NextSorted DEF OnceInv, SortedInv
  <1>2. ASSUME UNCHANGED <<loop, requests, rounds>> PROVE Places'
    BY <1>2, PlacesFrame DEF Collecting
  <1>3. ASSUME NEW c \in Calls, ResumeHandler(c) PROVE Places'
    BY <1>2, <1>3 DEF ResumeHandler
  <1>4. ASSUME NEW g \in Sessions, RoundFails(g) PROVE Places'
    BY <1>4, FailPlaces DEF RoundFails, OnceInv, SortedInv
  <1>5. ASSUME UNCHANGED vars PROVE Places'
    BY <1>2, <1>5 DEF vars
  <1>6. Places'
    BY <1>1, <1>3, <1>4, <1>5, StartPlaces, StopPlaces, SubmitPlaces, RunLoopPlaces,
       DeliverResponsePlaces, HandleCancelledPlaces DEF Next
  <1>7. QED
    BY <1>1, <1>6 DEF OnceInv

LEMMA InitPlaces == Init => OnceInv
  <1> SUFFICES ASSUME Init PROVE OnceInv
    OBVIOUS
  <1>1. /\ \A x \in Sessions, s \in Services : requests[x][s].items = <<>>
        /\ \A g \in Sessions : loop[g].store = <<>> /\ rounds[g] = <<>>
    BY DEF Init, EmptyQueue
  <1>2. Places
    BY <1>1 DEF Places, QueuedOnce, HeldOnce, CallDecidedOnce, Apart, Queued, Held, Decided
  <1>3. QED
    BY <1>2, InitSorted DEF OnceInv

(* No call takes part in two rounds, be they of one loop or of two that    *)
(* read the same queues, after an id was started again (get() in           *)
(* handle_requests): what is forwarded once is not forwarded again.        *)
THEOREM DecidedOnce == Spec => []CallDecidedOnce
  <1>1. OnceInv => CallDecidedOnce
    BY DEF OnceInv, Places
  <1>2. QED
    BY <1>1, InitPlaces, NextPlaces, PTL DEF Spec
=============================================================================
