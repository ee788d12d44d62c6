--------------------------- MODULE ReconcilerProofs ---------------------------
(***************************************************************************)
(* Proofs about the reconciler, for any variants, concurrencies and number *)
(* of edits, failed calls and restarts.  Three invariants are added to     *)
(* TypeOK, each to the one before: GoneInv, about copies of the resource   *)
(* and its finalizer; PathInv, about how far a run is, if no error of      *)
(* createAndMountConfigMap is dropped; and then QuietInv, about a run that *)
(* nothing has overtaken, and ServedInv, about the pods of the variants,   *)
(* if the concurrency is not lowered.  Each has a lemma with one step for  *)
(* every action.                                                           *)
(***************************************************************************)
EXTENDS Reconciler, TLAPS

(* The removal of the egress part; what follows it or the mounting.        *)
DropPCs  == {"dropEgress", "dropConfig", "dropException", "dropPolicy"}
FinalPCs == {"status", "latest", "finalizer", "chooser", "await", "available"}

(* The places of a run, one by one. *)
LEMMA PCs ==
    /\ RunPCs = {"egress", "label", "dropEgress", "dropConfig", "dropException", "dropPolicy",
                 "status", "latest", "finalizer", "chooser", "await", "available",
                 "address", "config", "exception", "policy",
                 "degrade", "refetch", "degraded", "unfinalize"}
    /\ "idle" \notin RunPCs
  BY DEF RunPCs, MountPCs, DeletePCs

(* The fields of Resting. *)
LEMMA RestingIs ==
    /\ Resting.pc = "idle" /\ Resting.fn = None /\ Resting.fresh = FALSE
    /\ Resting.again = FALSE /\ Resting.todo = {}
  BY DEF Resting

(* A run that is somewhere is a run. *)
LEMMA Working ==
    ASSUME TypeOK, run.pc # "idle"
    PROVE  run \in Run
  BY RestingIs DEF TypeOK

(* What Goto, Write, Reread and AfterMount make of a run. *)
LEMMA Went ==
    ASSUME run \in Run, NEW pc \in RunPCs, Goto(pc)
    PROVE  /\ run' \in Run /\ run'.pc = pc /\ queued' = queued
           /\ run'.fn = run.fn /\ run'.fresh = run.fresh
           /\ run'.again = run.again /\ run'.todo = run.todo
  BY DEF Goto, Run

(* A write succeeds on the latest version, or the run ends. *)
LEMMA Wrote ==
    ASSUME TypeOK, run \in Run, NEW new \in Resource, NEW pc \in RunPCs, Write(new, pc)
    PROVE  /\ cache' = cache
           /\ \/ /\ run.fresh /\ cr' = new /\ synced' = (synced /\ new = cr) /\ queued' = queued
                 /\ run' \in Run /\ run'.pc = pc /\ run'.fn = new /\ run'.fresh
                 /\ run'.again = run.again /\ run'.todo = run.todo
              \/ run' = Resting /\ queued' = TRUE /\ cr' = cr /\ synced' = synced
  BY DEF Write, Fail, resource, Run

(* A read takes the copy of the cache, or the run ends. *)
LEMMA Read ==
    ASSUME TypeOK, run \in Run, NEW pc \in RunPCs, Reread(pc)
    PROVE  \/ /\ cache.exists /\ queued' = queued
              /\ run' \in Run /\ run'.pc = pc /\ run'.fn = cache /\ run'.fresh = synced
              /\ run'.again = run.again /\ run'.todo = run.todo
           \/ run' = Resting /\ queued' = TRUE
  BY DEF Reread, Fail, Run, TypeOK

(* After the first mounting variants are labelled, after the second it is done. *)
LEMMA WentOnAfterMount ==
    ASSUME run \in Run, AfterMount
    PROVE  /\ run' \in Run /\ queued' = queued
           /\ run'.fn = run.fn /\ run'.fresh = run.fresh /\ run'.again = run.again
           /\ \/ run.again /\ run'.pc \in {"status", "latest"} /\ run'.todo = run.todo
              \/ ~run.again /\ run'.pc = "label" /\ run'.todo = Variants
  <1>1. StatusPC(run.fn) \in {"status", "latest"}
    BY DEF StatusPC
  <1>2. CASE run.again
    <2>1. Goto(StatusPC(run.fn)) /\ StatusPC(run.fn) \in RunPCs
      BY <1>1, <1>2, PCs DEF AfterMount
    <2>2. QED
      BY <1>1, <1>2, <2>1, Went
  <1>3. CASE ~run.again
    BY ZenonT(30), <1>3, PCs DEF AfterMount, Run
  <1>4. QED
    BY <1>2, <1>3

(* The initial states are typed. *)
LEMMA TypeInitially == Init => TypeOK
  <1>1. SUFFICES ASSUME Init PROVE TypeOK
    OBVIOUS
  <1>2. PICK n \in Asked :
          cr = [exists |-> TRUE, deleting |-> FALSE, finalizer |-> FALSE, concurrency |-> n,
                available |-> "none", degraded |-> "none"]
    BY <1>1 DEF Init
  <1>3. cr \in Resource
    BY <1>2 DEF Resource, Conditions
  <1>4. cache \in Resource
    BY <1>1, <1>3 DEF Init, Resource
  <1>5. pods \in [Variants -> Traffic]
    BY <1>1 DEF Init, Traffic
  <1>6. edits \in 0 .. MaxEdits /\ faults \in 0 .. MaxFaults
    BY <1>1, ReconcilerAssumption DEF Init
  <1>7. QED
    BY <1>1, <1>3, <1>4, <1>5, <1>6 DEF Init, TypeOK

(* Each action changes some of the variables and keeps their types.        *)
LEMMA TypeKept == TypeOK /\ [Next]_vars => TypeOK'
  <1>1. SUFFICES ASSUME TypeOK, [Next]_vars PROVE TypeOK'
    OBVIOUS
  <1> USE PCs, RestingIs DEF resource, traffic, counters
  <1>2. CASE Begin
    <2>1. run' \in Run \cup {Resting}
      BY <1>1, <1>2 DEF Begin, TypeOK, FirstPC, Run
    <2>2. QED
      BY <1>1, <1>2, <2>1 DEF Begin, TypeOK
  <1>3. CASE Degrade \/ Degraded \/ FirstStatus
    <2>1. run \in Run /\ run.fn \in Resource
      BY <1>1, <1>3, Working DEF Degrade, Degraded, FirstStatus, Run
    <2>2. PICK new \in Resource, pc \in RunPCs : Write(new, pc)
      <3>1. /\ [run.fn EXCEPT !.degraded = "unknown"] \in Resource
            /\ [run.fn EXCEPT !.degraded = "true"] \in Resource
            /\ [run.fn EXCEPT !.available = "unknown"] \in Resource
        BY <2>1 DEF Resource, Conditions
      <3>2. QED
        BY <1>3, <3>1 DEF Degrade, Degraded, FirstStatus
    <2>3. UNCHANGED <<objects, chooser, ready, traffic, counters>>
      BY <1>3 DEF Degrade, Degraded, FirstStatus
    <2>4. /\ cache' \in Resource /\ cr' \in Resource
          /\ synced' \in BOOLEAN /\ queued' \in BOOLEAN /\ run' \in Run \cup {Resting}
      BY <1>1, <2>1, <2>2, Wrote DEF TypeOK
    <2>5. QED
      BY <1>1, <2>3, <2>4 DEF TypeOK
  <1>4. CASE Refetch \/ Latest
    <2>1. run \in Run
      BY <1>1, <1>4, Working DEF Refetch, Latest
    <2>2. PICK pc \in RunPCs : Reread(pc)
      BY <1>4 DEF Refetch, Latest
    <2>3. run' \in Run \cup {Resting} /\ queued' \in BOOLEAN
      BY <1>1, <2>1, <2>2, Read DEF TypeOK
    <2>4. QED
      BY <1>1, <1>4, <2>3 DEF Refetch, Latest, TypeOK
  <1>5. CASE Unfinalize
    <2>1. run \in Run /\ run.fn \in Resource
      BY <1>1, <1>5, Working DEF Unfinalize, Run
    <2>2. [run.fn EXCEPT !.finalizer = FALSE, !.exists = FALSE] \in Resource
      BY <2>1 DEF Resource
    <2>3. QED
      BY <1>1, <1>5, <2>2 DEF Unfinalize, Return, Fail, TypeOK
  <1>6. CASE CreateEgress
    <2>1. run \in Run /\ "address" \in RunPCs /\ Goto("address")
      BY <1>1, <1>6, Working DEF CreateEgress
    <2>2. run' \in Run /\ queued' = queued
      BY <2>1, Went
    <2>3. QED
      BY <1>1, <1>6, <2>2 DEF CreateEgress, TypeOK, Objects
  <1>7. CASE EgressAddress
    <2>1. run \in Run /\ "config" \in RunPCs
      BY <1>1, <1>7, Working DEF EgressAddress
    <2>2. run' \in Run /\ queued' = queued
      BY <1>7, <2>1, Went, WentOnAfterMount DEF EgressAddress
    <2>3. QED
      BY <1>1, <1>7, <2>2 DEF EgressAddress, TypeOK
  <1>8. ASSUME NEW o \in {"config", "exception", "policy"},
               NEW pc \in {"exception", "policy", "label"}, Mount(o, pc)
        PROVE  TypeOK'
    <2>1. run \in Run /\ pc \in RunPCs
      BY <1>1, <1>8, Working DEF Mount
    <2>2. run' \in Run /\ queued' = queued
      BY <1>8, <2>1, Went, WentOnAfterMount DEF Mount
    <2>3. QED
      BY <1>1, <1>8, <2>2 DEF Mount, TypeOK, Objects
  <1>9. ASSUME NEW v \in Variants, Label(v)
        PROVE  TypeOK'
    <2>1. run \in Run
      BY <1>1, <1>9, Working DEF Label
    <2>2. run' \in Run
      BY <1>9, <2>1 DEF Label, Run
    <2>3. labelled' \in [Variants -> BOOLEAN] /\ rollout' \in [Variants -> BOOLEAN]
      BY <1>1, <1>9 DEF Label, TypeOK
    <2>4. QED
      BY <1>1, <1>9, <2>2, <2>3 DEF Label, TypeOK
  <1>10. ASSUME NEW o, NEW here \in DropPCs, NEW pc \in RunPCs, Drop(o, here, pc)
         PROVE  TypeOK'
    <2>1. run \in Run
      BY <1>1, <1>10, Working DEF Drop, DropPCs
    <2>2. run' \in Run /\ queued' = queued
      BY <1>10, <2>1, Went DEF Drop
    <2>3. QED
      BY <1>1, <1>10, <2>2 DEF Drop, TypeOK, Objects
  <1>11. CASE AddFinalizer
    <2>1. run \in Run /\ "chooser" \in RunPCs
      BY <1>1, <1>11, Working DEF AddFinalizer
    <2>2. [cr EXCEPT !.finalizer = TRUE] \in Resource
      BY <1>1 DEF TypeOK, Resource
    <2>3. [run EXCEPT !.pc = "chooser", !.fresh = FALSE] \in Run
      BY <2>1 DEF Run
    <2>4. run' \in Run \cup {Resting} /\ queued' \in BOOLEAN
      BY <1>1, <1>11, <2>1, <2>3, Went DEF AddFinalizer, Fail, TypeOK
    <2>5. QED
      BY <1>1, <1>11, <2>2, <2>4 DEF AddFinalizer, TypeOK
  <1>12. CASE PublishChooser
    <2>1. run \in Run /\ "await" \in RunPCs /\ run.fn.concurrency \in Asked
      BY <1>1, <1>12, Working DEF PublishChooser, Run, Resource
    <2>2. PublishedChooser(run.fn.concurrency) \in [concurrency : Asked, egress : BOOLEAN]
      BY <2>1, ReconcilerAssumption DEF PublishedChooser
    <2>3. run' \in Run \cup {Resting} /\ queued' \in BOOLEAN
      BY <1>1, <1>12, <2>1, Went DEF PublishChooser, Fail, TypeOK
    <2>4. QED
      BY <1>1, <1>12, <2>2, <2>3 DEF PublishChooser, TypeOK
  <1>13. CASE AwaitChooser
    <2>1. run \in Run /\ "available" \in RunPCs /\ Goto("available")
      BY <1>1, <1>13, Working DEF AwaitChooser
    <2>2. run' \in Run /\ queued' = queued
      BY <2>1, Went
    <2>3. QED
      BY <1>1, <1>13, <2>2 DEF AwaitChooser, TypeOK
  <1>14. CASE SetAvailable
    <2>1. [cr EXCEPT !.available = "true"] \in Resource
      BY <1>1 DEF TypeOK, Resource, Conditions
    <2>2. QED
      BY <1>1, <1>14, <2>1 DEF SetAvailable, Return, Fail, TypeOK
  <1>15. CASE CallFails
    BY <1>1, <1>15, ReconcilerAssumption DEF CallFails, Fail, TypeOK
  <1>16. CASE MountFails
    <2>1. run \in Run
      BY <1>1, <1>16, Working DEF MountFails, MountPCs
    <2>2. run' \in Run /\ queued' = queued
      BY <1>16, <2>1, WentOnAfterMount DEF MountFails
    <2>3. QED
      BY <1>1, <1>16, <2>2, ReconcilerAssumption DEF MountFails, TypeOK
  <1>17. CASE Restart
    BY <1>1, <1>17, ReconcilerAssumption DEF Restart, Fail, TypeOK
  <1>18. ASSUME NEW new \in Resource, Change(new), edits' \in 0 .. MaxEdits
         PROVE  TypeOK'
    <2>1. run' \in Run \cup {Resting}
      BY <1>1, <1>18 DEF Change, TypeOK, Run, Resting
    <2>2. QED
      BY <1>1, <1>18, <2>1 DEF Change, TypeOK
  <1>19. ASSUME NEW n \in Asked, Edit(n)
         PROVE  TypeOK'
    <2>1. [cr EXCEPT !.concurrency = n] \in Resource
      BY <1>1 DEF TypeOK, Resource
    <2>2. edits' \in 0 .. MaxEdits
      BY <1>1, <1>19, ReconcilerAssumption DEF Edit, TypeOK
    <2>3. QED
      BY <1>18, <1>19, <2>1, <2>2 DEF Edit
  <1>20. CASE Delete
    <2>1. [cr EXCEPT !.deleting = TRUE] \in Resource /\ [cr EXCEPT !.exists = FALSE] \in Resource
      BY <1>1 DEF TypeOK, Resource
    <2>2. edits' \in 0 .. MaxEdits
      BY <1>1, <1>20, ReconcilerAssumption DEF Delete, TypeOK
    <2>3. QED
      BY <1>18, <1>20, <2>1, <2>2 DEF Delete
  <1>21. CASE Watch
    BY <1>1, <1>21 DEF Watch, TypeOK
  <1>22. ASSUME NEW o \in {"egress", "chooser"}, BecomeReady(o)
         PROVE  TypeOK'
    BY <1>1, <1>22 DEF BecomeReady, TypeOK
  <1>23. ASSUME NEW v \in Variants, RollOut(v) \/ Scale(v)
         PROVE  TypeOK'
    <2>1. \A t \in Admissions(v) \cup {"none"} : t \in Traffic
      BY DEF Admissions, Traffic
    <2>2. pods' \in [Variants -> Traffic]
      BY <1>1, <1>23, <2>1 DEF RollOut, Scale, TypeOK
    <2>3. rollout' \in [Variants -> BOOLEAN]
      BY <1>1, <1>23 DEF RollOut, Scale, TypeOK
    <2>4. QED
      BY <1>1, <1>23, <2>2, <2>3 DEF RollOut, Scale, TypeOK
  <1>24. ASSUME NEW o \in Objects \cup {"chooser"}, CollectGarbage(o)
         PROVE  TypeOK'
    BY <1>1, <1>24 DEF CollectGarbage, TypeOK
  <1>25. CASE UNCHANGED vars
    BY <1>1, <1>25 DEF vars, TypeOK
  <1>26. StatusPC(run.fn) \in RunPCs
    BY DEF StatusPC
  <1>27. CASE Reconcile
    BY <1>2, <1>3, <1>4, <1>5, <1>6, <1>7, <1>8, <1>9, <1>10, <1>11, <1>12, <1>13, <1>14,
       <1>26, <1>27 DEF Reconcile, DropPCs
  <1>28. QED
    BY <1>1, <1>15, <1>16, <1>17, <1>19, <1>20, <1>21, <1>22, <1>23, <1>24, <1>25, <1>27
       DEF Next

-----------------------------------------------------------------------------
(* Copies of the resource, and its finalizer.                              *)

(* A copy said to be the latest is; a resource being deleted stays so.     *)
Versions ==
    /\ synced => cache = cr
    /\ run.fresh => run.fn = cr
    /\ cache.deleting => cr.deleting
    /\ run.pc \in DeletePCs => cache.deleting

(* Outside of the deletion branch, which only a run of its own takes,      *)
(* nobody takes the finalizer away, and a resource that has it stays.      *)
Finalized ==
    /\ cache.exists /\ cache.finalizer /\ ~cache.deleting => cr.exists /\ cr.finalizer
    /\ run.pc \in RunPCs \ DeletePCs /\ cache.exists /\ cache.finalizer => cr.exists /\ cr.finalizer
    /\ run.pc \in {"chooser", "await", "available"} => cr.exists /\ cr.finalizer

GoneInv == TypeOK /\ Versions /\ Finalized

(* cr and cache do not change. *)
Same == UNCHANGED resource

(* The run is over, or goes on to one of pcs with the same copy.           *)
GoesTo(pcs) ==
    \/ run' = Resting
    \/ run' \in Run /\ run'.pc \in pcs /\ run'.fn = run.fn /\ run'.fresh = run.fresh

(* Every step keeps GoneInv: the copies by the effect on cr, cache and fn. *)
LEMMA GoneKept == GoneInv /\ [Next]_vars => GoneInv'
  <1>1. SUFFICES ASSUME GoneInv, [Next]_vars PROVE Versions' /\ Finalized'
    BY TypeKept DEF GoneInv
  <1>a. TypeOK /\ TypeOK' /\ Versions /\ Finalized
    BY <1>1, TypeKept DEF GoneInv
  <1> USE PCs, RestingIs DEF resource, traffic, counters, DeletePCs
  <1>2. CASE Begin
    <2>1. CASE run' = Resting
      BY <1>a, <1>2, <2>1 DEF Begin, Versions, Finalized
    <2>2. CASE run' # Resting
      <3>1. run'.pc = FirstPC(cache) /\ run'.fn = cache /\ run'.fresh = synced
        BY <1>2, <2>2 DEF Begin
      <3>2. (FirstPC(cache) = "degrade" /\ cache.deleting)
            \/ (FirstPC(cache) \in {"egress", "dropEgress"} /\ ~cache.deleting)
        BY DEF FirstPC
      <3>3. QED
        BY <1>a, <1>2, <3>1, <3>2 DEF Begin, Versions, Finalized
    <2>3. QED
      BY <2>1, <2>2
  <1>3. ASSUME NEW new \in Resource, NEW pc \in RunPCs, run \in Run, Write(new, pc),
               new.exists = run.fn.exists, new.finalizer = run.fn.finalizer,
               new.deleting = run.fn.deleting,
               pc \in DeletePCs <=> run.pc \in DeletePCs,
               pc \notin {"chooser", "await", "available"}
        PROVE  Versions' /\ Finalized'
    <2>1. \/ /\ run.fresh /\ cr' = new /\ synced' = (synced /\ new = cr) /\ cache' = cache
             /\ run' \in Run /\ run'.pc = pc /\ run'.fn = new /\ run'.fresh
          \/ run' = Resting /\ cr' = cr /\ synced' = synced /\ cache' = cache
      BY <1>a, <1>3, Wrote
    <2>2. CASE run' = Resting /\ cr' = cr /\ synced' = synced /\ cache' = cache
      BY <1>a, <2>2 DEF Versions, Finalized
    <2>3. CASE /\ run.fresh /\ cr' = new /\ synced' = (synced /\ new = cr) /\ cache' = cache
               /\ run' \in Run /\ run'.pc = pc /\ run'.fn = new /\ run'.fresh
      <3>1. cr'.exists = cr.exists /\ cr'.finalizer = cr.finalizer /\ cr'.deleting = cr.deleting
        BY <1>a, <1>3, <2>3 DEF Versions
      <3>2. (synced' => cache' = cr') /\ run'.fn = cr' /\ cache' = cache
        BY <1>a, <2>3 DEF Versions
      <3>3. Versions'
        BY <1>a, <1>3, <2>3, <3>1, <3>2 DEF Versions
      <3>4. Finalized'
        BY <1>a, <1>3, <2>3, <3>1, <3>2 DEF Finalized, Run
      <3>5. QED
        BY <3>3, <3>4
    <2>4. QED
      BY <2>1, <2>2, <2>3
  <1>4. CASE Degrade \/ Degraded \/ FirstStatus
    <2>1. run \in Run /\ run.fn \in Resource
      BY <1>a, <1>4, Working DEF Degrade, Degraded, FirstStatus, Run
    <2>2. /\ [run.fn EXCEPT !.degraded = "unknown"] \in Resource
          /\ [run.fn EXCEPT !.degraded = "true"] \in Resource
          /\ [run.fn EXCEPT !.available = "unknown"] \in Resource
      BY <2>1 DEF Resource, Conditions
    <2>3. ASSUME NEW new \in {[run.fn EXCEPT !.degraded = "unknown"],
                              [run.fn EXCEPT !.degraded = "true"],
                              [run.fn EXCEPT !.available = "unknown"]}
          PROVE  /\ new.exists = run.fn.exists /\ new.finalizer = run.fn.finalizer
                 /\ new.deleting = run.fn.deleting
      BY <2>1, <2>3 DEF Resource
    <2>4. CASE Degrade
      BY <1>3, <2>1, <2>2, <2>3, <2>4 DEF Degrade
    <2>5. CASE Degraded
      BY <1>3, <2>1, <2>2, <2>3, <2>5 DEF Degraded
    <2>6. CASE FirstStatus
      BY <1>3, <2>1, <2>2, <2>3, <2>6 DEF FirstStatus
    <2>7. QED
      BY <1>4, <2>4, <2>5, <2>6
  <1>5. CASE Refetch \/ Latest
    <2>1. run \in Run /\ UNCHANGED <<cr, cache, synced>>
      BY <1>a, <1>5, Working DEF Refetch, Latest
    <2>2. PICK pc \in RunPCs :
            /\ Reread(pc)
            /\ pc \in DeletePCs <=> run.pc \in DeletePCs
            /\ pc \in {"chooser", "await", "available"} => run.pc = "latest" /\ cache.finalizer
      BY <1>5 DEF Refetch, Latest
    <2>3. \/ /\ cache.exists
             /\ run' \in Run /\ run'.pc = pc /\ run'.fn = cache /\ run'.fresh = synced
          \/ run' = Resting
      BY <1>a, <2>1, <2>2, Read
    <2>4. CASE run' = Resting
      BY <1>a, <2>1, <2>4 DEF Versions, Finalized
    <2>5. CASE /\ cache.exists
               /\ run' \in Run /\ run'.pc = pc /\ run'.fn = cache /\ run'.fresh = synced
      <3>1. Versions'
        BY <1>a, <2>1, <2>2, <2>5 DEF Versions
      <3>2. run.pc \in RunPCs
        BY <2>1 DEF Run
      <3>3. Finalized'
        BY <1>a, <2>1, <2>2, <2>5, <3>2 DEF Finalized
      <3>4. QED
        BY <3>1, <3>3
    <2>6. QED
      BY <2>3, <2>4, <2>5
  <1>6. CASE Unfinalize
    <2>1. run \in Run /\ run.fn \in Resource
      BY <1>a, <1>6, Working DEF Unfinalize, Run
    <2>2. /\ [run.fn EXCEPT !.finalizer = FALSE, !.exists = FALSE].deleting = run.fn.deleting
      BY <2>1 DEF Resource
    <2>3. run' = Resting /\ cache' = cache
      BY <1>6 DEF Unfinalize, Return, Fail
    <2>4. QED
      BY <1>a, <1>6, <2>2, <2>3 DEF Unfinalize, Versions, Finalized
  <1>7. ASSUME Same, run \in Run,
               GoesTo(IF run.pc \in {"chooser", "await", "available"} THEN RunPCs \ DeletePCs
                      ELSE RunPCs \ (DeletePCs \cup {"chooser", "await", "available"})),
               run.pc \notin DeletePCs
        PROVE  Versions' /\ Finalized'
    <2>1. UNCHANGED <<cr, cache, synced>> /\ run.pc \in RunPCs
      BY <1>7 DEF Same, Run
    <2>2. CASE run' = Resting
      BY <1>a, <2>1, <2>2 DEF Versions, Finalized
    <2>3. CASE run' # Resting
      <3>1. /\ run'.pc \in RunPCs \ DeletePCs
            /\ run'.pc \in {"chooser", "await", "available"} =>
                  run.pc \in {"chooser", "await", "available"}
            /\ run'.fn = run.fn /\ run'.fresh = run.fresh
        BY <1>7, <2>3 DEF GoesTo
      <3>2. Versions'
        BY <1>a, <1>7, <2>1, <3>1 DEF Versions
      <3>3. Finalized'
        BY <1>a, <1>7, <2>1, <3>1 DEF Finalized
      <3>4. QED
        BY <3>2, <3>3
    <2>4. QED
      BY <2>2, <2>3
  <1>8. CASE CreateEgress
    <2>1. run \in Run /\ "address" \in RunPCs /\ Goto("address")
      BY <1>a, <1>8, Working DEF CreateEgress
    <2>2. QED
      BY <1>7, <1>8, <2>1, Went DEF CreateEgress, Same, GoesTo
  <1>9. CASE EgressAddress
    <2>1. run \in Run /\ "config" \in RunPCs
      BY <1>a, <1>9, Working DEF EgressAddress
    <2>2. QED
      BY <1>7, <1>9, <2>1, Went, WentOnAfterMount DEF EgressAddress, Same, GoesTo
  <1>10. ASSUME NEW o \in {"config", "exception", "policy"},
               NEW pc \in {"exception", "policy", "label"}, Mount(o, pc)
        PROVE  Versions' /\ Finalized'
    <2>1. run \in Run /\ pc \in RunPCs
      BY <1>a, <1>10, Working DEF Mount
    <2>2. GoesTo({"exception", "policy", "label", "status", "latest"})
      BY <1>10, <2>1, Went, WentOnAfterMount DEF Mount, GoesTo
    <2>3. QED
      BY <1>7, <1>10, <2>1, <2>2 DEF Mount, Same, GoesTo
  <1>11. ASSUME NEW v \in Variants, Label(v)
         PROVE  Versions' /\ Finalized'
    <2>1. run \in Run
      BY <1>a, <1>11, Working DEF Label
    <2>2. GoesTo({"address", "label"})
      BY <1>11, <2>1 DEF Label, Run, GoesTo
    <2>3. QED
      BY <1>7, <1>11, <2>1, <2>2 DEF Label, Same, GoesTo
  <1>12. ASSUME NEW o, NEW here \in DropPCs,
                NEW pc \in DropPCs \cup {"status", "latest"}, Drop(o, here, pc)
         PROVE  Versions' /\ Finalized'
    <2>1. run \in Run /\ pc \in RunPCs /\ Goto(pc)
      BY <1>a, <1>12, Working DEF Drop, DropPCs
    <2>2. GoesTo(DropPCs \cup {"status", "latest"})
      BY <2>1, Went DEF GoesTo
    <2>3. QED
      BY <1>7, <1>12, <2>1, <2>2 DEF Drop, Same, GoesTo, DropPCs
  <1>13. CASE AddFinalizer
    <2>1. run \in Run /\ "chooser" \in RunPCs /\ cr \in Resource
      BY <1>a, <1>13, Working DEF AddFinalizer, TypeOK
    <2>2. /\ [run EXCEPT !.pc = "chooser", !.fresh = FALSE].pc = "chooser"
          /\ [run EXCEPT !.pc = "chooser", !.fresh = FALSE].fresh = FALSE
      BY <2>1 DEF Run
    <2>3. /\ [cr EXCEPT !.finalizer = TRUE].exists = cr.exists
          /\ [cr EXCEPT !.finalizer = TRUE].finalizer
          /\ [cr EXCEPT !.finalizer = TRUE].deleting = cr.deleting
      BY <2>1 DEF Resource
    <2>4. CASE cache.exists /\ cache.finalizer /\ Goto("chooser") /\ UNCHANGED resource
      <3>1. run'.pc = "chooser" /\ run'.fn = run.fn /\ run'.fresh = run.fresh
        BY <2>1, <2>4, Went
      <3>2. QED
        BY <1>a, <1>13, <2>4, <3>1 DEF AddFinalizer, Versions, Finalized
    <2>5. CASE Fail /\ UNCHANGED resource
      BY <1>a, <2>5 DEF Fail, Versions, Finalized
    <2>6. CASE /\ synced /\ cache.exists
               /\ cr' = [cr EXCEPT !.finalizer = TRUE] /\ synced' = FALSE /\ UNCHANGED cache
               /\ run' = [run EXCEPT !.pc = "chooser", !.fresh = FALSE]
      BY <1>a, <2>2, <2>3, <2>6 DEF Versions, Finalized
    <2>7. QED
      BY <1>13, <2>4, <2>5, <2>6 DEF AddFinalizer
  <1>14. CASE PublishChooser
    <2>1. run \in Run /\ "await" \in RunPCs
      BY <1>a, <1>14, Working DEF PublishChooser
    <2>2. GoesTo({"await"})
      BY <1>14, <2>1, Went DEF PublishChooser, Fail, GoesTo
    <2>3. QED
      BY <1>7, <1>14, <2>1, <2>2 DEF PublishChooser, Same, GoesTo
  <1>15. CASE AwaitChooser
    <2>1. run \in Run /\ "available" \in RunPCs /\ Goto("available")
      BY <1>a, <1>15, Working DEF AwaitChooser
    <2>2. QED
      BY <1>7, <1>15, <2>1, Went DEF AwaitChooser, Same, GoesTo
  <1>16. CASE SetAvailable
    <2>1. cr \in Resource
      BY <1>a DEF TypeOK
    <2>2. /\ [cr EXCEPT !.available = "true"].exists = cr.exists
          /\ [cr EXCEPT !.available = "true"].finalizer = cr.finalizer
          /\ [cr EXCEPT !.available = "true"].deleting = cr.deleting
      BY <2>1 DEF Resource
    <2>3. run' = Resting
      BY <1>16 DEF SetAvailable, Return, Fail
    <2>4. \/ UNCHANGED <<cr, cache, synced>>
          \/ cr' = [cr EXCEPT !.available = "true"] /\ ~synced' /\ cache' = cache
      BY <1>16 DEF SetAvailable
    <2>5. cr'.exists = cr.exists /\ cr'.finalizer = cr.finalizer /\ cr'.deleting = cr.deleting
      BY <2>2, <2>4
    <2>6. cache' = cache /\ (synced' => synced /\ cr' = cr)
      BY <2>4
    <2>7. Versions'
      BY <1>a, <2>3, <2>5, <2>6 DEF Versions
    <2>8. Finalized'
      BY <1>a, <2>3, <2>5, <2>6 DEF Finalized
    <2>9. QED
      BY <2>7, <2>8
  <1>17. CASE CallFails \/ Restart
    BY <1>a, <1>17 DEF CallFails, Restart, Fail, Versions, Finalized
  <1>18. CASE MountFails
    <2>1. run \in Run
      BY <1>a, <1>18, Working DEF MountFails, MountPCs
    <2>2. QED
      BY <1>7, <1>18, <2>1, WentOnAfterMount DEF MountFails, MountPCs, Same, GoesTo
  <1>19. ASSUME NEW new \in Resource, Change(new), new.deleting = cr.deleting \/ new.deleting,
                cr.exists /\ cr.finalizer => new.exists /\ new.finalizer
         PROVE  Versions' /\ Finalized'
    <2>1. run'.pc = run.pc /\ ~run'.fresh
      BY <1>a, <1>19 DEF Change, TypeOK, Run, Resting
    <2>2. QED
      BY <1>a, <1>19, <2>1 DEF Change, Versions, Finalized
  <1>20. ASSUME NEW n \in Asked, Edit(n)
         PROVE  Versions' /\ Finalized'
    <2>1. /\ [cr EXCEPT !.concurrency = n] \in Resource
          /\ [cr EXCEPT !.concurrency = n].deleting = cr.deleting
          /\ [cr EXCEPT !.concurrency = n].exists = cr.exists
          /\ [cr EXCEPT !.concurrency = n].finalizer = cr.finalizer
      BY <1>a DEF TypeOK, Resource
    <2>2. QED
      BY <1>19, <1>20, <2>1 DEF Edit
  <1>21. CASE Delete
    <2>1. /\ [cr EXCEPT !.deleting = TRUE] \in Resource
          /\ [cr EXCEPT !.deleting = TRUE].deleting
          /\ [cr EXCEPT !.deleting = TRUE].exists = cr.exists
          /\ [cr EXCEPT !.deleting = TRUE].finalizer = cr.finalizer
          /\ [cr EXCEPT !.exists = FALSE] \in Resource
          /\ [cr EXCEPT !.exists = FALSE].deleting = cr.deleting
      BY <1>a DEF TypeOK, Resource
    <2>2. QED
      BY <1>19, <1>21, <2>1 DEF Delete
  <1>22. CASE Watch
    BY <1>a, <1>22 DEF Watch, Versions, Finalized
  <1>23. ASSUME UNCHANGED <<cr, cache, synced, run>>
         PROVE  Versions' /\ Finalized'
    BY <1>a, <1>23 DEF Versions, Finalized
  <1>24. ASSUME NEW o, BecomeReady(o) \/ CollectGarbage(o)
         PROVE  Versions' /\ Finalized'
    BY <1>23, <1>24 DEF BecomeReady, CollectGarbage
  <1>25. ASSUME NEW v \in Variants, RollOut(v) \/ Scale(v)
         PROVE  Versions' /\ Finalized'
    BY <1>23, <1>25 DEF RollOut, Scale
  <1>26. CASE UNCHANGED vars
    BY <1>23, <1>26 DEF vars
  <1>27. StatusPC(run.fn) \in {"status", "latest"}
    BY DEF StatusPC
  <1>28. CASE Reconcile
    BY <1>2, <1>4, <1>5, <1>6, <1>8, <1>9, <1>10, <1>11, <1>12, <1>13, <1>14, <1>15, <1>16,
       <1>27, <1>28 DEF Reconcile, DropPCs
  <1>29. QED
    BY <1>1, <1>17, <1>18, <1>20, <1>21, <1>22, <1>24, <1>25, <1>26, <1>28 DEF Next

(* The cache is empty at first. *)
LEMMA GoneInitially == Init => GoneInv
  <1>1. SUFFICES ASSUME Init PROVE GoneInv
    OBVIOUS
  <1>2. TypeOK
    BY <1>1, TypeInitially
  <1>3. cache.exists = FALSE /\ cache.deleting = cr.deleting /\ ~cr.deleting
    BY <1>1, <1>2 DEF Init, TypeOK, Resource
  <1>4. QED
    BY <1>1, <1>2, <1>3, RestingIs, PCs DEF Init, GoneInv, Versions, Finalized, DeletePCs

(* The resource, its copies, the run and the cluster keep their types,     *)
(* under any edits and faults (Reconcile, lines 89-521).                   *)
THEOREM TypeCorrect == Spec => []TypeOK
  <1>1. QED
    BY TypeInitially, TypeKept, PTL DEF Spec

(* No chooser is created for a resource that is gone, however old the copy *)
(* a run works on: it got past the finalizer (lines 276-306), and only a   *)
(* run removes it.                                                         *)
THEOREM NoneForTheGone == Spec => NoChooserForTheGone
  <1>1. GoneInv /\ [Next]_vars => [~cr.exists /\ chooser = None => chooser' = None]_vars
    <2>1. SUFFICES ASSUME GoneInv, [Next]_vars, ~cr.exists, chooser = None
                   PROVE  chooser' = None
      OBVIOUS
    <2>2. ~PublishChooser
      BY <2>1 DEF PublishChooser, GoneInv, Finalized
    <2>3. QED
      BY <2>1, <2>2
         DEF Next, vars, Reconcile, Begin, Degrade, Refetch, Degraded, Unfinalize, CreateEgress,
             EgressAddress, Mount, Label, Drop, FirstStatus, Latest, AddFinalizer, AwaitChooser,
             SetAvailable, CallFails, MountFails, Restart, Edit, Delete, Change, Watch,
             BecomeReady, RollOut, Scale, CollectGarbage
  <1>2. QED
    BY <1>1, GoneInitially, GoneKept, PTL DEF Spec, NoChooserForTheGone

-----------------------------------------------------------------------------
(* How far a run is.                                                       *)

AllLabelled == \A v \in Variants : labelled[v]

(* What a run has created. *)
Mounted ==
    cr.exists =>
        /\ run.pc \in {"address", "config", "exception", "policy", "label"} => "egress" \in objects
        /\ run.pc \in {"exception", "policy", "label"} => "config" \in objects
        /\ run.pc \in {"policy", "label"} => "exception" \in objects
        /\ run.pc = "label" => "policy" \in objects
        /\ run.again => objects = Objects

(* What it has deleted. *)
Dropped ==
    /\ run.pc \in {"dropConfig", "dropException", "dropPolicy"} => "egress" \notin objects
    /\ run.pc \in {"dropException", "dropPolicy"} => "config" \notin objects
    /\ run.pc = "dropPolicy" => "exception" \notin objects
    /\ run.pc \in FinalPCs /\ ~run.again => objects = {}

(* Which way it takes, and whom it has labelled. *)
Path ==
    /\ run.pc \in {"egress", "label"} \cup DropPCs => ~run.again
    /\ run.pc \in {"egress", "label"} \cup MountPCs => run.fn.concurrency > 1
    /\ run.pc \in DropPCs => ~(run.fn.concurrency > 1)
    /\ run.again => AllLabelled
    /\ run.pc = "label" => \A v \in Variants \ run.todo : labelled[v]

PathInv == GoneInv /\ Mounted /\ Dropped /\ Path

(* A resource that is gone stays so; only an edit changes its concurrency. *)
LEMMA ResourceChanges ==
    ASSUME GoneInv, [Next]_vars
    PROVE  /\ cr'.exists => cr.exists
           /\ cr'.concurrency = cr.concurrency \/ (~synced' /\ \E n \in Asked : Edit(n))
  <1>a. TypeOK /\ Versions
    BY DEF GoneInv
  <1> DEFINE Kept == (cr'.exists => cr.exists) /\ cr'.concurrency = cr.concurrency
  <1>1. CASE cr' = cr
    BY <1>1
  <1>2. ASSUME NEW new, NEW pc, Write(new, pc),
               new.exists = run.fn.exists, new.concurrency = run.fn.concurrency
        PROVE  Kept
    BY <1>a, <1>2 DEF Write, Versions, resource
  <1>3. CASE Degrade \/ Degraded \/ FirstStatus
    <2>1. run.fn \in Resource
      BY <1>a, <1>3, Working, PCs DEF Degrade, Degraded, FirstStatus, Run
    <2>2. ASSUME NEW new \in {[run.fn EXCEPT !.degraded = "unknown"],
                              [run.fn EXCEPT !.degraded = "true"],
                              [run.fn EXCEPT !.available = "unknown"]}
          PROVE  new.exists = run.fn.exists /\ new.concurrency = run.fn.concurrency
      BY <2>1, <2>2 DEF Resource
    <2>3. QED
      BY <1>2, <1>3, <2>2 DEF Degrade, Degraded, FirstStatus
  <1>4. CASE Unfinalize
    <2>1. run.fn \in Resource
      BY <1>a, <1>4, Working, PCs DEF Unfinalize, Run
    <2>2. /\ [run.fn EXCEPT !.finalizer = FALSE, !.exists = FALSE].concurrency = run.fn.concurrency
          /\ [run.fn EXCEPT !.finalizer = FALSE, !.exists = FALSE].exists = FALSE
      BY <2>1 DEF Resource
    <2>3. QED
      BY <1>a, <1>4, <2>2 DEF Unfinalize, Versions, resource
  <1>5. CASE AddFinalizer \/ SetAvailable
    <2>1. cr \in Resource
      BY <1>a DEF TypeOK
    <2>2. /\ [cr EXCEPT !.finalizer = TRUE].exists = cr.exists
          /\ [cr EXCEPT !.finalizer = TRUE].concurrency = cr.concurrency
          /\ [cr EXCEPT !.available = "true"].exists = cr.exists
          /\ [cr EXCEPT !.available = "true"].concurrency = cr.concurrency
      BY <2>1 DEF Resource
    <2>3. QED
      BY <1>5, <2>2 DEF AddFinalizer, SetAvailable, resource
  <1>6. ASSUME NEW n \in Asked, Edit(n)
        PROVE  (cr'.exists => cr.exists) /\ ~synced'
    BY <1>6 DEF Edit, Change
  <1>7. CASE Delete
    <2>1. cr \in Resource
      BY <1>a DEF TypeOK
    <2>2. /\ [cr EXCEPT !.deleting = TRUE].exists = cr.exists
          /\ [cr EXCEPT !.deleting = TRUE].concurrency = cr.concurrency
          /\ [cr EXCEPT !.exists = FALSE].exists = FALSE
          /\ [cr EXCEPT !.exists = FALSE].concurrency = cr.concurrency
      BY <2>1 DEF Resource
    <2>3. QED
      BY <1>7, <2>2 DEF Delete, Change
  <1>8. CASE Reconcile
    BY <1>1, <1>3, <1>4, <1>5, <1>8
       DEF Reconcile, resource, Begin, Refetch, CreateEgress, EgressAddress, Mount, Label, Drop,
           Latest, PublishChooser, AwaitChooser
  <1>9. QED
    BY <1>1, <1>6, <1>7, <1>8
       DEF Next, vars, resource, CallFails, MountFails, Restart, Watch, BecomeReady, RollOut,
           Scale, CollectGarbage

(* Every step keeps PathInv. *)
LEMMA PathKept == "mount" \notin Faults /\ PathInv /\ [Next]_vars => PathInv'
  <1>1. SUFFICES ASSUME "mount" \notin Faults, PathInv, [Next]_vars
                 PROVE  Mounted' /\ Dropped' /\ Path'
    BY GoneKept DEF PathInv
  <1>a. TypeOK /\ GoneInv /\ Mounted /\ Dropped /\ Path
    BY <1>1 DEF PathInv, GoneInv
  <1>b. cr'.exists => cr.exists
    BY <1>1, <1>a, ResourceChanges
  <1> USE PCs, RestingIs DEF MountPCs, DropPCs, FinalPCs, traffic
  <1>2. CASE run' = Resting
    BY <1>2 DEF Mounted, Dropped, Path
  (* Steps of others. *)
  <1>3. ASSUME run'.pc = run.pc, run'.fn = run.fn, run'.again = run.again, run'.todo = run.todo,
               labelled' = labelled, objects' \subseteq objects,
               cr.exists => objects' = objects
        PROVE  Mounted' /\ Dropped' /\ Path'
    <2>1. Mounted'
      BY <1>a, <1>b, <1>3 DEF Mounted
    <2>2. Dropped'
      BY <1>a, <1>3 DEF Dropped
    <2>3. Path'
      BY <1>a, <1>3 DEF Path, AllLabelled
    <2>4. QED
      BY <2>1, <2>2, <2>3
  (* Steps of the run that create, delete and label nothing. *)
  <1>4. ASSUME run'.again = run.again, UNCHANGED <<objects, labelled>>,
               \/ run'.pc \in DeletePCs /\ run.pc \in DeletePCs
               \/ run'.pc \in FinalPCs /\ run.pc \in FinalPCs
        PROVE  Mounted' /\ Dropped' /\ Path'
    <2>1. run'.pc \notin {"egress", "label"} \cup MountPCs \cup DropPCs
      BY <1>4 DEF DeletePCs
    <2>2. Mounted'
      BY <1>a, <1>b, <1>4, <2>1 DEF Mounted
    <2>3. Dropped'
      BY <1>a, <1>4, <2>1 DEF Dropped, DeletePCs
    <2>4. Path'
      BY <1>a, <1>4, <2>1 DEF Path, AllLabelled
    <2>5. QED
      BY <2>2, <2>3, <2>4
  <1>5. CASE Begin
    <2>1. CASE run' # Resting
      <3>1. /\ run'.pc = FirstPC(run'.fn) /\ run'.again = FALSE
            /\ run'.pc \in {"degrade", "egress", "dropEgress"}
        BY <1>5, <2>1 DEF Begin, FirstPC
      <3>2. /\ run'.pc = "egress" => run'.fn.concurrency > 1
            /\ run'.pc = "dropEgress" => ~(run'.fn.concurrency > 1)
        BY <3>1 DEF FirstPC
      <3>3. QED
        BY <3>1, <3>2 DEF Mounted, Dropped, Path
    <2>2. QED
      BY <1>2, <2>1
  <1>6. CASE Degrade \/ Degraded \/ FirstStatus
    <2>1. run \in Run /\ run.fn \in Resource
      BY <1>a, <1>6, Working DEF Degrade, Degraded, FirstStatus, Run
    <2>2. /\ [run.fn EXCEPT !.degraded = "unknown"] \in Resource
          /\ [run.fn EXCEPT !.degraded = "true"] \in Resource
          /\ [run.fn EXCEPT !.available = "unknown"] \in Resource
      BY <2>1 DEF Resource, Conditions
    <2>3. PICK new \in Resource, pc \in RunPCs :
            /\ Write(new, pc)
            /\ \/ pc \in DeletePCs /\ run.pc \in DeletePCs
               \/ pc \in FinalPCs /\ run.pc \in FinalPCs
      BY <1>6, <2>2 DEF Degrade, Degraded, FirstStatus, DeletePCs
    <2>4. run' = Resting \/ (run'.pc = pc /\ run'.again = run.again)
      BY <1>a, <2>1, <2>3, Wrote
    <2>5. UNCHANGED <<objects, labelled>>
      BY <1>6 DEF Degrade, Degraded, FirstStatus
    <2>6. QED
      BY <1>2, <1>4, <2>3, <2>4, <2>5
  <1>7. CASE Refetch \/ Latest
    <2>1. run \in Run /\ UNCHANGED <<objects, labelled>>
      BY <1>a, <1>7, Working DEF Refetch, Latest
    <2>2. PICK pc \in RunPCs :
            /\ Reread(pc)
            /\ \/ pc \in DeletePCs /\ run.pc \in DeletePCs
               \/ pc \in FinalPCs /\ run.pc \in FinalPCs
      BY <1>7 DEF Refetch, Latest, DeletePCs
    <2>3. run' = Resting \/ (run'.pc = pc /\ run'.again = run.again)
      BY <1>a, <2>1, <2>2, Read
    <2>4. QED
      BY <1>2, <1>4, <2>1, <2>2, <2>3
  <1>8. CASE Unfinalize \/ SetAvailable
    BY <1>2, <1>8 DEF Unfinalize, SetAvailable, Return, Fail
  <1>9. CASE CreateEgress
    <2>1. run \in Run /\ "address" \in RunPCs /\ Goto("address")
      BY <1>a, <1>9, Working DEF CreateEgress
    <2>2. /\ run'.pc = "address" /\ run'.fn = run.fn /\ run'.again = run.again
          /\ labelled' = labelled /\ objects' = objects \cup {"egress"}
      BY <1>9, <2>1, Went DEF CreateEgress
    <2>3. ~run.again /\ run.fn.concurrency > 1
      BY <1>a, <1>9 DEF CreateEgress, Path
    <2>4. QED
      BY <2>2, <2>3 DEF Mounted, Dropped, Path
  (* After createAndMountConfigMap: all is there, unless the resource is gone. *)
  <1>10. ASSUME run \in Run, run.pc \in MountPCs, AfterMount, labelled' = labelled,
                cr.exists => objects' = Objects
         PROVE  Mounted' /\ Dropped' /\ Path'
    <2>1. /\ run'.fn = run.fn /\ run'.again = run.again
          /\ \/ run.again /\ run'.pc \in {"status", "latest"}
             \/ ~run.again /\ run'.pc = "label" /\ run'.todo = Variants
      BY <1>10, WentOnAfterMount
    <2>2. run.fn.concurrency > 1
      BY <1>a, <1>10 DEF Path
    <2>3. Mounted'
      BY <1>b, <1>10, <2>1 DEF Mounted, Objects
    <2>4. Dropped'
      BY <2>1 DEF Dropped
    <2>5. Path'
      BY <1>a, <1>10, <2>1, <2>2 DEF Path, AllLabelled
    <2>6. QED
      BY <2>3, <2>4, <2>5
  <1>11. CASE EgressAddress
    <2>1. run \in Run /\ "config" \in RunPCs /\ UNCHANGED <<objects, labelled>>
      BY <1>a, <1>11, Working DEF EgressAddress
    <2>2. CASE Goto("config")
      <3>1. run'.pc = "config" /\ run'.fn = run.fn /\ run'.again = run.again
        BY <2>1, <2>2, Went
      <3>2. QED
        BY <1>a, <1>b, <1>11, <2>1, <3>1 DEF EgressAddress, Mounted, Dropped, Path, AllLabelled
    <2>3. CASE "egress" \notin objects /\ AfterMount
      <3>1. ~cr.exists
        BY <1>a, <1>11, <2>3 DEF EgressAddress, Mounted
      <3>2. QED
        BY <1>10, <1>11, <2>1, <2>3, <3>1 DEF EgressAddress
    <2>4. QED
      BY <1>11, <2>2, <2>3 DEF EgressAddress
  <1>12. CASE Mount("policy", "label")
    <2>1. run \in Run /\ AfterMount /\ labelled' = labelled /\ objects' = objects \cup {"policy"}
      BY <1>a, <1>12, Working DEF Mount
    <2>2. cr.exists => objects' = Objects
      BY ZenonT(30), <1>a, <1>12, <2>1 DEF Mount, Mounted, Objects, TypeOK
    <2>3. QED
      BY <1>10, <1>12, <2>1, <2>2 DEF Mount
  <1>13. ASSUME NEW o \in {"config", "exception"}, NEW pc \in {"exception", "policy"}, Mount(o, pc),
                o = "config" => pc = "exception", o = "exception" => pc = "policy"
         PROVE  Mounted' /\ Dropped' /\ Path'
    <2>1. run \in Run /\ pc \in RunPCs /\ Goto(pc) /\ run.pc = o
      BY <1>a, <1>13, Working DEF Mount
    <2>2. /\ run'.pc = pc /\ run'.fn = run.fn /\ run'.again = run.again
          /\ labelled' = labelled /\ objects' = objects \cup {o}
      BY <1>13, <2>1, Went DEF Mount
    <2>3. Mounted'
      BY <1>a, <1>b, <1>13, <2>1, <2>2 DEF Mounted, Objects
    <2>4. Dropped' /\ Path'
      BY <1>a, <1>13, <2>1, <2>2 DEF Dropped, Path, AllLabelled
    <2>5. QED
      BY <2>3, <2>4
  <1>14. ASSUME NEW v \in Variants, Label(v)
         PROVE  Mounted' /\ Dropped' /\ Path'
    <2>1. run \in Run /\ run.pc = "label" /\ v \in run.todo /\ objects' = objects
      BY <1>a, <1>14, Working DEF Label
    <2>2. labelled'[v] /\ \A w \in Variants : labelled[w] => labelled'[w]
      BY <1>a, <1>14 DEF Label, TypeOK
    <2>3. /\ ~run.again /\ run.fn.concurrency > 1
          /\ \A w \in Variants \ run.todo : labelled[w]
      BY <1>a, <2>1 DEF Path
    <2>4. cr.exists => objects = Objects
      BY <1>a, <2>1 DEF Mounted, Objects, TypeOK
    <2>5. CASE run.todo = {v}
      <3>1. run'.pc = "address" /\ run'.fn = run.fn /\ run'.again
        BY <1>14, <2>1, <2>5 DEF Label, Run
      <3>2. QED
        BY <1>b, <2>1, <2>2, <2>3, <2>4, <2>5, <3>1 DEF Mounted, Dropped, Path, AllLabelled, Objects
    <2>6. CASE run.todo # {v}
      <3>1. run'.pc = "label" /\ run'.fn = run.fn /\ ~run'.again /\ run'.todo = run.todo \ {v}
        BY <1>14, <2>1, <2>3, <2>6 DEF Label, Run
      <3>2. QED
        BY <1>b, <2>1, <2>2, <2>3, <2>4, <3>1 DEF Mounted, Dropped, Path, AllLabelled, Objects
    <2>7. QED
      BY <2>5, <2>6
  <1>15. ASSUME NEW o \in Objects, NEW here \in DropPCs,
                NEW pc \in DropPCs \cup {"status", "latest"}, Drop(o, here, pc),
                \/ o = "egress" /\ here = "dropEgress" /\ pc = "dropConfig"
                \/ o = "config" /\ here = "dropConfig" /\ pc = "dropException"
                \/ o = "exception" /\ here = "dropException" /\ pc = "dropPolicy"
                \/ o = "policy" /\ here = "dropPolicy" /\ pc \in {"status", "latest"}
         PROVE  Mounted' /\ Dropped' /\ Path'
    <2>1. run \in Run /\ pc \in RunPCs /\ Goto(pc) /\ run.pc = here
      BY <1>a, <1>15, Working DEF Drop
    <2>2. /\ run'.pc = pc /\ run'.fn = run.fn /\ run'.again = run.again
          /\ labelled' = labelled /\ objects' = objects \ {o}
      BY <1>15, <2>1, Went DEF Drop
    <2>3. ~run.again /\ ~(run.fn.concurrency > 1)
      BY <1>a, <1>15, <2>1 DEF Path
    <2>4. Mounted' /\ Path'
      BY <1>15, <2>2, <2>3 DEF Mounted, Path
    <2>5. Dropped'
      BY <1>a, <1>15, <2>1, <2>2 DEF Dropped, Objects, TypeOK
    <2>6. QED
      BY <2>4, <2>5
  <1>16. CASE AddFinalizer
    <2>1. run \in Run /\ "chooser" \in RunPCs /\ UNCHANGED <<objects, labelled>>
      BY <1>a, <1>16, Working DEF AddFinalizer
    <2>2. run' = Resting \/ (run'.pc = "chooser" /\ run'.again = run.again)
      BY <1>16, <2>1, Went DEF AddFinalizer, Fail, Run
    <2>3. QED
      BY <1>2, <1>4, <1>16, <2>1, <2>2 DEF AddFinalizer
  <1>17. CASE PublishChooser \/ AwaitChooser
    <2>1. run \in Run /\ {"await", "available"} \subseteq RunPCs /\ UNCHANGED <<objects, labelled>>
      BY <1>a, <1>17, Working DEF PublishChooser, AwaitChooser
    <2>2. run' = Resting \/ (run'.pc \in {"await", "available"} /\ run'.again = run.again)
      BY <1>17, <2>1, Went DEF PublishChooser, AwaitChooser, Fail
    <2>3. QED
      BY <1>2, <1>4, <1>17, <2>1, <2>2 DEF PublishChooser, AwaitChooser
  <1>18. CASE CallFails \/ Restart
    BY <1>2, <1>18 DEF CallFails, Restart, Fail
  <1>19. ~MountFails
    BY <1>1 DEF MountFails
  <1>20. ASSUME NEW new, Change(new)
         PROVE  Mounted' /\ Dropped' /\ Path'
    <2>1. run'.pc = run.pc /\ run'.fn = run.fn /\ run'.again = run.again /\ run'.todo = run.todo
      BY <1>a, <1>20 DEF Change, TypeOK, Run, Resting
    <2>2. QED
      BY <1>3, <1>20, <2>1 DEF Change
  <1>21. CASE Delete \/ \E n \in Asked : Edit(n)
    BY <1>20, <1>21 DEF Delete, Edit
  <1>22. CASE Watch \/ (\E o \in {"egress", "chooser"} : BecomeReady(o))
              \/ (\E v \in Variants : RollOut(v) \/ Scale(v)) \/ UNCHANGED vars
    BY <1>3, <1>22 DEF Watch, BecomeReady, RollOut, Scale, vars
  <1>23. ASSUME NEW o, CollectGarbage(o)
         PROVE  Mounted' /\ Dropped' /\ Path'
    BY <1>3, <1>23 DEF CollectGarbage
  <1>24. StatusPC(run.fn) \in {"status", "latest"}
    BY DEF StatusPC
  <1>25. CASE Reconcile
    <2>1. CASE Drop("egress", "dropEgress", "dropConfig")
      BY <1>15, <2>1 DEF Objects
    <2>2. CASE Drop("config", "dropConfig", "dropException")
      BY <1>15, <2>2 DEF Objects
    <2>3. CASE Drop("exception", "dropException", "dropPolicy")
      BY <1>15, <2>3 DEF Objects
    <2>4. CASE Drop("policy", "dropPolicy", StatusPC(run.fn))
      BY <1>15, <1>24, <2>4 DEF Objects
    <2>5. CASE Mount("config", "exception") \/ Mount("exception", "policy")
      BY <1>13, <2>5
    <2>6. QED
      BY <1>5, <1>6, <1>7, <1>8, <1>9, <1>11, <1>12, <1>14, <1>16, <1>17, <1>25,
         <2>1, <2>2, <2>3, <2>4, <2>5 DEF Reconcile
  <1>26. QED
    BY <1>1, <1>18, <1>19, <1>21, <1>22, <1>23, <1>25 DEF Next

(* Nothing is created or on its way at first. *)
LEMMA PathInitially == Init => PathInv
  <1>1. SUFFICES ASSUME Init PROVE PathInv
    OBVIOUS
  <1>2. GoneInv /\ run = Resting
    BY <1>1, GoneInitially DEF Init
  <1>3. QED
    BY <1>2, RestingIs DEF PathInv, Mounted, Dropped, Path, MountPCs, DropPCs, FinalPCs

-----------------------------------------------------------------------------
(* A run that nothing has overtaken, and what it leaves behind.            *)

(* Since the run began, its copy of the resource has not become old.       *)
UpToDate == ~queued /\ synced

(* Then its copy asks for what the resource asks for, and it went the way  *)
(* the resource asks for.                                                  *)
Currency ==
    /\ UpToDate /\ run.pc \in RunPCs \ DeletePCs => run.fn.concurrency = cr.concurrency
    /\ UpToDate /\ run.pc \in FinalPCs => (run.again <=> run.fn.concurrency > 1)

(* Then so does the chooser, once it is written. *)
Published ==
    /\ UpToDate /\ run.pc \in {"await", "available"} =>
           chooser # None /\ chooser.concurrency = cr.concurrency
    /\ chooser # None => (chooser.egress <=> chooser.concurrency > 1)

QuietInv == PathInv /\ Currency /\ Published /\ QuietMatches

(* Every step keeps QuietInv: what overtakes a run leaves the cache old or *)
(* the resource in the queue.                                              *)
LEMMA QuietKept == "mount" \notin Faults /\ QuietInv /\ [Next]_vars => QuietInv'
  <1>1. SUFFICES ASSUME "mount" \notin Faults, QuietInv, [Next]_vars
                 PROVE  Currency' /\ Published' /\ QuietMatches'
    BY PathKept DEF QuietInv
  <1>a. /\ TypeOK /\ TypeOK' /\ Versions /\ Finalized /\ Mounted /\ Dropped /\ Path
        /\ Currency /\ Published /\ QuietMatches
    BY <1>1, TypeKept DEF QuietInv, PathInv, GoneInv
  <1> USE PCs, RestingIs DEF MountPCs, DropPCs, FinalPCs, DeletePCs, UpToDate, traffic, resource
  (* The run has to be repeated, or the copy is old. *)
  <1>2. ASSUME queued' \/ ~synced', chooser' \in {chooser, None}
        PROVE  Currency' /\ Published' /\ QuietMatches'
    BY <1>a, <1>2 DEF Currency, Published, QuietMatches, Quiet
  (* The run is in the deletion branch. *)
  <1>3. ASSUME run'.pc \in DeletePCs, chooser' = chooser
        PROVE  Currency' /\ Published' /\ QuietMatches'
    BY <1>a, <1>3 DEF Currency, Published, QuietMatches, Quiet
  (* Steps of others. *)
  <1>4. ASSUME UNCHANGED <<cr, synced, queued, run, objects, chooser, labelled>>
        PROVE  Currency' /\ Published' /\ QuietMatches'
    BY <1>a, <1>4 DEF Currency, Published, QuietMatches, Quiet, Matches
  (* Steps of the run within a part of it. *)
  <1>5. ASSUME UNCHANGED <<cr, synced, queued, chooser>>,
               run.pc \in RunPCs \ DeletePCs, run'.pc \in RunPCs \ DeletePCs,
               UpToDate => run'.fn.concurrency = run.fn.concurrency, run'.again = run.again,
               run'.pc \in FinalPCs =>
                   run.pc \in FinalPCs \/ (run.again <=> run.fn.concurrency > 1),
               run'.pc \in {"await", "available"} => run.pc \in {"await", "available"}
        PROVE  Currency' /\ Published' /\ QuietMatches'
    <2>1. Currency'
      BY <1>a, <1>5 DEF Currency
    <2>2. Published'
      BY <1>a, <1>5 DEF Published
    <2>3. QuietMatches'
      BY <1>5 DEF QuietMatches, Quiet
    <2>4. QED
      BY <2>1, <2>2, <2>3
  <1>6. CASE Begin
    <2>1. /\ UNCHANGED <<cr, cache, synced, chooser, objects, labelled>>
          /\ ~queued'
      BY <1>6 DEF Begin
    <2>2. CASE run' # Resting
      <3>1. run'.fn = cache /\ run'.pc \in {"degrade", "egress", "dropEgress"}
        BY <1>6, <2>2 DEF Begin, FirstPC
      <3>2. Currency'
        BY <1>a, <2>1, <3>1 DEF Currency, Versions
      <3>3. QED
        BY <1>a, <2>1, <2>2, <3>1, <3>2 DEF Published, QuietMatches, Quiet
    <2>3. CASE run' = Resting
      <3>1. ~(cache.exists /\ (cache.deleting => cache.finalizer))
        BY <1>6, <2>3 DEF Begin, FirstPC
      <3>2. ~Quiet'
        BY <1>a, <2>1, <3>1 DEF Quiet, Versions
      <3>3. QED
        BY <1>a, <2>1, <2>3, <3>2 DEF Currency, Published, QuietMatches
    <2>4. QED
      BY <2>2, <2>3
  <1>7. CASE Degrade \/ Degraded
    <2>1. run \in Run /\ run.fn \in Resource /\ chooser' = chooser
      BY <1>a, <1>7, Working DEF Degrade, Degraded, Run
    <2>2. /\ [run.fn EXCEPT !.degraded = "unknown"] \in Resource
          /\ [run.fn EXCEPT !.degraded = "true"] \in Resource
      BY <2>1 DEF Resource, Conditions
    <2>3. PICK new \in Resource, pc \in DeletePCs : Write(new, pc)
      BY <1>7, <2>2 DEF Degrade, Degraded
    <2>4. run'.pc \in DeletePCs \/ queued'
      BY <1>a, <2>1, <2>3, Wrote
    <2>5. QED
      BY <1>2, <1>3, <2>1, <2>4
  <1>8. CASE FirstStatus
    <2>1. run \in Run /\ run.fn \in Resource /\ chooser' = chooser
      BY <1>a, <1>8, Working DEF FirstStatus, Run
    <2>2. /\ [run.fn EXCEPT !.available = "unknown"] \in Resource
      BY <2>1 DEF Resource, Conditions
    <2>3. PICK new \in Resource : Write(new, "latest")
      BY <1>8, <2>2 DEF FirstStatus
    <2>4. CASE queued' \/ ~synced'
      BY <1>2, <2>1, <2>4
    <2>5. CASE ~queued' /\ synced'
      <3>1. /\ run.fresh /\ cr' = cr /\ synced' = synced /\ queued' = queued
            /\ run'.pc = "latest" /\ run'.fn = cr /\ run'.again = run.again
        BY <1>a, <2>1, <2>3, <2>5, Wrote
      <3>2. run.fn = cr /\ run.pc = "status"
        BY <1>a, <1>8, <3>1 DEF Versions, FirstStatus
      <3>3. QED
        BY <1>5, <2>1, <3>1, <3>2
    <2>6. QED
      BY <2>4, <2>5
  <1>9. CASE Refetch \/ Latest
    <2>1. run \in Run /\ UNCHANGED <<cr, synced, chooser>>
      BY <1>a, <1>9, Working DEF Refetch, Latest
    <2>2. CASE Refetch
      <3>1. run'.pc = "degraded" \/ queued'
        BY <1>a, <2>1, <2>2, Read DEF Refetch
      <3>2. QED
        BY <1>2, <1>3, <2>1, <3>1
    <2>3. CASE Latest
      <3>1. PICK pc \in {"chooser", "finalizer"} : Reread(pc)
        BY <2>3 DEF Latest
      <3>2. \/ queued'
            \/ run'.pc = pc /\ run'.fn = cache /\ run'.again = run.again /\ queued' = queued
        BY <1>a, <2>1, <3>1, Read
      <3>3. UpToDate => cache.concurrency = run.fn.concurrency
        BY <1>a, <2>3 DEF Latest, Currency, Versions
      <3>4. QED
        BY <1>2, <1>5, <2>1, <2>3, <3>2, <3>3 DEF Latest
    <2>4. QED
      BY <1>9, <2>2, <2>3
  <1>10. CASE Unfinalize
    <2>1. (~synced' \/ queued') /\ chooser' = chooser
      BY <1>10 DEF Unfinalize, Fail
    <2>2. QED
      BY <1>2, <2>1
  <1>11. ASSUME run \in Run, run.pc \in MountPCs, AfterMount, UNCHANGED <<cr, synced, chooser>>
         PROVE  Currency' /\ Published' /\ QuietMatches'
    <2>1. /\ run'.fn = run.fn /\ run'.again = run.again /\ queued' = queued
          /\ \/ run.again /\ run'.pc \in {"status", "latest"}
             \/ ~run.again /\ run'.pc = "label"
      BY <1>11, WentOnAfterMount
    <2>2. run.fn.concurrency > 1
      BY <1>a, <1>11 DEF Path
    <2>3. QED
      BY <1>5, <1>11, <2>1, <2>2
  <1>12. ASSUME NEW pc \in RunPCs \ (DeletePCs \cup FinalPCs), run \in Run,
                run.pc \in RunPCs \ DeletePCs, Goto(pc), UNCHANGED <<cr, synced, chooser>>
         PROVE  Currency' /\ Published' /\ QuietMatches'
    BY <1>5, <1>12, Went
  <1>13. CASE CreateEgress
    <2>1. run \in Run
      BY <1>a, <1>13, Working DEF CreateEgress
    <2>2. QED
      BY <1>12, <1>13, <2>1 DEF CreateEgress
  <1>14. CASE EgressAddress
    <2>1. run \in Run
      BY <1>a, <1>14, Working DEF EgressAddress
    <2>2. QED
      BY <1>11, <1>12, <1>14, <2>1 DEF EgressAddress
  <1>15. CASE Mount("config", "exception") \/ Mount("exception", "policy")
    <2>1. run \in Run
      BY <1>a, <1>15, Working DEF Mount
    <2>2. QED
      BY <1>12, <1>15, <2>1 DEF Mount
  <1>16. CASE Mount("policy", "label")
    <2>1. run \in Run
      BY <1>a, <1>16, Working DEF Mount
    <2>2. QED
      BY <1>11, <1>16, <2>1 DEF Mount
  <1>17. ASSUME NEW v \in Variants, Label(v)
         PROVE  Currency' /\ Published' /\ QuietMatches'
    <2>1. run \in Run /\ run.pc = "label" /\ UNCHANGED <<cr, synced, queued, chooser>>
      BY <1>a, <1>17, Working DEF Label
    <2>2. run'.pc \in {"address", "label"} /\ run'.fn = run.fn
      BY <1>17, <2>1 DEF Label, Run
    <2>3. QED
      BY <1>a, <2>1, <2>2 DEF Currency, Published, QuietMatches, Quiet
  <1>18. ASSUME NEW o, NEW here \in DropPCs,
                NEW pc \in DropPCs \cup {"status", "latest"}, Drop(o, here, pc)
         PROVE  Currency' /\ Published' /\ QuietMatches'
    <2>1. run \in Run /\ pc \in RunPCs /\ Goto(pc) /\ UNCHANGED <<cr, synced, chooser>>
      BY <1>a, <1>18, Working DEF Drop
    <2>2. run'.pc = pc /\ run'.fn = run.fn /\ run'.again = run.again /\ queued' = queued
      BY <2>1, Went
    <2>3. run.pc = here /\ ~run.again /\ ~(run.fn.concurrency > 1)
      BY <1>a, <1>18 DEF Drop, Path
    <2>4. QED
      BY <1>5, <2>1, <2>2, <2>3
  <1>19. CASE AddFinalizer
    <2>1. run \in Run /\ run.pc = "finalizer" /\ chooser' = chooser
      BY <1>a, <1>19, Working DEF AddFinalizer
    <2>2. CASE Goto("chooser") /\ UNCHANGED resource
      BY <1>5, <2>1, <2>2, Went
    <2>3. CASE queued' \/ ~synced'
      BY <1>2, <2>1, <2>3
    <2>4. QED
      BY <1>19, <2>2, <2>3 DEF AddFinalizer, Fail
  <1>20. CASE PublishChooser
    <2>1. run \in Run /\ run.fn \in Resource /\ run.pc = "chooser" /\ UNCHANGED <<cr, synced>>
      BY <1>a, <1>20, Working DEF PublishChooser, Run
    <2>2. CASE Fail /\ chooser' = chooser
      BY <1>2, <2>2 DEF Fail
    <2>3. CASE Goto("await") /\ chooser' = PublishedChooser(run.fn.concurrency)
      <3>1. run'.pc = "await" /\ run'.fn = run.fn /\ run'.again = run.again /\ queued' = queued
        BY <2>1, <2>3, Went
      <3>2. /\ chooser'.concurrency = run.fn.concurrency
            /\ chooser'.egress <=> chooser'.concurrency > 1
        BY <2>3 DEF PublishedChooser
      <3>3. chooser' # None
        <4>1. run.fn.concurrency \in Asked
          BY <2>1 DEF Resource
        <4>2. chooser' \in [concurrency : Asked, egress : BOOLEAN]
          BY <2>3, <4>1, ReconcilerAssumption DEF PublishedChooser
        <4>3. QED
          BY <4>2, ReconcilerAssumption
      <3>4. Currency' /\ Published'
        BY <1>a, <2>1, <3>1, <3>2, <3>3 DEF Currency, Published
      <3>5. QED
        BY <3>1, <3>4 DEF QuietMatches, Quiet
    <2>4. QED
      BY <1>20, <2>2, <2>3 DEF PublishChooser
  <1>21. CASE AwaitChooser
    <2>1. run \in Run /\ run.pc = "await" /\ UNCHANGED <<cr, synced, chooser>> /\ Goto("available")
      BY <1>a, <1>21, Working DEF AwaitChooser
    <2>2. QED
      BY <1>5, <2>1, Went
  (* The end of a run: nothing has changed since it began. *)
  <1>22. CASE SetAvailable
    <2>1. run' = Resting /\ run.pc = "available" /\ UNCHANGED <<chooser, objects, labelled>>
      BY <1>22 DEF SetAvailable, Return, Fail
    <2>2. CASE queued' \/ ~synced'
      BY <1>2, <2>1, <2>2
    <2>3. CASE ~queued' /\ synced'
      <3>1. /\ cache.exists /\ cache.available = "true" /\ cr' = cr /\ UpToDate
        <4>1. CASE cache.exists /\ cache.available = "true" /\ Return /\ UNCHANGED resource
          BY <2>3, <4>1 DEF Return
        <4>2. CASE synced' = FALSE
          BY <2>3, <4>2
        <4>3. CASE Fail
          BY <2>3, <4>3 DEF Fail
        <4>4. QED
          BY <1>22, <4>1, <4>2, <4>3 DEF SetAvailable
      <3>2. cr.available = "true" /\ cr.exists /\ cr.finalizer
        BY <1>a, <2>1, <3>1 DEF Versions, Finalized
      <3>3. /\ chooser # None /\ chooser.concurrency = cr.concurrency
            /\ chooser.egress <=> cr.concurrency > 1
            /\ run.again <=> cr.concurrency > 1
        BY <1>a, <2>1, <3>1 DEF Currency, Published
      <3>4. IF cr.concurrency > 1 THEN objects = Objects /\ \A v \in Variants : labelled[v]
                                  ELSE objects = {}
        BY <1>a, <2>1, <3>2, <3>3 DEF Mounted, Dropped, Path, AllLabelled
      <3>5. chooser.egress = (cr.concurrency > 1)
        BY <1>a, <3>3 DEF TypeOK
      <3>6. Matches'
        BY <2>1, <3>1, <3>3, <3>4, <3>5 DEF Matches
      <3>7. QED
        BY <1>a, <2>1, <3>1, <3>2, <3>6 DEF Currency, Published, QuietMatches
    <2>4. QED
      BY <2>2, <2>3
  <1>23. CASE CallFails \/ Restart
    BY <1>2, <1>23 DEF CallFails, Restart, Fail
  <1>24. ~MountFails
    BY <1>1 DEF MountFails
  <1>25. CASE Watch \/ Delete \/ \E n \in Asked : Edit(n)
    BY <1>2, <1>25 DEF Watch, Delete, Edit, Change
  <1>26. CASE (\E o \in {"egress", "chooser"} : BecomeReady(o))
              \/ (\E v \in Variants : RollOut(v) \/ Scale(v)) \/ UNCHANGED vars
    BY <1>4, <1>26 DEF BecomeReady, RollOut, Scale, vars
  <1>27. ASSUME NEW o, CollectGarbage(o)
         PROVE  Currency' /\ Published' /\ QuietMatches'
    <2>1. /\ ~cr.exists /\ UNCHANGED <<cr, cache, synced, queued, run>>
          /\ chooser' \in {chooser, None}
      BY <1>27 DEF CollectGarbage
    <2>2. run.pc \notin {"await", "available"}
      BY <1>a, <2>1 DEF Finalized
    <2>3. QED
      BY <1>a, <2>1, <2>2 DEF Currency, Published, QuietMatches, Quiet
  <1>28. StatusPC(run.fn) \in {"status", "latest"}
    BY DEF StatusPC
  <1>29. CASE Reconcile
    <2>1. CASE \/ Drop("egress", "dropEgress", "dropConfig")
               \/ Drop("config", "dropConfig", "dropException")
               \/ Drop("exception", "dropException", "dropPolicy")
               \/ Drop("policy", "dropPolicy", StatusPC(run.fn))
      BY <1>18, <1>28, <2>1
    <2>2. QED
      BY <1>6, <1>7, <1>8, <1>9, <1>10, <1>13, <1>14, <1>15, <1>16, <1>17, <1>19, <1>20,
         <1>21, <1>22, <1>29, <2>1 DEF Reconcile
  <1>30. QED
    BY <1>1, <1>23, <1>24, <1>25, <1>26, <1>27, <1>29 DEF Next

(* At rest the cluster is what the latest spec asks for, whatever edits,   *)
(* stale reads, failed calls and restarts came before (lines 81-521).      *)
THEOREM RestIsDone == ASSUME "mount" \notin Faults PROVE Spec => []QuietMatches
  <1>1. Init => QuietInv
    <2>1. SUFFICES ASSUME Init PROVE QuietInv
      OBVIOUS
    <2>2. PathInv /\ ~synced /\ chooser = None
      BY <2>1, PathInitially DEF Init
    <2>3. QED
      BY <2>2 DEF QuietInv, Currency, Published, QuietMatches, Quiet, UpToDate
  <1>2. QuietInv /\ [Next]_vars => QuietInv'
    BY QuietKept
  <1>3. QuietInv => QuietMatches
    BY DEF QuietInv
  <1>4. QED
    BY <1>1, <1>2, <1>3, PTL DEF Spec

-----------------------------------------------------------------------------
(* Pods of the variants, if users only raise the concurrency.              *)

(* An older copy asks for no more than a later one. *)
Raising ==
    /\ cache.concurrency <= cr.concurrency
    /\ run.pc \in RunPCs => run.fn.concurrency <= cache.concurrency

(* What a label on a variant's template tells. *)
Labels ==
    /\ \A v \in Variants : labelled[v] => cache.concurrency > 1
    /\ run.pc \in DropPCs => \A v \in Variants : ~labelled[v]
    /\ cr.exists => \A v \in Variants : labelled[v] =>
           /\ {"config", "exception", "policy"} \subseteq objects
           /\ rollout[v] \/ pods[v] \in {"none", "egress"}
    /\ chooser # None /\ chooser.egress => AllLabelled /\ \A v \in Variants : ~rollout[v]

ServedInv == PathInv /\ Raising /\ Labels

(* Where the copies come from, and how a run enters the removal of the egress part. *)
LEMMA CopyChanges ==
    ASSUME TypeOK, [Next]_vars
    PROVE  /\ cache' \in {cache, cr}
           /\ run'.pc \in RunPCs =>
                \/ run'.fn.concurrency = cache.concurrency
                \/ run.pc \in RunPCs /\ run'.fn.concurrency = run.fn.concurrency
           /\ run'.pc \in DropPCs =>
                run.pc \in DropPCs \/ (cache' = cache /\ ~(cache.concurrency > 1))
  <1> DEFINE Done == /\ run'.pc \in RunPCs =>
                          \/ run'.fn.concurrency = cache.concurrency
                          \/ run.pc \in RunPCs /\ run'.fn.concurrency = run.fn.concurrency
                     /\ run'.pc \in DropPCs =>
                          run.pc \in DropPCs \/ (cache' = cache /\ ~(cache.concurrency > 1))
  <1> USE PCs, RestingIs DEF MountPCs, DropPCs, DeletePCs, resource, traffic, counters
  <1>1. cache' \in {cache, cr}
    BY DEF Next, vars, Reconcile, Begin, Degrade, Refetch, Degraded, Unfinalize, CreateEgress,
           EgressAddress, Mount, Label, Drop, FirstStatus, Latest, AddFinalizer, PublishChooser,
           AwaitChooser, SetAvailable, CallFails, MountFails, Restart, Edit, Delete, Change,
           Watch, BecomeReady, RollOut, Scale, CollectGarbage, Write
  <1>b. SUFFICES Done
    BY <1>1
  <1>2. CASE run' = Resting
    BY <1>2
  <1>3. CASE run' = run
    BY <1>3
  (* A step of the run with the same copy. *)
  <1>4. ASSUME run'.fn = run.fn, run.pc \in RunPCs,
               run'.pc \in DropPCs => run.pc \in DropPCs
        PROVE  Done
    BY <1>4
  <1>5. CASE Begin
    <2>1. CASE run' # Resting
      <3>1. run'.fn = cache /\ run'.pc = FirstPC(cache) /\ cache' = cache
        BY <1>5, <2>1 DEF Begin
      <3>2. QED
        BY <3>1 DEF FirstPC
    <2>2. QED
      BY <1>2, <2>1
  <1>6. CASE Degrade \/ Degraded \/ FirstStatus
    <2>1. run \in Run /\ run.fn \in Resource /\ run.pc \in RunPCs
      BY <1>6, Working DEF Degrade, Degraded, FirstStatus, Run
    <2>2. /\ [run.fn EXCEPT !.degraded = "unknown"] \in Resource
          /\ [run.fn EXCEPT !.degraded = "true"] \in Resource
          /\ [run.fn EXCEPT !.available = "unknown"] \in Resource
      BY <2>1 DEF Resource, Conditions
    <2>3. /\ [run.fn EXCEPT !.degraded = "unknown"].concurrency = run.fn.concurrency
          /\ [run.fn EXCEPT !.degraded = "true"].concurrency = run.fn.concurrency
          /\ [run.fn EXCEPT !.available = "unknown"].concurrency = run.fn.concurrency
      BY <2>1 DEF Resource
    <2>4. PICK new \in Resource, pc \in RunPCs \ DropPCs :
            Write(new, pc) /\ new.concurrency = run.fn.concurrency
      BY <1>6, <2>2, <2>3 DEF Degrade, Degraded, FirstStatus
    <2>5. run' = Resting \/ (run'.pc = pc /\ run'.fn = new)
      BY <2>1, <2>4, Wrote
    <2>6. QED
      BY <1>2, <2>1, <2>4, <2>5
  <1>7. CASE Refetch \/ Latest
    <2>1. run \in Run
      BY <1>7, Working DEF Refetch, Latest
    <2>2. PICK pc \in RunPCs \ DropPCs : Reread(pc)
      BY <1>7 DEF Refetch, Latest
    <2>3. run' = Resting \/ (run'.pc = pc /\ run'.fn = cache)
      BY <2>1, <2>2, Read
    <2>4. QED
      BY <1>2, <2>2, <2>3
  <1>8. ASSUME NEW pc \in RunPCs, Goto(pc), run.pc \in RunPCs,
               pc \in DropPCs => run.pc \in DropPCs
        PROVE  Done
    <2>1. run'.pc = pc /\ run'.fn = run.fn
      BY <1>8, Working, Went
    <2>2. QED
      BY <1>4, <1>8, <2>1
  <1>9. ASSUME AfterMount, run.pc \in MountPCs
        PROVE  Done
    <2>1. run'.fn = run.fn /\ run'.pc \in {"status", "latest", "label"}
      BY <1>9, Working, WentOnAfterMount
    <2>2. QED
      BY <1>4, <1>9, <2>1
  <1>10. CASE Unfinalize \/ SetAvailable \/ CallFails \/ Restart
    BY <1>2, <1>10 DEF Unfinalize, SetAvailable, CallFails, Restart, Return, Fail
  <1>11. CASE CreateEgress \/ EgressAddress \/ AwaitChooser
    BY <1>8, <1>9, <1>11 DEF CreateEgress, EgressAddress, AwaitChooser
  <1>12. ASSUME NEW o \in {"config", "exception", "policy"},
                NEW pc \in {"exception", "policy", "label"}, Mount(o, pc)
         PROVE  Done
    BY <1>8, <1>9, <1>12 DEF Mount
  <1>13. ASSUME NEW v \in Variants, Label(v)
         PROVE  Done
    <2>1. run'.fn = run.fn /\ run'.pc \in {"address", "label"} /\ run.pc = "label"
      BY <1>13, Working DEF Label, Run
    <2>2. QED
      BY <1>4, <2>1
  <1>14. ASSUME NEW o, NEW here \in DropPCs, NEW pc \in RunPCs, Drop(o, here, pc)
         PROVE  Done
    BY <1>8, <1>14 DEF Drop
  <1>15. CASE AddFinalizer
    <2>1. run \in Run
      BY <1>15, Working DEF AddFinalizer
    <2>2. /\ [run EXCEPT !.pc = "chooser", !.fresh = FALSE].pc = "chooser"
          /\ [run EXCEPT !.pc = "chooser", !.fresh = FALSE].fn = run.fn
      BY <2>1 DEF Run
    <2>3. QED
      BY <1>2, <1>4, <1>8, <1>15, <2>2 DEF AddFinalizer, Fail
  <1>16. CASE PublishChooser
    BY <1>2, <1>8, <1>16 DEF PublishChooser, Fail
  <1>17. CASE MountFails
    BY <1>9, <1>17 DEF MountFails
  <1>18. CASE Delete \/ \E n \in Asked : Edit(n)
    <2>1. run' = [run EXCEPT !.fresh = FALSE]
      BY <1>18 DEF Delete, Edit, Change
    <2>2. run'.pc = run.pc /\ run'.fn = run.fn
      BY <2>1 DEF TypeOK, Run, Resting
    <2>3. QED
      BY <2>2
  <1>19. StatusPC(run.fn) \in RunPCs
    BY DEF StatusPC
  <1>20. CASE Reconcile
    BY <1>5, <1>6, <1>7, <1>10, <1>11, <1>12, <1>13, <1>14, <1>15, <1>16, <1>19, <1>20
       DEF Reconcile
  <1>21. CASE \/ Watch \/ (\E o \in {"egress", "chooser"} : BecomeReady(o))
              \/ (\E v \in Variants : RollOut(v) \/ Scale(v))
              \/ (\E o \in Objects \cup {"chooser"} : CollectGarbage(o)) \/ UNCHANGED vars
    BY <1>3, <1>21 DEF Watch, BecomeReady, RollOut, Scale, CollectGarbage, vars
  <1>22. QED
    BY <1>10, <1>17, <1>18, <1>20, <1>21 DEF Next

(* Copies stay in the order of their versions. *)
LEMMA RaisingKept ==
    ASSUME ~Lowering, GoneInv, Raising, [Next]_vars
    PROVE  Raising' /\ cache.concurrency <= cache'.concurrency
  <1>a. /\ TypeOK /\ TypeOK'
        /\ cache.concurrency <= cr.concurrency
        /\ run.pc \in RunPCs => run.fn.concurrency <= cache.concurrency
    BY TypeKept DEF GoneInv, Raising
  <1>1. cr.concurrency \in Nat /\ cache.concurrency \in Nat
    BY <1>a, ReconcilerAssumption DEF TypeOK, Resource
  <1>2. cr'.concurrency \in Nat
    BY <1>a, ReconcilerAssumption DEF TypeOK, Resource
  <1>3. run.pc \in RunPCs => run.fn.concurrency \in Nat
    BY <1>a, PCs, Working, ReconcilerAssumption DEF Run, Resource
  <1>4. cr.concurrency <= cr'.concurrency
    <2>1. ASSUME NEW n \in Asked, Edit(n)
          PROVE  cr'.concurrency = n /\ n > cr.concurrency
      BY <1>a, <2>1 DEF Edit, Change, TypeOK, Resource
    <2>2. cr'.concurrency = cr.concurrency \/ \E n \in Asked : Edit(n)
      BY ResourceChanges
    <2>3. QED
      BY <1>1, <1>2, <2>1, <2>2
  <1>5. cache' \in {cache, cr}
    BY <1>a, CopyChanges
  <1>6. cache.concurrency <= cache'.concurrency /\ cache'.concurrency <= cr'.concurrency
    BY <1>a, <1>1, <1>2, <1>4, <1>5
  <1>7. run'.pc \in RunPCs => run'.fn.concurrency <= cache.concurrency
    BY <1>a, <1>1, CopyChanges
  <1>8. run'.pc \in RunPCs => run'.fn.concurrency <= cache'.concurrency
    <2>1. cache'.concurrency \in Nat
      BY <1>1, <1>5
    <2>2. run'.pc \in RunPCs =>
            run'.fn.concurrency = cache.concurrency \/ run'.fn.concurrency \in Nat
      BY <1>a, <1>3, CopyChanges
    <2>3. QED
      BY <1>1, <1>6, <1>7, <2>1, <2>2
  <1>9. QED
    BY <1>6, <1>8 DEF Raising

(* The pods of a labelled variant are set up for the egress proxy. *)
LEMMA AdmittedToEgress ==
    ASSUME NEW v \in Variants, labelled[v], {"config", "exception", "policy"} \subseteq objects
    PROVE  Admissions(v) = {"egress"}
  BY DEF Admissions

(* Every step keeps Labels: a label is set with the policies in place, the *)
(* chooser is written with the labels in place, and nothing is taken away. *)
LEMMA LabelsKept ==
    ASSUME "mount" \notin Faults, ~Lowering, ServedInv, [Next]_vars
    PROVE  Labels'
  <1>a. TypeOK /\ TypeOK' /\ GoneInv /\ Mounted /\ Dropped /\ Path /\ Raising /\ Labels
    BY TypeKept DEF ServedInv, PathInv, GoneInv
  <1>b. /\ cr'.exists => cr.exists
        /\ cache.concurrency <= cache'.concurrency
        /\ cache' \in {cache, cr}
        /\ run'.pc \in DropPCs => run.pc \in DropPCs \/ (cache' = cache /\ ~(cache.concurrency > 1))
    BY <1>a, ResourceChanges, RaisingKept, CopyChanges
  <1>c. cache.concurrency > 1 => cache'.concurrency > 1
    <2>1. cr.concurrency \in Nat /\ cache.concurrency \in Nat
      BY <1>a, ReconcilerAssumption DEF TypeOK, Resource
    <2>2. QED
      BY <1>b, <2>1
  <1> USE PCs DEF traffic
  <1>1. ASSUME labelled' = labelled
        PROVE  /\ \A v \in Variants : labelled'[v] => cache'.concurrency > 1
               /\ run'.pc \in DropPCs => \A v \in Variants : ~labelled'[v]
    BY <1>a, <1>b, <1>c, <1>1 DEF Labels
  (* Steps that label nothing, roll nothing out and leave the chooser. *)
  <1>2. ASSUME UNCHANGED <<labelled, rollout, pods, chooser>>,
               cr'.exists => objects \subseteq objects'
        PROVE  Labels'
    <2>1. cr'.exists => \A v \in Variants : labelled'[v] =>
              /\ {"config", "exception", "policy"} \subseteq objects'
              /\ rollout'[v] \/ pods'[v] \in {"none", "egress"}
      BY <1>a, <1>b, <1>2 DEF Labels
    <2>2. chooser' # None /\ chooser'.egress => AllLabelled' /\ \A v \in Variants : ~rollout'[v]
      BY <1>a, <1>2 DEF Labels, AllLabelled
    <2>3. QED
      BY <1>1, <1>2, <2>1, <2>2 DEF Labels
  <1>3. ASSUME NEW o, NEW here \in DropPCs, NEW pc, Drop(o, here, pc)
        PROVE  Labels'
    <2>1. UNCHANGED <<labelled, rollout, pods, chooser>> /\ run.pc \in DropPCs
      BY <1>3 DEF Drop
    <2>2. \A v \in Variants : ~labelled'[v]
      BY <1>a, <2>1 DEF Labels
    <2>3. chooser' # None /\ chooser'.egress => AllLabelled' /\ \A v \in Variants : ~rollout'[v]
      BY <1>a, <2>1 DEF Labels, AllLabelled
    <2>4. QED
      BY <2>2, <2>3 DEF Labels
  <1>4. ASSUME NEW v \in Variants, Label(v)
        PROVE  Labels'
    <2>1. /\ run.pc = "label" /\ UNCHANGED <<cr, cache, objects, chooser, pods>>
          /\ run.fn.concurrency > 1
      BY <1>a, <1>4 DEF Label, Path, resource
    <2>2. cache'.concurrency > 1
      <3>1. cache.concurrency \in Nat /\ run.fn.concurrency \in Nat
        BY <1>a, <2>1, Working, ReconcilerAssumption DEF TypeOK, Run, Resource
      <3>2. run.fn.concurrency <= cache.concurrency
        BY <1>a, <2>1 DEF Raising
      <3>3. QED
        BY <2>1, <3>1, <3>2
    <2>3. run'.pc \notin DropPCs
      BY <1>a, <1>4, <2>1, Working DEF Label, Run, DropPCs
    <2>4. cr.exists => {"config", "exception", "policy"} \subseteq objects'
      BY <1>a, <2>1 DEF Mounted
    <2>5. ASSUME NEW w \in Variants, cr'.exists, labelled'[w]
          PROVE  rollout'[w] \/ pods'[w] \in {"none", "egress"}
      <3>1. CASE labelled[w]
        <4>1. rollout[w] \/ pods[w] \in {"none", "egress"}
          BY <1>a, <1>b, <2>5, <3>1 DEF Labels
        <4>2. rollout[w] => rollout'[w]
          BY <1>a, <1>4 DEF Label, TypeOK
        <4>3. QED
          BY <2>1, <4>1, <4>2
      <3>2. CASE ~labelled[w]
        <4>1. w = v
          BY <1>a, <1>4, <2>5, <3>2 DEF Label, TypeOK
        <4>2. rollout'[w]
          BY <1>a, <1>4, <3>2, <4>1 DEF Label, TypeOK
        <4>3. QED
          BY <4>2
      <3>3. QED
        BY <3>1, <3>2
    <2>6. ASSUME chooser' # None, chooser'.egress, NEW w \in Variants
          PROVE  labelled'[w] /\ ~rollout'[w]
      <3>1. \A u \in Variants : labelled[u] /\ ~rollout[u]
        BY <1>a, <2>1, <2>6 DEF Labels, AllLabelled
      <3>2. QED
        BY <1>a, <1>4, <3>1 DEF Label, TypeOK
    <2>7. QED
      BY <1>b, <2>2, <2>3, <2>4, <2>5, <2>6 DEF Labels, AllLabelled
  <1>5. CASE PublishChooser
    <2>1. UNCHANGED <<cr, cache, labelled, rollout, pods, objects>>
          /\ run.pc = "chooser" /\ (\A v \in Variants : ~rollout[v])
      BY <1>5 DEF PublishChooser, resource
    <2>2. cr'.exists => \A v \in Variants : labelled'[v] =>
              /\ {"config", "exception", "policy"} \subseteq objects'
              /\ rollout'[v] \/ pods'[v] \in {"none", "egress"}
      BY <1>a, <2>1 DEF Labels
    <2>3. CASE chooser' = chooser
      BY <1>2, <2>1, <2>3
    <2>4. CASE /\ run.fn.concurrency > 1 => "egress" \in objects
               /\ chooser' = PublishedChooser(run.fn.concurrency)
      <3>1. chooser'.egress => "egress" \in objects
        BY <2>4 DEF PublishedChooser
      <3>2. chooser'.egress => AllLabelled
        BY <1>a, <2>1, <3>1 DEF Dropped, Path, FinalPCs
      <3>3. QED
        BY <1>1, <2>1, <2>2, <3>2 DEF Labels, AllLabelled
    <2>5. QED
      BY <1>5, <2>3, <2>4 DEF PublishChooser
  <1>6. ASSUME NEW v \in Variants, RollOut(v) \/ Scale(v)
        PROVE  Labels'
    <2>1. UNCHANGED <<cr, cache, run, objects, chooser, labelled>>
      BY <1>6 DEF RollOut, Scale, resource
    <2>2. /\ \A w \in Variants \ {v} : rollout'[w] = rollout[w] /\ pods'[w] = pods[w]
          /\ pods'[v] \in Admissions(v) \cup {"none"}
          /\ rollout'[v] => rollout[v]
      <3>1. CASE RollOut(v)
        BY <1>a, <3>1 DEF RollOut, TypeOK
      <3>2. CASE Scale(v)
        BY <1>a, <3>2 DEF Scale, TypeOK
      <3>3. QED
        BY <1>6, <3>1, <3>2
    <2>3. ASSUME NEW w \in Variants, cr'.exists, labelled'[w]
          PROVE  /\ {"config", "exception", "policy"} \subseteq objects'
                 /\ rollout'[w] \/ pods'[w] \in {"none", "egress"}
      <3>1. /\ {"config", "exception", "policy"} \subseteq objects
            /\ rollout[w] \/ pods[w] \in {"none", "egress"}
        BY <1>a, <2>1, <2>3 DEF Labels
      <3>2. w = v => pods'[w] \in {"none", "egress"}
        BY <2>1, <2>2, <2>3, <3>1, AdmittedToEgress
      <3>3. QED
        BY <2>1, <2>2, <3>1, <3>2
    <2>4. chooser' # None /\ chooser'.egress => AllLabelled' /\ \A w \in Variants : ~rollout'[w]
      BY <1>a, <2>1, <2>2 DEF Labels, AllLabelled
    <2>5. QED
      BY <1>1, <2>1, <2>3, <2>4 DEF Labels
  <1>7. ASSUME NEW o, CollectGarbage(o)
        PROVE  Labels'
    <2>1. /\ ~cr'.exists /\ UNCHANGED <<cr, cache, run, labelled, rollout, pods>>
          /\ chooser' \in {chooser, None}
      BY <1>7 DEF CollectGarbage, resource
    <2>2. chooser' # None /\ chooser'.egress => AllLabelled' /\ \A v \in Variants : ~rollout'[v]
      BY <1>a, <2>1 DEF Labels, AllLabelled
    <2>3. QED
      BY <1>1, <2>1, <2>2 DEF Labels
  <1>8. CASE Reconcile
    <2>1. CASE \/ Begin \/ Degrade \/ Refetch \/ Degraded \/ Unfinalize \/ EgressAddress
               \/ FirstStatus \/ Latest \/ AddFinalizer \/ AwaitChooser \/ SetAvailable
      BY <1>2, <2>1 DEF Begin, Degrade, Refetch, Degraded, Unfinalize, EgressAddress, FirstStatus,
                        Latest, AddFinalizer, AwaitChooser, SetAvailable
    <2>2. ASSUME NEW o, NEW pc, CreateEgress \/ Mount(o, pc)
          PROVE  Labels'
      BY <1>2, <2>2 DEF CreateEgress, Mount
    <2>3. CASE \/ Drop("egress", "dropEgress", "dropConfig")
               \/ Drop("config", "dropConfig", "dropException")
               \/ Drop("exception", "dropException", "dropPolicy")
               \/ Drop("policy", "dropPolicy", StatusPC(run.fn))
      BY <1>3, <2>3 DEF DropPCs
    <2>4. QED
      BY <1>4, <1>5, <1>8, <2>1, <2>2, <2>3 DEF Reconcile
  <1>9. CASE \/ CallFails \/ MountFails \/ Restart \/ (\E n \in Asked : Edit(n)) \/ Delete
             \/ Watch \/ (\E o \in {"egress", "chooser"} : BecomeReady(o)) \/ UNCHANGED vars
    BY <1>2, <1>9 DEF CallFails, MountFails, Restart, Edit, Delete, Change, Watch, BecomeReady, vars
  <1>10. QED
    BY <1>6, <1>7, <1>8, <1>9 DEF Next

(* While the chooser serves with several variants no pod of theirs goes    *)
(* past the egress proxy: policies, labels, chooser (lines 186-199, 521).  *)
THEOREM ServedThroughEgress ==
    ASSUME "mount" \notin Faults, ~Lowering
    PROVE  Spec => []ServedIntercepted
  <1>1. Init => ServedInv
    <2>1. SUFFICES ASSUME Init PROVE ServedInv
      OBVIOUS
    <2>2. PathInv /\ TypeOK /\ run = Resting /\ chooser = None
      BY <2>1, PathInitially DEF Init, PathInv, GoneInv
    <2>3. cache.concurrency = cr.concurrency /\ cr.concurrency \in Nat
      BY <2>1, <2>2, ReconcilerAssumption DEF Init, TypeOK, Resource
    <2>4. \A v \in Variants : ~labelled[v]
      BY <2>1 DEF Init
    <2>5. QED
      BY <2>2, <2>3, <2>4, RestingIs, PCs DEF ServedInv, Raising, Labels
  <1>2. ServedInv /\ [Next]_vars => ServedInv'
    BY PathKept, RaisingKept, LabelsKept DEF ServedInv, PathInv
  <1>3. ServedInv => ServedIntercepted
    BY DEF ServedInv, Labels, AllLabelled, ServedIntercepted
  <1>4. QED
    BY <1>1, <1>2, <1>3, PTL DEF Spec
=============================================================================
