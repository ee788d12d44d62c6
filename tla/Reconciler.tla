----------------------------- MODULE Reconciler -----------------------------
(***************************************************************************)
(* The reconciler of MoFaaSFunction resources                              *)
(* (src/mofaas-contoller/internal/controller/mofaasfunction_controller.go) *)
(* and the cluster it acts on, for one resource.                           *)
(*                                                                         *)
(* Reconcile is a sequence of calls to the API server; each call is one    *)
(* action, and users, Knative and the garbage collector act in between.    *)
(* The resource is read from a cache that lags behind, and written under   *)
(* optimistic concurrency: a write on a copy that is not the latest        *)
(* version fails.  Runs for one resource do not overlap.  The contents of  *)
(* services and policies are reduced to what the variants' traffic and the *)
(* chooser depend on.                                                      *)
(***************************************************************************)
EXTENDS Naturals, FiniteSets

CONSTANTS
    Variants,  \* spec.variants, which users do not change here
    Asked,     \* the concurrencies users ask for, the rest of spec
    Lowering,  \* may an edit lower the concurrency?
    Faults,    \* what may go wrong: "api", a call whose error is returned;
               \* "mount", a call whose error is dropped; "crash"
    MaxEdits,  \* bound on edits
    MaxFaults, \* bound on faults
    None

ASSUME ReconcilerAssumption ==
    /\ Variants # {} /\ IsFiniteSet(Variants)
    /\ Asked # {} /\ Asked \subseteq Nat \ {0}
    /\ None \notin [concurrency : Asked, egress : BOOLEAN]
    /\ Lowering \in BOOLEAN /\ Faults \subseteq {"api", "mount", "crash"}
    /\ MaxEdits \in Nat /\ MaxFaults \in Nat

VARIABLES
    cr,       \* the resource in the API server
    cache,    \* the reconciler's copy of it
    synced,   \* is the cache at the latest version?
    queued,   \* is the resource in the work queue?
    run,      \* the run of Reconcile
    objects,  \* what the reconciler created besides the chooser
    chooser,  \* the chooser's Knative service
    ready,    \* Knative services that are ready and have an address
    labelled, \* does the template of a variant carry the function's label?
    rollout,  \* variants whose latest template is not running yet
    pods,     \* where the pods of a variant send their calls
    edits, faults

resource == <<cr, cache, synced>>
traffic  == <<labelled, rollout, pods>>
counters == <<edits, faults>>
vars     == <<resource, queued, run, objects, chooser, ready, traffic, counters>>

Conditions == {"none", "unknown", "true"}
Resource   == [exists : BOOLEAN, deleting : BOOLEAN, finalizer : BOOLEAN, concurrency : Asked,
               available : Conditions, degraded : Conditions]
Objects    == {"egress", "config", "exception", "policy"}

MountPCs  == {"address", "config", "exception", "policy"}
DeletePCs == {"degrade", "refetch", "degraded", "unfinalize"}
RunPCs    == {"egress", "label", "dropEgress", "dropConfig", "dropException", "dropPolicy",
              "status", "latest", "finalizer", "chooser", "await", "available"}
                 \cup MountPCs \cup DeletePCs

(* fn: the copy mofaasFunc.  fresh: is it the latest version?  again: is   *)
(* this the second createAndMountConfigMap?  todo: variants to label.      *)
Resting == [pc |-> "idle", fn |-> None, fresh |-> FALSE, again |-> FALSE, todo |-> {}]
Run     == [pc : RunPCs, fn : Resource, fresh : BOOLEAN, again : BOOLEAN, todo : SUBSET Variants]

(* direct: past the egress proxy; egress: to it; blocked: an Envoy that    *)
(* has no configuration.                                                   *)
Traffic == {"none", "direct", "egress", "blocked"}

TypeOK ==
    /\ cr \in Resource /\ cache \in Resource
    /\ synced \in BOOLEAN /\ queued \in BOOLEAN
    /\ run \in Run \cup {Resting}
    /\ objects \subseteq Objects
    /\ chooser \in [concurrency : Asked, egress : BOOLEAN] \cup {None}
    /\ ready \subseteq {"egress", "chooser"}
    /\ labelled \in [Variants -> BOOLEAN] /\ rollout \in [Variants -> BOOLEAN]
    /\ pods \in [Variants -> Traffic]
    /\ edits \in 0 .. MaxEdits /\ faults \in 0 .. MaxFaults

Init ==
    /\ cr \in {[exists |-> TRUE, deleting |-> FALSE, finalizer |-> FALSE, concurrency |-> n,
                available |-> "none", degraded |-> "none"] : n \in Asked}
    /\ cache = [cr EXCEPT !.exists = FALSE]
    /\ synced = FALSE /\ queued = FALSE
    /\ run = Resting
    /\ objects = {} /\ chooser = None /\ ready = {}
    /\ labelled = [v \in Variants |-> FALSE]
    /\ rollout = [v \in Variants |-> FALSE]
    /\ pods \in [Variants -> {"none", "direct"}]
    /\ edits = 0 /\ faults = 0

-----------------------------------------------------------------------------
(* Helpers.                                                                *)

(* Mutant of Fail: the error is only logged. *)
Shrug == run' = Resting /\ UNCHANGED queued

(* Reconcile returns an error, or asks for a requeue. *)
Fail == run' = Resting /\ queued' = TRUE

Return == run' = Resting /\ UNCHANGED queued

Goto(pc) == run' = [run EXCEPT !.pc = pc] /\ UNCHANGED queued

(* Update and Status().Update of mofaasFunc: a conflict unless the copy is *)
(* the latest version; without a change there is no new version.           *)
Write(new, pc) ==
    IF run.fresh
    THEN /\ cr' = new
         /\ synced' = (synced /\ new = cr)
         /\ run' = [run EXCEPT !.pc = pc, !.fn = new]
         /\ UNCHANGED <<cache, queued>>
    ELSE Fail /\ UNCHANGED resource

(* r.Get of mofaasFunc. *)
Reread(pc) ==
    IF cache.exists
    THEN run' = [run EXCEPT !.pc = pc, !.fn = cache, !.fresh = synced] /\ UNCHANGED queued
    ELSE Fail

(* Where Reconcile goes on when the egress part is done. *)
StatusPC(fn) == IF fn.available = "none" /\ fn.degraded = "none" THEN "status" ELSE "latest"

(* Where it goes on after createAndMountConfigMap, failed or not. *)
AfterMount ==
    IF run.again
    THEN Goto(StatusPC(run.fn))
    ELSE run' = [run EXCEPT !.pc = "label", !.todo = Variants] /\ UNCHANGED queued

-----------------------------------------------------------------------------
(* Reconcile.                                                              *)

(* The deletion branch, the egress part, or its removal. *)
FirstPC(fn) ==
    IF fn.deleting THEN "degrade"
    ELSE IF fn.concurrency > 1 THEN "egress"
    ELSE "dropEgress"

Begin ==
    /\ run = Resting /\ queued
    /\ queued' = FALSE
    /\ run' = IF cache.exists /\ (cache.deleting => cache.finalizer)
              THEN [pc |-> FirstPC(cache), fn |-> cache, fresh |-> synced,
                    again |-> FALSE, todo |-> {}]
              ELSE Resting
    /\ UNCHANGED <<resource, objects, chooser, ready, traffic, counters>>

(* Deletion: Degraded unknown, Degraded true, finalizer removed. *)
Degrade ==
    /\ run.pc = "degrade"
    /\ Write([run.fn EXCEPT !.degraded = "unknown"], "refetch")
    /\ UNCHANGED <<objects, chooser, ready, traffic, counters>>

Refetch ==
    /\ run.pc = "refetch"
    /\ Reread("degraded")
    /\ UNCHANGED <<resource, objects, chooser, ready, traffic, counters>>

(* Mutant of Degraded: the condition is set to a third value. *)
DegradedFalse ==
    /\ run.pc = "degraded"
    /\ Write([run.fn EXCEPT !.degraded = "false"], "unfinalize")
    /\ UNCHANGED <<objects, chooser, ready, traffic, counters>>

Degraded ==
    /\ run.pc = "degraded"
    /\ Write([run.fn EXCEPT !.degraded = "true"], "unfinalize")
    /\ UNCHANGED <<objects, chooser, ready, traffic, counters>>

Unfinalize ==
    /\ run.pc = "unfinalize"
    /\ IF run.fresh /\ run.fn.finalizer
       THEN /\ cr' = [run.fn EXCEPT !.finalizer = FALSE, !.exists = FALSE]
            /\ synced' = FALSE
            /\ Return /\ UNCHANGED cache
       ELSE Fail /\ UNCHANGED resource
    /\ UNCHANGED <<objects, chooser, ready, traffic, counters>>

(* Mutant of CreateEgress: the policies follow the labels. *)
CreateEgressThenLabel ==
    /\ run.pc = "egress"
    /\ objects' = objects \cup {"egress"}
    /\ run' = [run EXCEPT !.pc = "label", !.todo = Variants]
    /\ UNCHANGED <<resource, queued, chooser, ready, traffic, counters>>

CreateEgress ==
    /\ run.pc = "egress"
    /\ objects' = objects \cup {"egress"}
    /\ Goto("address")
    /\ UNCHANGED <<resource, chooser, ready, traffic, counters>>

(* createAndMountConfigMap waits for the address of the egress proxy; one  *)
(* that does not exist is an error at once, which Reconcile drops.         *)
EgressAddress ==
    /\ run.pc = "address"
    /\ \/ "egress" \in ready /\ Goto("config")
       \/ "egress" \notin objects /\ AfterMount
    /\ UNCHANGED <<resource, objects, chooser, ready, traffic, counters>>

(* The ConfigMap, the PolicyException and the Policy are created unless    *)
(* they exist.  The loop over the variants only repeats this.  For the     *)
(* last two the code first asks the manager's cache and creates nothing if *)
(* they are found there, which they may be for a while after Drop; that    *)
(* cache is not modelled, and what does not exist is always created here.  *)
Mount(o, pc) ==
    /\ run.pc = o
    /\ objects' = objects \cup {o}
    /\ IF o = "policy" THEN AfterMount ELSE Goto(pc)
    /\ UNCHANGED <<resource, chooser, ready, traffic, counters>>

(* updatePodLabels of the next variant; a changed template is rolled out.  *)
Label(v) ==
    /\ run.pc = "label" /\ v \in run.todo
    /\ labelled' = [labelled EXCEPT ![v] = TRUE]
    /\ rollout' = [rollout EXCEPT ![v] = @ \/ ~labelled[v]]
    /\ run' = IF run.todo = {v}
              THEN [run EXCEPT !.pc = "address", !.again = TRUE, !.todo = {}]
              ELSE [run EXCEPT !.todo = @ \ {v}]
    /\ UNCHANGED <<resource, queued, objects, chooser, ready, pods, counters>>

(* Concurrency 1: what an egress proxy needs is deleted, one by one.       *)
Drop(o, here, pc) ==
    /\ run.pc = here
    /\ objects' = objects \ {o}
    /\ ready' = ready \ {o}
    /\ Goto(pc)
    /\ UNCHANGED <<resource, chooser, traffic, counters>>

FirstStatus ==
    /\ run.pc = "status"
    /\ Write([run.fn EXCEPT !.available = "unknown"], "latest")
    /\ UNCHANGED <<objects, chooser, ready, traffic, counters>>

Latest ==
    /\ run.pc = "latest"
    /\ Reread(IF cache.finalizer THEN "chooser" ELSE "finalizer")
    /\ UNCHANGED <<resource, objects, chooser, ready, traffic, counters>>

(* Mutant of AddFinalizer: a resource that is not found is no error. *)
AddFinalizerUnchecked ==
    /\ run.pc = "finalizer"
    /\ Goto("chooser")
    /\ UNCHANGED <<resource, objects, chooser, ready, traffic, counters>>

(* Repeated on conflicts with the latest version the cache has, up to a    *)
(* limit; mofaasFunc itself stays as it was read.                          *)
AddFinalizer ==
    /\ run.pc = "finalizer"
    /\ \/ /\ cache.exists /\ cache.finalizer
          /\ Goto("chooser") /\ UNCHANGED resource
       \/ /\ synced /\ cache.exists /\ ~cache.finalizer
          /\ cr' = [cr EXCEPT !.finalizer = TRUE] /\ synced' = FALSE /\ UNCHANGED cache
          /\ run' = [run EXCEPT !.pc = "chooser", !.fresh = FALSE]
          /\ UNCHANGED queued
       \/ /\ ~synced \/ ~cache.exists
          /\ Fail /\ UNCHANGED resource
    /\ UNCHANGED <<objects, chooser, ready, traffic, counters>>

(* Mutant of PublishedChooser: an update keeps the environment. *)
KeptChooser(n) ==
    IF chooser = None THEN [concurrency |-> n, egress |-> n > 1] ELSE chooser

(* The environment of the chooser; CreateOrUpdate replaces the Spec of one *)
(* that exists.                                                            *)
PublishedChooser(n) == [concurrency |-> n, egress |-> n > 1]

(* The chooser is written once all variants, and the egress proxy if there *)
(* is to be one, are ready; an egress proxy that does not exist is an      *)
(* error at once.                                                          *)
PublishChooser ==
    LET proxied == run.fn.concurrency > 1
    IN  /\ run.pc = "chooser"
        /\ \A v \in Variants : ~rollout[v]
        /\ IF proxied /\ "egress" \notin objects
           THEN Fail /\ UNCHANGED chooser
           ELSE /\ proxied => "egress" \in ready
                /\ chooser' = PublishedChooser(run.fn.concurrency)
                /\ Goto("await")
        /\ UNCHANGED <<resource, objects, ready, traffic, counters>>

(* updateStatusOnCreateOrUpdate.  CreateOrUpdate always reports a change,  *)
(* since the Spec it writes lacks the fields Knative fills in.             *)
AwaitChooser ==
    /\ run.pc = "await"
    /\ "chooser" \in ready
    /\ Goto("available")
    /\ UNCHANGED <<resource, objects, chooser, ready, traffic, counters>>

SetAvailable ==
    /\ run.pc = "available"
    /\ \/ /\ cache.exists /\ cache.available = "true"
          /\ Return /\ UNCHANGED resource
       \/ /\ synced /\ cache.exists /\ cache.available # "true"
          /\ cr' = [cr EXCEPT !.available = "true"] /\ synced' = FALSE /\ UNCHANGED cache
          /\ Return
       \/ /\ ~synced \/ ~cache.exists
          /\ Fail /\ UNCHANGED resource
    /\ UNCHANGED <<objects, chooser, ready, traffic, counters>>

Reconcile ==
    \/ Begin
    \/ Degrade \/ Refetch \/ Degraded \/ Unfinalize
    \/ CreateEgress \/ EgressAddress
    \/ Mount("config", "exception") \/ Mount("exception", "policy") \/ Mount("policy", "label")
    \/ \E v \in Variants : Label(v)
    \/ Drop("egress", "dropEgress", "dropConfig")
    \/ Drop("config", "dropConfig", "dropException")
    \/ Drop("exception", "dropException", "dropPolicy")
    \/ Drop("policy", "dropPolicy", StatusPC(run.fn))
    \/ FirstStatus \/ Latest \/ AddFinalizer
    \/ PublishChooser \/ AwaitChooser \/ SetAvailable

-----------------------------------------------------------------------------
(* Faults.                                                                 *)

(* A call returns an error, or a wait for a service times out. *)
CallFails ==
    /\ "api" \in Faults /\ faults < MaxFaults
    /\ run.pc \in RunPCs \ MountPCs
    /\ Fail
    /\ faults' = faults + 1
    /\ UNCHANGED <<resource, objects, chooser, ready, traffic, edits>>

(* Within createAndMountConfigMap: Reconcile drops the error and goes on.  *)
MountFails ==
    /\ "mount" \in Faults /\ faults < MaxFaults
    /\ run.pc \in MountPCs
    /\ AfterMount
    /\ faults' = faults + 1
    /\ UNCHANGED <<resource, objects, chooser, ready, traffic, edits>>

(* The controller is restarted and lists the resources anew. *)
Restart ==
    /\ "crash" \in Faults /\ faults < MaxFaults
    /\ Fail
    /\ cache' = cr /\ synced' = TRUE
    /\ faults' = faults + 1
    /\ UNCHANGED <<cr, objects, chooser, ready, traffic, edits>>

-----------------------------------------------------------------------------
(* Users, the API server, Knative with the admission policies, garbage     *)
(* collection.                                                             *)

Change(new) ==
    /\ cr' = new /\ synced' = FALSE
    /\ run' = [run EXCEPT !.fresh = FALSE]
    /\ UNCHANGED <<cache, queued, objects, chooser, ready, traffic, faults>>

Edit(n) ==
    /\ cr.exists /\ n # cr.concurrency /\ edits < MaxEdits
    /\ Lowering \/ n > cr.concurrency
    /\ edits' = edits + 1
    /\ Change([cr EXCEPT !.concurrency = n])

Delete ==
    /\ cr.exists /\ ~cr.deleting /\ edits < MaxEdits
    /\ edits' = edits + 1
    /\ Change(IF cr.finalizer THEN [cr EXCEPT !.deleting = TRUE] ELSE [cr EXCEPT !.exists = FALSE])

(* The cache catches up; the event puts the resource in the queue.         *)
Watch ==
    /\ ~synced
    /\ cache' = cr /\ synced' = TRUE /\ queued' = TRUE
    /\ UNCHANGED <<cr, run, objects, chooser, ready, traffic, counters>>

BecomeReady(o) ==
    /\ o \notin ready
    /\ IF o = "chooser" THEN chooser # None ELSE o \in objects
    /\ ready' = ready \cup {o}
    /\ UNCHANGED <<resource, queued, run, objects, chooser, traffic, counters>>

(* How a new pod of v is admitted: a labelled pod matches the exception    *)
(* from the default configuration and the policy with the function's own.  *)
(* With the policy alone both mount /etc/envoy.                            *)
Admissions(v) ==
    LET excepted == labelled[v] /\ "exception" \in objects
        patched  == labelled[v] /\ "policy" \in objects
        own      == IF "config" \in objects THEN "egress" ELSE "blocked"
    IN  CASE patched /\ excepted  -> {own}
          [] patched /\ ~excepted -> {own, "direct"}
          [] ~patched /\ excepted -> {"blocked"}
          [] OTHER                -> {"direct"}

RollOut(v) ==
    /\ rollout[v]
    /\ rollout' = [rollout EXCEPT ![v] = FALSE]
    /\ \E t \in Admissions(v) : pods' = [pods EXCEPT ![v] = t]
    /\ UNCHANGED <<resource, queued, run, objects, chooser, ready, labelled, counters>>

Scale(v) ==
    /\ \E t \in IF pods[v] = "none" THEN Admissions(v) ELSE {"none"} :
          pods' = [pods EXCEPT ![v] = t]
    /\ UNCHANGED <<resource, queued, run, objects, chooser, ready, labelled, rollout, counters>>

(* Everything the reconciler creates is owned by the resource.             *)
CollectGarbage(o) ==
    /\ ~cr.exists
    /\ IF o = "chooser" THEN chooser # None ELSE o \in objects
    /\ objects' = objects \ {o} /\ ready' = ready \ {o}
    /\ chooser' = IF o = "chooser" THEN None ELSE chooser
    /\ UNCHANGED <<resource, queued, run, traffic, counters>>

Next ==
    \/ Reconcile
    \/ CallFails \/ MountFails \/ Restart
    \/ \E n \in Asked : Edit(n)
    \/ Delete
    \/ Watch
    \/ \E o \in {"egress", "chooser"} : BecomeReady(o)
    \/ \E v \in Variants : RollOut(v) \/ Scale(v)
    \/ \E o \in Objects \cup {"chooser"} : CollectGarbage(o)

Spec == Init /\ [][Next]_vars

(* The controller's worker runs, watches deliver, Knative gets services    *)
(* ready and rolls templates out.  Nothing obliges users or scaling.       *)
Fairness ==
    /\ WF_vars(Reconcile) /\ WF_vars(Watch)
    /\ \A o \in {"egress", "chooser"} : WF_vars(BecomeReady(o))
    /\ \A v \in Variants : WF_vars(RollOut(v))

FairSpec == Spec /\ Fairness

-----------------------------------------------------------------------------
(* Properties.                                                             *)

(* Is the cluster what the spec of the resource asks for? *)
Matches ==
    LET proxied == cr.concurrency > 1
    IN  /\ chooser # None
        /\ chooser.concurrency = cr.concurrency /\ chooser.egress = proxied
        /\ IF proxied THEN objects = Objects /\ \A v \in Variants : labelled[v]
                      ELSE objects = {}

(* The reconciler has nothing to do and nothing is on its way to it. *)
Quiet == run = Resting /\ ~queued /\ synced /\ cr.exists /\ ~cr.deleting

(* When the reconciler comes to rest, the cluster is what the latest spec  *)
(* asks for, whatever edits, stale reads, failed calls and restarts came   *)
(* before ("move the current state of the cluster closer to the desired    *)
(* state", mofaasfunction_controller.go:81), and the status says so.       *)
QuietMatches == Quiet => Matches /\ cr.finalizer /\ cr.available = "true"

(* When the reconciler comes to rest, no pod sends its calls to an egress  *)
(* proxy that is not there, or is cut off ("make the cluster state reflect *)
(* the state specified by the user", mofaasfunction_controller.go:84).     *)
QuietReachable ==
    Quiet => \A v \in Variants :
                /\ pods[v] # "blocked"
                /\ pods[v] = "egress" => "egress" \in objects

(* While the chooser serves with several variants, no pod of a variant     *)
(* goes past the egress proxy or is cut off: policies come before labels,  *)
(* labels before the chooser (mofaasfunction_controller.go:186-199, 521).  *)
ServedIntercepted ==
    (cr.exists /\ chooser # None /\ chooser.egress)
        => \A v \in Variants : pods[v] \in {"none", "egress"}

(* No chooser is created for a resource that is gone, although Reconcile   *)
(* works on a stale copy: the finalizer comes first (lines 276-306).       *)
NoChooserForTheGone ==
    [][~cr.exists /\ chooser = None => chooser' = None]_vars

(* If users leave the resource alone, the cluster comes to match and stays *)
(* so: each failure is retried and each edit seen (Reconcile).             *)
Converges ==
    \A n \in Asked :
        <>[](cr.exists /\ ~cr.deleting /\ cr.concurrency = n) => <>[](Matches /\ cr.available = "true")

(* A deletion goes through, wherever it is interrupted (lines 108-153).    *)
DeletionCompletes == cr.deleting ~> ~cr.exists
=============================================================================
