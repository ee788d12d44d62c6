---------------------------- MODULE HotRestarter ----------------------------
(***************************************************************************)
(* The Envoy sidecar of a variant: the watcher of the configuration        *)
(* (src/modified-envoy/watch_envoy.sh), the hot restarter it signals       *)
(* (src/modified-envoy/hot-restarter.py) and the Envoys it starts.         *)
(*                                                                         *)
(* Python runs a signal handler in the main thread, after a call returns   *)
(* or as one is entered, so also inside a handler that is running: the     *)
(* executions of fork_and_exec form a stack.  One action is what           *)
(* fork_and_exec does between two such points.                             *)
(***************************************************************************)
EXTENDS Naturals, Sequences, SequencesExt

CONSTANT MaxChanges \* bound on changes of the configuration

ASSUME HotRestarterAssumption == MaxChanges \in Nat

VARIABLES
    apart,         \* do changes come far apart?  Never changes
    version,       \* of /etc/envoy/envoy.yaml
    watcher,       \* where watch_envoy.sh is
    event,         \* did inotifywait see an event?
    restarter,     \* the Python process
    hup,           \* is a SIGHUP to be handled?
    stack,         \* executions of fork_and_exec, the innermost last
    restart_epoch, environ,
    envoys,        \* the children in the order of their forks
    pid_list

python == <<restarter, hup, stack, restart_epoch, environ, pid_list>>
config == <<apart, version>>
vars   == <<config, watcher, event, python, envoys>>

WatcherPCs   == {"arming", "waiting", "signalling"}
RestarterPCs == {"starting", "defenceless", "running", "dead"}

(* An execution of fork_and_exec: the next step, the epoch it has read, the *)
(* child it has forked (0 before).                                         *)
Frame == [pc : {"read", "export", "fork", "record"}, epoch : Nat, child : Nat]

Entry == [pc |-> "read", epoch |-> 0, child |-> 0]

Envoy == [epoch : Nat, config : Nat, state : {"forked", "initialising", "serving", "draining", "gone"}]

TypeOK ==
    /\ apart \in BOOLEAN /\ version \in 0 .. MaxChanges
    /\ watcher \in WatcherPCs /\ event \in BOOLEAN
    /\ restarter \in RestarterPCs /\ hup \in BOOLEAN
    /\ stack \in Seq(Frame)
    /\ restart_epoch \in Nat /\ environ \in Nat
    /\ envoys \in Seq(Envoy) /\ pid_list \in Seq(1 .. Len(envoys))

(* entrypoint.sh has just started the watcher and Python. *)
Started ==
    /\ watcher = "arming" /\ event = FALSE
    /\ restarter = "starting" /\ hup = FALSE /\ stack = <<>>
    /\ restart_epoch = 0 /\ environ = 0
    /\ envoys = <<>> /\ pid_list = <<>>

Init == apart \in BOOLEAN /\ version = 0 /\ Started

-----------------------------------------------------------------------------
(* hot-restarter.py.                                                       *)

top == Last(stack)

Proceed(frame) == stack' = Append(Front(stack), frame)

Boot ==
    /\ restarter = "starting"
    /\ restarter' = "defenceless"
    /\ UNCHANGED <<config, watcher, event, hup, stack, restart_epoch, environ, envoys, pid_list>>

(* main installs the handler and calls fork_and_exec. *)
Main ==
    /\ restarter = "defenceless"
    /\ restarter' = "running" /\ stack' = <<Entry>>
    /\ UNCHANGED <<config, watcher, event, hup, restart_epoch, environ, envoys, pid_list>>

HandleSighup ==
    /\ restarter = "running" /\ hup
    /\ hup' = FALSE
    /\ stack' = Append(stack, Entry)
    /\ UNCHANGED <<config, watcher, event, restarter, restart_epoch, environ, envoys, pid_list>>

(* str(restart_epoch) has returned. *)
ReadEpoch ==
    /\ stack # <<>> /\ top.pc = "read"
    /\ Proceed([top EXCEPT !.pc = "export", !.epoch = restart_epoch])
    /\ UNCHANGED <<config, watcher, event, restarter, hup, restart_epoch, environ, envoys, pid_list>>

(* Mutant of Export: epochs begin with 1. *)
ExportNext ==
    /\ stack # <<>> /\ top.pc = "export"
    /\ environ' = top.epoch + 1
    /\ Proceed([top EXCEPT !.pc = "fork"])
    /\ UNCHANGED <<config, watcher, event, restarter, hup, restart_epoch, envoys, pid_list>>

Export ==
    /\ stack # <<>> /\ top.pc = "export"
    /\ environ' = top.epoch
    /\ Proceed([top EXCEPT !.pc = "fork"])
    /\ UNCHANGED <<config, watcher, event, restarter, hup, restart_epoch, envoys, pid_list>>

(* Mutant of ForkAndExec: the epoch is counted in the child. *)
CountInChild ==
    /\ stack # <<>> /\ top.pc = "fork"
    /\ envoys' = Append(envoys, [epoch |-> environ, config |-> 0, state |-> "forked"])
    /\ Proceed([top EXCEPT !.pc = "record", !.child = Len(envoys) + 1])
    /\ UNCHANGED <<config, watcher, event, restarter, hup, restart_epoch, environ, pid_list>>

(* The epoch is counted after the log call and forked without another.     *)
ForkAndExec ==
    /\ stack # <<>> /\ top.pc = "fork"
    /\ restart_epoch' = restart_epoch + 1
    /\ envoys' = Append(envoys, [epoch |-> environ, config |-> 0, state |-> "forked"])
    /\ Proceed([top EXCEPT !.pc = "record", !.child = Len(envoys) + 1])
    /\ UNCHANGED <<config, watcher, event, restarter, hup, environ, pid_list>>

(* Mutant of Record: the child that is found last is recorded. *)
RecordLast ==
    /\ stack # <<>> /\ top.pc = "record"
    /\ pid_list' = Append(pid_list, Len(envoys))
    /\ stack' = Front(stack)
    /\ UNCHANGED <<config, watcher, event, restarter, hup, restart_epoch, environ, envoys>>

(* Mutant of Record: the branches of the fork are swapped. *)
RecordZero ==
    /\ stack # <<>> /\ top.pc = "record"
    /\ pid_list' = Append(pid_list, 0)
    /\ stack' = Front(stack)
    /\ UNCHANGED <<config, watcher, event, restarter, hup, restart_epoch, environ, envoys>>

(* The child is recorded, the handler returns. *)
Record ==
    /\ stack # <<>> /\ top.pc = "record"
    /\ pid_list' = Append(pid_list, top.child)
    /\ stack' = Front(stack)
    /\ UNCHANGED <<config, watcher, event, restarter, hup, restart_epoch, environ, envoys>>

-----------------------------------------------------------------------------
(* watch_envoy.sh.                                                         *)

Arm ==
    /\ watcher = "arming"
    /\ watcher' = "waiting" /\ event' = FALSE
    /\ UNCHANGED <<config, python, envoys>>

(* inotifywait returns. *)
Noticed ==
    /\ watcher = "waiting" /\ event
    /\ watcher' = "signalling" /\ event' = FALSE
    /\ UNCHANGED <<config, python, envoys>>

(* kill -HUP of the first python3: nobody if there is none, the end of one *)
(* without a handler.  Signals that are not handled yet merge.             *)
Signal ==
    /\ watcher = "signalling"
    /\ watcher' = "arming"
    /\ hup' = (restarter = "running" \/ hup)
    /\ restarter' = IF restarter = "defenceless" THEN "dead" ELSE restarter
    /\ UNCHANGED <<config, event, stack, restart_epoch, environ, envoys, pid_list>>

-----------------------------------------------------------------------------
(* Kubernetes and Envoy.                                                   *)

InState(s) == {i \in DOMAIN envoys : envoys[i].state = s}

(* Do the Envoys use the latest version?  Which one serves is the last. *)
Current == \E i \in InState("serving") : envoys[i].config = version

Change ==
    /\ version < MaxChanges
    /\ apart => Current /\ watcher = "waiting" /\ ~event
    /\ version' = version + 1
    /\ event' = (event \/ watcher = "waiting")
    /\ UNCHANGED <<apart, watcher, python, envoys>>

(* The container ends with Python, which has no child yet, and is started  *)
(* anew.                                                                   *)
RestartContainer ==
    /\ restarter = "dead"
    /\ watcher' = "arming" /\ event' = FALSE
    /\ restarter' = "starting" /\ hup' = FALSE
    /\ UNCHANGED <<config, stack, restart_epoch, environ, envoys, pid_list>>

(* start_envoy.sh: an Envoy attaches to the one of the epoch before and    *)
(* reads the configuration.  It exits if there is none, if one of its own  *)
(* epoch has the socket, or if another is still initialising.  One that    *)
(* drains lives for a quarter of an hour, longer than a fork takes.        *)
Attach(i) ==
    LET e     == envoys[i].epoch
        alive == {envoys[j].epoch : j \in DOMAIN envoys \ (InState("forked") \cup InState("gone"))}
        free  == e \notin alive /\ InState("initialising") = {} /\ (e > 0 => e - 1 \in alive)
    IN  /\ envoys[i].state = "forked"
        /\ envoys' = [envoys EXCEPT ![i].state = IF free THEN "initialising" ELSE "gone",
                                    ![i].config = version]
        /\ UNCHANGED <<config, watcher, event, python>>

(* It takes over; the one before drains. *)
Serve(i) ==
    /\ envoys[i].state = "initialising"
    /\ envoys' = [j \in DOMAIN envoys |->
                    IF j = i THEN [envoys[j] EXCEPT !.state = "serving"]
                    ELSE IF envoys[j].state = "serving" THEN [envoys[j] EXCEPT !.state = "draining"]
                    ELSE envoys[j]]
    /\ UNCHANGED <<config, watcher, event, python>>

ForkSteps    == ReadEpoch \/ Export \/ ForkAndExec \/ Record
WatcherSteps == Arm \/ Noticed \/ Signal

Next ==
    \/ Boot \/ Main \/ HandleSighup \/ ForkSteps
    \/ WatcherSteps
    \/ Change \/ RestartContainer
    \/ \E i \in DOMAIN envoys : Attach(i) \/ Serve(i)

Spec == Init /\ [][Next]_vars

(* Processes run, and signals are handled.  Nothing obliges changes. *)
Fairness ==
    /\ WF_vars(Boot \/ Main \/ HandleSighup \/ ForkSteps)
    /\ WF_vars(WatcherSteps)
    /\ WF_vars(RestartContainer)
    /\ WF_vars(\E i \in DOMAIN envoys : Attach(i) \/ Serve(i))

FairSpec == Spec /\ Fairness

-----------------------------------------------------------------------------
(* Properties.                                                             *)

(* If changes come far apart, each child finds the next epoch in its       *)
(* environment ("Before we fork, set the current restart epoch in an env   *)
(* variable", hot-restarter.py:104-105), which is what Envoy needs to take *)
(* over from the last one.                                                 *)
EpochsConsecutive == apart => \A i \in DOMAIN envoys : envoys[i].epoch = i - 1

(* When no fork_and_exec is under way, each child is in pid_list once      *)
(* ("keeps track of its PID", hot-restarter.py:104), in whichever order    *)
(* handlers were nested.                                                   *)
ChildrenTracked ==
    stack = <<>> => ToSet(pid_list) = DOMAIN envoys /\ IsInjective(pid_list)

(* If changes come far apart, each ends up in the Envoy that serves        *)
(* ("Config changed, reloading Envoy...", watch_envoy.sh:4).               *)
ChangesLoaded == apart => <>[]Current

(* However changes and signals fall, an Envoy comes to serve and one       *)
(* serves from then on: a restart that fails leaves the last one at work,  *)
(* and a restarter that is killed is started again (lines 130-144).        *)
EnvoyServes == <>[](InState("serving") # {})
=============================================================================
