------------------------- MODULE HotRestarterProofs -------------------------
(***************************************************************************)
(* The types of HotRestarter; that no child is lost from pid_list, however *)
(* many signals are handled inside one another; and that each Envoy gets   *)
(* the next epoch, if changes come far apart.                              *)
(***************************************************************************)
EXTENDS HotRestarter, SequenceTheorems, TLAPS

(* The executions of fork_and_exec that have forked and not recorded yet. *)
Recording == {n \in DOMAIN stack : stack[n].pc = "record"}

(* Only a running restarter executes fork_and_exec. *)
IdleUnlessRunning == restarter # "running" => stack = <<>>

(* What an execution is about to record is a child nobody has recorded, *)
(* and nobody else is about to.                                          *)
RecordsNew ==
    /\ \A n \in Recording : /\ stack[n].child \in DOMAIN envoys
                            /\ \A k \in DOMAIN pid_list : pid_list[k] # stack[n].child
    /\ \A m, n \in Recording : stack[m].child = stack[n].child => m = n

(* A child that is not in pid_list is about to be. *)
NoneForgotten ==
    \A i \in DOMAIN envoys : \/ \E k \in DOMAIN pid_list : pid_list[k] = i
                             \/ \E n \in Recording : stack[n].child = i

RecordedOnce == \A j, k \in DOMAIN pid_list : pid_list[j] = pid_list[k] => j = k

IInv == TypeOK /\ IdleUnlessRunning /\ RecordsNew /\ NoneForgotten /\ RecordedOnce

-----------------------------------------------------------------------------
(* Sequences.                                                              *)

(* A function on 1 .. n is a sequence of length n. *)
LEMMA FunctionIsSeq ==
    ASSUME NEW S, NEW n \in Nat, NEW f \in [1 .. n -> S]
    PROVE  f \in Seq(S) /\ Len(f) = n /\ DOMAIN f = 1 .. n
  <1>1. f \in Seq(S)
    BY SeqDef
  <1>2. QED
    BY <1>1, LenProperties

(* Front drops the last element. *)
LEMMA FrontIs ==
    ASSUME NEW S, NEW s \in Seq(S), s # <<>>
    PROVE  /\ Front(s) \in Seq(S) /\ Len(s) \in Nat \ {0}
           /\ Last(s) = s[Len(s)] /\ Last(s) \in S
           /\ Len(Front(s)) = Len(s) - 1
           /\ DOMAIN s = 1 .. Len(s) /\ DOMAIN Front(s) = 1 .. Len(s) - 1
           /\ \A i \in 1 .. Len(s) - 1 : Front(s)[i] = s[i]
  <1>1. Len(s) \in Nat \ {0} /\ DOMAIN s = 1 .. Len(s)
    BY EmptySeq, LenProperties
  <1>2. s[Len(s)] \in S
    BY <1>1, ElementOfSeq
  <1>3. Front(s) = [i \in 1 .. Len(s) - 1 |-> s[i]]
    BY <1>1, SMT DEF Front
  <1>4. Len(s) - 1 \in Nat /\ Front(s) \in [1 .. Len(s) - 1 -> S]
    BY <1>1, <1>3, ElementOfSeq
  <1>5. Front(s) \in Seq(S) /\ Len(Front(s)) = Len(s) - 1 /\ DOMAIN Front(s) = 1 .. Len(s) - 1
    BY <1>4, FunctionIsSeq
  <1>6. QED
    BY <1>1, <1>2, <1>3, <1>5 DEF Last

(* Replacing the last element, which is what Proceed does. *)
LEMMA ReplacedLast ==
    ASSUME NEW S, NEW s \in Seq(S), s # <<>>, NEW x \in S
    PROVE  /\ Append(Front(s), x) \in Seq(S) /\ Append(Front(s), x) # <<>>
           /\ DOMAIN Append(Front(s), x) = DOMAIN s
           /\ Append(Front(s), x)[Len(s)] = x
           /\ \A i \in DOMAIN s \ {Len(s)} : Append(Front(s), x)[i] = s[i]
  <1> DEFINE t == Append(Front(s), x)
  <1>1. /\ Front(s) \in Seq(S) /\ Len(s) \in Nat \ {0} /\ Len(Front(s)) = Len(s) - 1
        /\ DOMAIN s = 1 .. Len(s)
        /\ \A i \in 1 .. Len(s) - 1 : Front(s)[i] = s[i]
    BY FrontIs
  <1>2. /\ t \in Seq(S) /\ t # <<>> /\ Len(t) = Len(s) /\ t[Len(s)] = x
        /\ \A i \in 1 .. Len(s) - 1 : t[i] = s[i]
    BY <1>1, AppendProperties
  <1>3. DOMAIN t = 1 .. Len(s)
    BY <1>2, LenProperties
  <1>4. QED
    BY <1>1, <1>2, <1>3

(* The innermost execution is the last of the stack. *)
LEMMA TopIs ==
    ASSUME stack \in Seq(Frame), stack # <<>>
    PROVE  /\ top = stack[Len(stack)] /\ top \in Frame
           /\ Len(stack) \in Nat \ {0}
           /\ DOMAIN stack = 1 .. Len(stack) /\ Len(stack) \in DOMAIN stack
  <1>1. /\ Len(stack) \in Nat \ {0} /\ DOMAIN stack = 1 .. Len(stack)
        /\ Last(stack) = stack[Len(stack)] /\ Last(stack) \in Frame
    BY FrontIs
  <1>2. QED
    BY <1>1 DEF top

(* Proceed changes the innermost execution only. *)
LEMMA Proceeded ==
    ASSUME stack \in Seq(Frame), stack # <<>>, NEW f \in Frame, Proceed(f)
    PROVE  /\ stack' \in Seq(Frame) /\ stack' # <<>>
           /\ DOMAIN stack' = DOMAIN stack /\ stack'[Len(stack)] = f
           /\ \A n \in DOMAIN stack \ {Len(stack)} : stack'[n] = stack[n]
  <1> DEFINE t == Append(Front(stack), f)
  <1>1. t \in Seq(Frame) /\ t # <<>>
    BY ReplacedLast
  <1>2. DOMAIN t = DOMAIN stack /\ t[Len(stack)] = f
    BY ReplacedLast
  <1>3. \A n \in DOMAIN stack \ {Len(stack)} : t[n] = stack[n]
    BY ReplacedLast
  <1>4. stack' = t
    BY DEF Proceed
  <1> HIDE DEF t
  <1>5. QED
    BY <1>1, <1>2, <1>3, <1>4

-----------------------------------------------------------------------------
(* Steps that record and fork nothing.                                     *)

(* IInv survives a step that leaves children, pid_list and the executions  *)
(* about to record alone.                                                  *)
LEMMA TrackedKept ==
    ASSUME IInv, TypeOK', IdleUnlessRunning',
           pid_list' = pid_list, DOMAIN envoys' = DOMAIN envoys,
           Recording' = Recording,
           \A n \in Recording : stack'[n].child = stack[n].child
    PROVE  IInv'
  <1>1. RecordsNew' /\ NoneForgotten'
    BY DEF IInv, RecordsNew, NoneForgotten
  <1>2. RecordedOnce'
    BY DEF IInv, RecordedOnce
  <1>3. QED
    BY <1>1, <1>2 DEF IInv

(* Steps of watcher and configuration, and Boot, do not touch executions,  *)
(* pid_list and children.                                                  *)
LEMMA OutsideKeeps ==
    ASSUME IInv, Boot \/ WatcherSteps \/ Change \/ RestartContainer
    PROVE  IInv'
  <1>1. UNCHANGED <<stack, pid_list, envoys>>
    BY DEF Boot, WatcherSteps, Arm, Noticed, Signal, Change, RestartContainer, config, python
  <1>2. TypeOK'
    <2>1. TypeOK
      BY DEF IInv
    <2>2. restart_epoch' = restart_epoch /\ environ' = environ /\ apart' = apart
      BY DEF Boot, WatcherSteps, Arm, Noticed, Signal, Change, RestartContainer, config, python
    <2>3. version' \in 0 .. MaxChanges
      BY <2>1, HotRestarterAssumption
         DEF TypeOK, Boot, WatcherSteps, Arm, Noticed, Signal, Change, RestartContainer, config
    <2>4. watcher' \in WatcherPCs /\ restarter' \in RestarterPCs
      BY <2>1 DEF TypeOK, Boot, WatcherSteps, Arm, Noticed, Signal, Change, RestartContainer,
                  config, python, WatcherPCs, RestarterPCs
    <2>5. event' \in BOOLEAN /\ hup' \in BOOLEAN
      BY <2>1 DEF TypeOK, Boot, WatcherSteps, Arm, Noticed, Signal, Change, RestartContainer,
                  config, python
    <2>6. QED
      BY <1>1, <2>1, <2>2, <2>3, <2>4, <2>5 DEF TypeOK
  <1>3. IdleUnlessRunning'
    BY <1>1 DEF IInv, IdleUnlessRunning, Boot, WatcherSteps, Arm, Noticed, Signal, Change,
                RestartContainer, python
  <1>4. Recording' = Recording /\ \A n \in Recording : stack'[n].child = stack[n].child
    BY <1>1 DEF Recording
  <1>5. QED
    BY <1>1, <1>2, <1>3, <1>4, TrackedKept

(* A new execution of fork_and_exec is not about to record.                *)
LEMMA EntryKeeps ==
    ASSUME IInv, Main \/ HandleSighup
    PROVE  IInv'
  <1>1. UNCHANGED <<config, watcher, event, restart_epoch, environ, envoys, pid_list>>
        /\ restarter' = "running" /\ hup' \in BOOLEAN
    BY DEF Main, HandleSighup, IInv, TypeOK
  <1>2. stack \in Seq(Frame) /\ Entry \in Frame /\ Entry.pc = "read"
    BY DEF IInv, TypeOK, Frame, Entry
  <1>3. stack' = Append(stack, Entry)
    <2>1. CASE Main
      <3>1. stack = <<>> /\ stack' = <<Entry>>
        BY <2>1 DEF Main, IInv, IdleUnlessRunning
      <3>2. Append(<<>>, Entry) = <<Entry>>
        OBVIOUS
      <3>3. QED
        BY <3>1, <3>2
    <2>2. QED
      BY <2>1 DEF HandleSighup
  <1>4. /\ stack' \in Seq(Frame)
        /\ DOMAIN stack' = 1 .. Len(stack) + 1 /\ DOMAIN stack = 1 .. Len(stack) /\ Len(stack) \in Nat
        /\ \A n \in DOMAIN stack : stack'[n] = stack[n]
        /\ stack'[Len(stack) + 1] = Entry
    BY <1>2, <1>3, AppendProperties, LenProperties
  <1>5. Recording' = Recording /\ \A n \in Recording : stack'[n].child = stack[n].child
    BY <1>2, <1>4 DEF Recording
  <1>6. TypeOK'
    BY <1>1, <1>4 DEF IInv, TypeOK, RestarterPCs, config
  <1>7. IdleUnlessRunning'
    BY <1>1 DEF IdleUnlessRunning
  <1>8. QED
    BY <1>1, <1>5, <1>6, <1>7, TrackedKept

(* ReadEpoch and Export leave the innermost execution short of its fork.   *)
LEMMA PreparationKeeps ==
    ASSUME IInv, ReadEpoch \/ Export
    PROVE  IInv'
  <1>1. /\ UNCHANGED <<config, watcher, event, restarter, hup, restart_epoch, envoys, pid_list>>
        /\ stack # <<>> /\ top.pc \in {"read", "export"}
    BY DEF ReadEpoch, Export
  <1>2. /\ stack \in Seq(Frame) /\ top = stack[Len(stack)] /\ top \in Frame
        /\ DOMAIN stack = 1 .. Len(stack) /\ Len(stack) \in DOMAIN stack
    BY <1>1, TopIs DEF IInv, TypeOK
  <1>3. environ' \in Nat
    BY <1>2 DEF ReadEpoch, Export, IInv, TypeOK, Frame
  <1>4. PICK f \in Frame : Proceed(f) /\ f.pc \in {"export", "fork"}
    <2>1. [top EXCEPT !.pc = "export", !.epoch = restart_epoch] \in Frame
          /\ [top EXCEPT !.pc = "export", !.epoch = restart_epoch].pc = "export"
      BY <1>2 DEF IInv, TypeOK, Frame
    <2>2. [top EXCEPT !.pc = "fork"] \in Frame /\ [top EXCEPT !.pc = "fork"].pc = "fork"
      BY <1>2 DEF Frame
    <2>3. QED
      BY <2>1, <2>2 DEF ReadEpoch, Export
  <1>5. /\ stack' \in Seq(Frame) /\ DOMAIN stack' = DOMAIN stack /\ stack'[Len(stack)] = f
        /\ stack' # <<>>
        /\ \A n \in DOMAIN stack \ {Len(stack)} : stack'[n] = stack[n]
    BY <1>1, <1>2, <1>4, Proceeded
  <1>6. Recording' = Recording /\ \A n \in Recording : stack'[n].child = stack[n].child
    BY <1>1, <1>2, <1>4, <1>5 DEF Recording
  <1>7. TypeOK'
    BY <1>1, <1>3, <1>5 DEF IInv, TypeOK, config
  <1>8. IdleUnlessRunning'
    BY <1>1, <1>5 DEF IInv, IdleUnlessRunning
  <1>9. QED
    BY <1>1, <1>6, <1>7, <1>8, TrackedKept

-----------------------------------------------------------------------------
(* Envoys.                                                                 *)

(* An Envoy that starts, exits or takes over remains a child of the same   *)
(* restarter.                                                              *)
LEMMA EnvoysKeep ==
    ASSUME IInv, NEW i \in DOMAIN envoys, Attach(i) \/ Serve(i)
    PROVE  IInv'
  <1>1. UNCHANGED <<config, watcher, event, python>>
    BY DEF Attach, Serve
  <1>2. /\ envoys \in Seq(Envoy) /\ Len(envoys) \in Nat /\ DOMAIN envoys = 1 .. Len(envoys)
        /\ \A j \in DOMAIN envoys : envoys[j] \in Envoy
    BY LenProperties, ElementOfSeq DEF IInv, TypeOK
  <1>3. version \in Nat
    BY HotRestarterAssumption DEF IInv, TypeOK
  <1>4. envoys' \in [1 .. Len(envoys) -> Envoy]
    <2>1. CASE Attach(i)
      <3>1. PICK s \in {"initialising", "gone"} :
              envoys' = [envoys EXCEPT ![i].state = s, ![i].config = version]
        BY <2>1 DEF Attach
      <3>2. [envoys[i] EXCEPT !.state = s, !.config = version] \in Envoy
        BY <1>2, <1>3 DEF Envoy
      <3>3. envoys' = [j \in DOMAIN envoys |->
                         IF j = i THEN [envoys[i] EXCEPT !.state = s, !.config = version] ELSE envoys[j]]
        BY <1>2, <3>1
      <3>4. QED
        BY <1>2, <3>2, <3>3
    <2>2. CASE Serve(i)
      <3>1. \A j \in DOMAIN envoys : /\ [envoys[j] EXCEPT !.state = "serving"] \in Envoy
                                     /\ [envoys[j] EXCEPT !.state = "draining"] \in Envoy
        BY <1>2 DEF Envoy
      <3>2. QED
        BY <1>2, <2>2, <3>1 DEF Serve
    <2>3. QED
      BY <2>1, <2>2
  <1>5. envoys' \in Seq(Envoy) /\ Len(envoys') = Len(envoys) /\ DOMAIN envoys' = DOMAIN envoys
    BY <1>2, <1>4, FunctionIsSeq
  <1>6. TypeOK' /\ IdleUnlessRunning'
    BY <1>1, <1>5 DEF IInv, TypeOK, IdleUnlessRunning, config, python
  <1>7. Recording' = Recording /\ \A n \in Recording : stack'[n].child = stack[n].child
    BY <1>1 DEF Recording, python
  <1>8. QED
    BY <1>1, <1>5, <1>6, <1>7, TrackedKept DEF python

-----------------------------------------------------------------------------
(* Fork and record.                                                        *)

(* The child of a fork is new, so nobody else records it.                  *)
LEMMA ForkKeeps ==
    ASSUME IInv, ForkAndExec
    PROVE  IInv'
  <1> DEFINE c == Len(envoys) + 1
  <1>1. /\ UNCHANGED <<config, watcher, event, restarter, hup, environ, pid_list>>
        /\ stack # <<>> /\ top.pc = "fork"
        /\ restart_epoch' \in Nat
    BY DEF ForkAndExec, IInv, TypeOK
  <1>2. /\ stack \in Seq(Frame) /\ top = stack[Len(stack)] /\ top \in Frame
        /\ Len(stack) \in DOMAIN stack
    BY <1>1, TopIs DEF IInv, TypeOK
  <1>3. /\ envoys' \in Seq(Envoy) /\ Len(envoys') = c
        /\ Len(envoys) \in Nat /\ DOMAIN envoys = 1 .. Len(envoys) /\ DOMAIN envoys' = 1 .. c
    <2>1. envoys \in Seq(Envoy) /\ [epoch |-> environ, config |-> 0, state |-> "forked"] \in Envoy
      BY DEF IInv, TypeOK, Envoy
    <2>2. QED
      BY <2>1, AppendProperties, LenProperties DEF ForkAndExec
  <1>4. PICK f \in Frame : Proceed(f) /\ f.pc = "record" /\ f.child = c
    <2>1. c \in Nat
      BY <1>3
    <2>2. Proceed([top EXCEPT !.pc = "record", !.child = c])
      BY DEF ForkAndExec
    <2> HIDE DEF c
    <2>3. [top EXCEPT !.pc = "record", !.child = c] \in Frame
      BY <1>2, <2>1 DEF Frame
    <2>4. /\ [top EXCEPT !.pc = "record", !.child = c].pc = "record"
          /\ [top EXCEPT !.pc = "record", !.child = c].child = c
      BY <1>2 DEF Frame
    <2>5. QED
      BY <2>2, <2>3, <2>4
  <1>5. /\ stack' \in Seq(Frame) /\ DOMAIN stack' = DOMAIN stack /\ stack'[Len(stack)] = f
        /\ stack' # <<>>
        /\ \A n \in DOMAIN stack \ {Len(stack)} : stack'[n] = stack[n]
    BY <1>1, <1>2, <1>4, Proceeded
  <1>6. /\ Len(stack) \notin Recording
        /\ Recording' = Recording \cup {Len(stack)}
        /\ stack'[Len(stack)].child = c
        /\ \A n \in Recording : stack'[n].child = stack[n].child
    BY <1>1, <1>2, <1>4, <1>5 DEF Recording
  <1>7. /\ pid_list' = pid_list /\ pid_list \in Seq(1 .. Len(envoys))
        /\ \A k \in DOMAIN pid_list : pid_list[k] \in 1 .. Len(envoys)
    BY <1>1, LenProperties, ElementOfSeq DEF IInv, TypeOK
  <1>8. TypeOK'
    <2>1. pid_list' \in Seq(1 .. Len(envoys'))
      <3>1. 1 .. Len(envoys) \subseteq 1 .. Len(envoys')
        BY <1>3
      <3>2. QED
        BY <1>7, <3>1, SeqMonotonic
    <2>2. QED
      BY <1>1, <1>3, <1>5, <2>1 DEF IInv, TypeOK, config
  <1>9. IdleUnlessRunning'
    BY <1>1, <1>5 DEF IInv, IdleUnlessRunning
  <1>10. RecordsNew'
    <2>1. \A n \in Recording : stack[n].child \in 1 .. Len(envoys)
      BY <1>3 DEF IInv, RecordsNew
    <2>2. c \notin 1 .. Len(envoys) /\ c \in 1 .. c /\ 1 .. Len(envoys) \subseteq 1 .. c
      BY <1>3
    <2>3. ASSUME NEW n \in Recording'
          PROVE  /\ stack'[n].child \in DOMAIN envoys'
                 /\ \A k \in DOMAIN pid_list' : pid_list'[k] # stack'[n].child
      <3>1. CASE n \in Recording
        BY <1>3, <1>6, <1>7, <2>1, <2>2, <3>1 DEF IInv, RecordsNew
      <3>2. CASE n = Len(stack)
        BY <1>3, <1>6, <1>7, <2>2, <3>2
      <3>3. QED
        BY <1>6, <2>3, <3>1, <3>2
    <2>4. ASSUME NEW m \in Recording', NEW n \in Recording', stack'[m].child = stack'[n].child
          PROVE  m = n
      <3>1. CASE m \in Recording /\ n \in Recording
        BY <1>6, <2>4, <3>1 DEF IInv, RecordsNew
      <3>2. CASE m = Len(stack) \/ n = Len(stack)
        BY <1>6, <2>1, <2>2, <2>4, <3>2
      <3>3. QED
        BY <1>6, <2>4, <3>1, <3>2
    <2>5. QED
      BY <2>3, <2>4 DEF RecordsNew
  <1>11. NoneForgotten'
    <2>1. SUFFICES ASSUME NEW i \in DOMAIN envoys'
                   PROVE  \/ \E k \in DOMAIN pid_list' : pid_list'[k] = i
                          \/ \E n \in Recording' : stack'[n].child = i
      BY <2>1 DEF NoneForgotten
    <2>2. CASE i = c
      BY <1>6, <2>2
    <2>3. CASE i \in DOMAIN envoys
      BY <1>6, <1>7, <2>3 DEF IInv, NoneForgotten
    <2>4. QED
      BY <1>3, <2>1, <2>2, <2>3
  <1>12. RecordedOnce'
    BY <1>7 DEF IInv, RecordedOnce
  <1>13. QED
    BY <1>8, <1>9, <1>10, <1>11, <1>12 DEF IInv

(* Record takes a child from the executions to pid_list, wherever in the   *)
(* nesting its execution is.                                               *)
LEMMA RecordKeeps ==
    ASSUME IInv, Record
    PROVE  IInv'
  <1> DEFINE last == Len(stack)
             p == Len(pid_list) + 1
  <1>1. UNCHANGED <<config, watcher, event, restarter, hup, restart_epoch, environ, envoys>>
        /\ stack # <<>> /\ top.pc = "record"
    BY DEF Record
  <1>2. /\ stack \in Seq(Frame) /\ top = stack[last] /\ last \in Nat \ {0}
        /\ DOMAIN stack = 1 .. last
        /\ stack' \in Seq(Frame) /\ DOMAIN stack' = 1 .. last - 1
        /\ \A n \in 1 .. last - 1 : stack'[n] = stack[n]
    <2>1. stack \in Seq(Frame) /\ stack # <<>> /\ stack' = Front(stack)
      BY <1>1 DEF Record, IInv, TypeOK
    <2>2. QED
      BY <2>1, FrontIs, TopIs
  <1>3. last \in Recording /\ stack[last].child = top.child
    BY <1>1, <1>2 DEF Recording
  <1>4. Recording' = Recording \ {last} /\ \A n \in Recording' : stack'[n].child = stack[n].child
    BY <1>2 DEF Recording
  <1>5. top.child \in DOMAIN envoys /\ DOMAIN envoys = 1 .. Len(envoys)
    BY <1>3, LenProperties DEF IInv, TypeOK, RecordsNew
  <1>6. /\ pid_list' \in Seq(1 .. Len(envoys)) /\ Len(pid_list) \in Nat
        /\ DOMAIN pid_list = 1 .. Len(pid_list) /\ DOMAIN pid_list' = 1 .. p
        /\ pid_list'[p] = top.child
        /\ \A k \in DOMAIN pid_list : pid_list'[k] = pid_list[k]
    <2>1. pid_list \in Seq(1 .. Len(envoys)) /\ top.child \in 1 .. Len(envoys)
      BY <1>5 DEF IInv, TypeOK
    <2>2. QED
      BY <2>1, AppendProperties, LenProperties DEF Record
  <1>7. TypeOK'
    BY <1>1, <1>2, <1>6 DEF IInv, TypeOK, config
  <1>8. IdleUnlessRunning'
    BY <1>1 DEF IInv, IdleUnlessRunning
  <1>9. /\ \A k \in DOMAIN pid_list : pid_list[k] # top.child
        /\ \A n \in Recording' : stack'[n].child # top.child
    BY <1>3, <1>4 DEF IInv, RecordsNew
  <1> HIDE DEF last, p
  <1>10. DOMAIN pid_list' = DOMAIN pid_list \cup {p} /\ p \notin DOMAIN pid_list
    BY <1>6 DEF p
  <1>11. RecordsNew'
    <2>1. \A n \in Recording' : n \in Recording /\ stack'[n].child = stack[n].child
      BY <1>4
    <2>2. \A n \in Recording' : stack'[n].child \in DOMAIN envoys'
      BY <1>1, <2>1 DEF IInv, RecordsNew
    <2>3. \A n \in Recording' : \A k \in DOMAIN pid_list' : pid_list'[k] # stack'[n].child
      BY <1>6, <1>9, <1>10, <2>1 DEF IInv, RecordsNew
    <2>4. \A m, n \in Recording' : stack'[m].child = stack'[n].child => m = n
      BY <2>1 DEF IInv, RecordsNew
    <2>5. QED
      BY <2>2, <2>3, <2>4 DEF RecordsNew
  <1>12. NoneForgotten'
    <2>1. SUFFICES ASSUME NEW i \in DOMAIN envoys
                   PROVE  \/ \E k \in DOMAIN pid_list' : pid_list'[k] = i
                          \/ \E n \in Recording' : stack'[n].child = i
      BY <1>1, <2>1 DEF NoneForgotten
    <2>2. CASE \E k \in DOMAIN pid_list : pid_list[k] = i
      BY <1>6, <1>10, <2>2
    <2>3. CASE i = top.child
      BY <1>6, <1>10, <2>3
    <2>4. CASE \E n \in Recording \ {last} : stack[n].child = i
      BY <1>4, <2>4
    <2>5. QED
      BY <1>3, <2>1, <2>2, <2>3, <2>4 DEF IInv, NoneForgotten
  <1>13. RecordedOnce'
    BY <1>6, <1>9, <1>10 DEF IInv, RecordedOnce
  <1>14. QED
    BY <1>7, <1>8, <1>11, <1>12, <1>13 DEF IInv

-----------------------------------------------------------------------------
(* The theorems.                                                           *)

LEMMA Initially == Init => IInv
  <1>1. SUFFICES ASSUME Init PROVE IInv
    BY <1>1
  <1>2. stack = <<>> /\ pid_list = <<>> /\ envoys = <<>>
    BY <1>1 DEF Init, Started
  <1>3. <<>> \in Seq(Frame) /\ <<>> \in Seq(Envoy) /\ <<>> \in Seq(1 .. Len(envoys))
    BY EmptySeq
  <1>4. DOMAIN envoys = {} /\ DOMAIN pid_list = {} /\ DOMAIN stack = {}
    BY <1>2
  <1>5. TypeOK
    <2>1. version \in 0 .. MaxChanges
      BY <1>1, HotRestarterAssumption DEF Init
    <2>2. stack \in Seq(Frame) /\ envoys \in Seq(Envoy) /\ pid_list \in Seq(1 .. Len(envoys))
      BY <1>2, <1>3
    <2>3. QED
      BY <1>1, <2>1, <2>2 DEF Init, Started, TypeOK, WatcherPCs, RestarterPCs
  <1>6. QED
    BY <1>2, <1>4, <1>5
       DEF IInv, IdleUnlessRunning, RecordsNew, NoneForgotten, RecordedOnce, Recording

LEMMA StepKeeps == IInv /\ [Next]_vars => IInv'
  <1>1. SUFFICES ASSUME IInv, [Next]_vars PROVE IInv'
    BY <1>1
  <1>2. CASE Boot \/ WatcherSteps \/ Change \/ RestartContainer
    BY <1>1, <1>2, OutsideKeeps
  <1>3. CASE Main \/ HandleSighup
    BY <1>1, <1>3, EntryKeeps
  <1>4. CASE ReadEpoch \/ Export
    BY <1>1, <1>4, PreparationKeeps
  <1>5. CASE ForkAndExec
    BY <1>1, <1>5, ForkKeeps
  <1>6. CASE Record
    BY <1>1, <1>6, RecordKeeps
  <1>7. CASE \E i \in DOMAIN envoys : Attach(i) \/ Serve(i)
    BY <1>1, <1>7, EnvoysKeep
  <1>8. CASE UNCHANGED vars
    BY <1>1, <1>8 DEF vars, config, python, IInv, TypeOK, IdleUnlessRunning, RecordsNew,
                      NoneForgotten, RecordedOnce, Recording
  <1>9. QED
    BY <1>1, <1>2, <1>3, <1>4, <1>5, <1>6, <1>7, <1>8 DEF Next, ForkSteps

(* The invariant: whatever the number of changes, and however deep the     *)
(* handlers of hot-restarter.py:99-128 nest.                               *)
THEOREM Tracked == Spec => []IInv
  <1>1. QED
    BY Initially, StepKeeps, PTL DEF Spec

(* The variables keep their types; in particular pid_list holds children   *)
(* only.                                                                   *)
THEOREM TypeCorrect == Spec => []TypeOK
  <1>1. IInv => TypeOK
    BY DEF IInv
  <1>2. QED
    BY Tracked, <1>1, PTL

(* When no fork_and_exec is under way every child is in pid_list, once.    *)
THEOREM NoChildLost == Spec => []ChildrenTracked
  <1>1. IInv => ChildrenTracked
    <2>1. SUFFICES ASSUME IInv, stack = <<>>
                   PROVE  ToSet(pid_list) = DOMAIN envoys /\ IsInjective(pid_list)
      BY <2>1 DEF ChildrenTracked
    <2>2. Recording = {}
      BY <2>1 DEF Recording
    <2>3. /\ \A k \in DOMAIN pid_list : pid_list[k] \in 1 .. Len(envoys)
          /\ DOMAIN envoys = 1 .. Len(envoys)
      BY <2>1, LenProperties, ElementOfSeq DEF IInv, TypeOK
    <2>4. \A i \in DOMAIN envoys : \E k \in DOMAIN pid_list : pid_list[k] = i
      BY <2>1, <2>2 DEF IInv, NoneForgotten
    <2>5. ToSet(pid_list) = DOMAIN envoys
      BY <2>3, <2>4 DEF ToSet
    <2>6. IsInjective(pid_list)
      BY <2>1 DEF IInv, RecordedOnce, IsInjective
    <2>7. QED
      BY <2>5, <2>6
  <1>2. QED
    BY Tracked, <1>1, PTL

-----------------------------------------------------------------------------
(* Epochs.                                                                 *)

Forking  == stack # <<>> /\ top.pc # "record"
Starting == {i \in DOMAIN envoys : envoys[i].state \in {"forked", "initialising"}}

(* If changes come far apart, one is dealt with before the next.  At any   *)
(* time it is in one place: the restarter has yet to start, inotifywait    *)
(* has an event, the watcher signals, the signal is pending, fork_and_exec *)
(* is on its way to its fork, a new Envoy starts, or the change is served. *)
OneStage ==
    /\ restarter # "running" =>
           ~(event \/ watcher = "signalling" \/ hup \/ Forking \/ Starting # {} \/ Current)
    /\ event => ~(watcher = "signalling" \/ hup \/ Forking \/ Starting # {} \/ Current)
    /\ watcher = "signalling" => ~(hup \/ Forking \/ Starting # {} \/ Current)
    /\ hup => ~(Forking \/ Starting # {} \/ Current)
    /\ Forking => ~(Starting # {} \/ Current)
    /\ Starting # {} => ~Current

(* What fork_and_exec has read and exported is still true when it forks.   *)
NextEpochReady ==
    /\ restart_epoch = Len(envoys)
    /\ stack # <<>> /\ top.pc = "export" => top.epoch = restart_epoch
    /\ stack # <<>> /\ top.pc = "fork" => environ = restart_epoch

Consecutive  == \A i \in DOMAIN envoys : envoys[i].epoch = i - 1
OthersRecord == \A n \in DOMAIN stack : n < Len(stack) => stack[n].pc = "record"
OneStarting  == \A i, j \in Starting : i = j
ConfigsKnown == \A i \in DOMAIN envoys : envoys[i].config <= version

Calm == OneStage /\ NextEpochReady /\ Consecutive /\ OthersRecord /\ OneStarting /\ ConfigsKnown

EpochInv == IInv /\ (apart => Calm)

(* Watcher and container move a change on; executions and Envoys stay.     *)
LEMMA OutsideCalm ==
    ASSUME IInv, Calm, Boot \/ WatcherSteps \/ RestartContainer
    PROVE  Calm'
  <1>1. UNCHANGED <<stack, envoys, version, restart_epoch, environ>>
    BY DEF Boot, WatcherSteps, Arm, Noticed, Signal, RestartContainer, config, python
  <1>2. Forking' = Forking /\ Starting' = Starting /\ Current' = Current
    BY <1>1 DEF Forking, Starting, Current, InState, top
  <1>3. OneStage'
    <2>1. CASE Boot
      BY <1>2, <2>1 DEF Calm, OneStage, Boot
    <2>2. CASE Arm
      BY <1>2, <2>2 DEF Calm, OneStage, Arm, python
    <2>3. CASE Noticed
      BY <1>2, <2>3 DEF Calm, OneStage, Noticed, python
    <2>4. CASE Signal
      BY <1>2, <2>4 DEF Calm, OneStage, Signal
    <2>5. CASE RestartContainer
      BY <1>2, <2>5 DEF Calm, OneStage, RestartContainer
    <2>6. QED
      BY <2>1, <2>2, <2>3, <2>4, <2>5 DEF WatcherSteps
  <1>4. NextEpochReady' /\ Consecutive' /\ OthersRecord' /\ OneStarting' /\ ConfigsKnown'
    BY <1>1, <1>2
       DEF Calm, NextEpochReady, Consecutive, OthersRecord, OneStarting, ConfigsKnown, top
  <1>5. QED
    BY <1>3, <1>4 DEF Calm

(* A change comes when the last one is served, and no Envoy has it yet.    *)
LEMMA ChangeCalm ==
    ASSUME IInv, Calm, apart, Change
    PROVE  Calm'
  <1>1. /\ UNCHANGED <<watcher, restarter, hup, stack, restart_epoch, environ, envoys>>
        /\ Current /\ watcher = "waiting" /\ version' = version + 1
    BY DEF Change, python
  <1>2. version \in Nat /\ \A i \in DOMAIN envoys : envoys[i].config \in Nat
    <2>1. version \in Nat /\ envoys \in Seq(Envoy)
      BY HotRestarterAssumption DEF IInv, TypeOK
    <2>2. \A i \in DOMAIN envoys : envoys[i] \in Envoy
      BY <2>1, LenProperties, ElementOfSeq
    <2>3. QED
      BY <2>1, <2>2 DEF Envoy
  <1>3. \A i \in DOMAIN envoys : envoys[i].config < version'
    BY <1>1, <1>2 DEF Calm, ConfigsKnown
  <1>4. ~Current'
    BY <1>1, <1>2, <1>3 DEF Current, InState
  <1>5. Forking' = Forking /\ Starting' = Starting
    BY <1>1 DEF Forking, Starting, top
  <1>6. OneStage'
    BY <1>1, <1>4, <1>5 DEF Calm, OneStage
  <1>7. NextEpochReady' /\ Consecutive' /\ OthersRecord' /\ OneStarting'
    BY <1>1, <1>5 DEF Calm, NextEpochReady, Consecutive, OthersRecord, OneStarting, top
  <1>8. ConfigsKnown'
    BY <1>1, <1>2, <1>3 DEF ConfigsKnown
  <1>9. QED
    BY <1>6, <1>7, <1>8 DEF Calm

(* Whatever fork_and_exec begins to do, all others have forked.            *)
LEMMA EntryCalm ==
    ASSUME IInv, Calm, Main \/ HandleSighup
    PROVE  Calm'
  <1>1. /\ UNCHANGED <<version, watcher, event, restart_epoch, environ, envoys>>
        /\ restarter' = "running" /\ ~hup'
    <2>1. CASE Main
      BY <2>1 DEF Main, config, Calm, OneStage, IInv, TypeOK
    <2>2. CASE HandleSighup
      BY <2>2 DEF HandleSighup, config
    <2>3. QED
      BY <2>1, <2>2
  <1>2. stack \in Seq(Frame) /\ Entry \in Frame /\ Entry.pc = "read"
    BY DEF IInv, TypeOK, Frame, Entry
  <1>3. stack' = Append(stack, Entry)
    <2>1. CASE Main
      <3>1. stack = <<>> /\ stack' = <<Entry>>
        BY <2>1 DEF Main, IInv, IdleUnlessRunning
      <3>2. Append(<<>>, Entry) = <<Entry>>
        OBVIOUS
      <3>3. QED
        BY <3>1, <3>2
    <2>2. QED
      BY <2>1 DEF HandleSighup
  <1>4. /\ stack' \in Seq(Frame) /\ stack' # <<>> /\ Len(stack') = Len(stack) + 1
        /\ Len(stack) \in Nat /\ DOMAIN stack = 1 .. Len(stack) /\ DOMAIN stack' = 1 .. Len(stack) + 1
        /\ \A n \in DOMAIN stack : stack'[n] = stack[n]
        /\ stack'[Len(stack) + 1] = Entry
    BY <1>2, <1>3, AppendProperties, LenProperties
  <1>5. top' = Entry
    BY <1>4, FrontIs DEF top
  <1>6. ~Forking /\ Starting = {} /\ ~Current /\ ~event /\ watcher # "signalling"
    BY DEF Main, HandleSighup, Calm, OneStage
  <1>7. Starting' = {} /\ ~Current'
    BY <1>1, <1>6 DEF Starting, Current, InState
  <1>8. OneStage'
    BY <1>1, <1>6, <1>7 DEF OneStage
  <1>9. NextEpochReady' /\ Consecutive' /\ OneStarting' /\ ConfigsKnown'
    BY <1>1, <1>2, <1>5, <1>7 DEF Calm, NextEpochReady, Consecutive, OneStarting, ConfigsKnown
  <1>10. \A n \in DOMAIN stack : stack[n].pc = "record"
    <2>1. ASSUME NEW n \in DOMAIN stack PROVE stack[n].pc = "record"
      <3>1. stack # <<>>
        BY <2>1
      <3>2. top = stack[Len(stack)] /\ top.pc = "record"
        BY <1>2, <1>6, <3>1, FrontIs DEF top, Forking
      <3>3. n = Len(stack) \/ n < Len(stack)
        BY <1>4, <2>1
      <3>4. QED
        BY <3>2, <3>3 DEF Calm, OthersRecord
    <2>2. QED
      BY <2>1
  <1>11. OthersRecord'
    BY <1>4, <1>10 DEF OthersRecord
  <1>12. QED
    BY <1>8, <1>9, <1>11 DEF Calm

(* The epoch that is read is the next, and is not counted meanwhile.       *)
LEMMA PreparationCalm ==
    ASSUME IInv, Calm, ReadEpoch \/ Export
    PROVE  Calm'
  <1>1. /\ UNCHANGED <<version, watcher, event, restarter, hup, restart_epoch, envoys>>
        /\ stack # <<>> /\ top.pc \in {"read", "export"}
    BY DEF ReadEpoch, Export, config
  <1>2. /\ stack \in Seq(Frame) /\ top = stack[Len(stack)] /\ top \in Frame
        /\ DOMAIN stack = 1 .. Len(stack) /\ Len(stack) \in DOMAIN stack
    BY <1>1, TopIs DEF IInv, TypeOK
  <1>3. PICK f \in Frame :
          /\ Proceed(f)
          /\ \/ f.pc = "export" /\ f.epoch = restart_epoch
             \/ f.pc = "fork" /\ environ' = restart_epoch
    <2>1. CASE ReadEpoch
      <3>1. /\ [top EXCEPT !.pc = "export", !.epoch = restart_epoch] \in Frame
            /\ [top EXCEPT !.pc = "export", !.epoch = restart_epoch].pc = "export"
            /\ [top EXCEPT !.pc = "export", !.epoch = restart_epoch].epoch = restart_epoch
        BY <1>2 DEF IInv, TypeOK, Frame
      <3>2. QED
        BY <2>1, <3>1 DEF ReadEpoch
    <2>2. CASE Export
      <3>1. [top EXCEPT !.pc = "fork"] \in Frame /\ [top EXCEPT !.pc = "fork"].pc = "fork"
        BY <1>2 DEF Frame
      <3>2. environ' = restart_epoch
        BY <1>1, <2>2 DEF Export, Calm, NextEpochReady
      <3>3. QED
        BY <2>2, <3>1, <3>2 DEF Export
    <2>3. QED
      BY <2>1, <2>2
  <1>4. /\ stack' \in Seq(Frame) /\ DOMAIN stack' = DOMAIN stack /\ stack'[Len(stack)] = f
        /\ stack' # <<>>
        /\ \A n \in DOMAIN stack \ {Len(stack)} : stack'[n] = stack[n]
    BY <1>1, <1>2, <1>3, Proceeded
  <1>5. Len(stack') = Len(stack) /\ top' = f
    <2>1. Len(stack') \in Nat /\ DOMAIN stack' = 1 .. Len(stack') /\ Len(stack) \in Nat
      BY <1>2, <1>4, LenProperties
    <2>2. Len(stack') = Len(stack)
      BY <1>2, <1>4, <2>1
    <2>3. QED
      BY <1>4, <2>2, FrontIs DEF top
  <1>6. Forking /\ Forking'
    BY <1>1, <1>3, <1>4, <1>5 DEF Forking
  <1>7. Starting' = Starting /\ Current' = Current
    BY <1>1 DEF Starting, Current, InState
  <1>8. OneStage'
    BY <1>1, <1>6, <1>7 DEF Calm, OneStage
  <1>9. NextEpochReady'
    BY <1>1, <1>3, <1>5 DEF Calm, NextEpochReady
  <1>10. OthersRecord'
    BY <1>2, <1>4, <1>5 DEF Calm, OthersRecord
  <1>11. Consecutive' /\ OneStarting' /\ ConfigsKnown'
    BY <1>1, <1>7 DEF Calm, Consecutive, OneStarting, ConfigsKnown
  <1>12. QED
    BY <1>8, <1>9, <1>10, <1>11 DEF Calm

(* The child finds the next epoch, and is the only one that starts.        *)
LEMMA ForkCalm ==
    ASSUME IInv, Calm, ForkAndExec
    PROVE  Calm'
  <1> DEFINE c == Len(envoys) + 1
             child == [epoch |-> environ, config |-> 0, state |-> "forked"]
  <1>1. /\ UNCHANGED <<version, watcher, event, restarter, hup, environ>>
        /\ stack # <<>> /\ top.pc = "fork" /\ restart_epoch' = restart_epoch + 1
    BY DEF ForkAndExec, config
  <1>2. /\ stack \in Seq(Frame) /\ top = stack[Len(stack)] /\ top \in Frame
        /\ DOMAIN stack = 1 .. Len(stack) /\ Len(stack) \in DOMAIN stack
    BY <1>1, TopIs DEF IInv, TypeOK
  <1>3. /\ Len(envoys) \in Nat /\ DOMAIN envoys = 1 .. Len(envoys)
        /\ DOMAIN envoys' = 1 .. c /\ Len(envoys') = c
        /\ envoys'[c] = child /\ \A i \in DOMAIN envoys : envoys'[i] = envoys[i]
    <2>1. envoys \in Seq(Envoy) /\ child \in Envoy
      BY DEF IInv, TypeOK, Envoy
    <2>2. envoys' = Append(envoys, child)
      BY DEF ForkAndExec
    <2> HIDE DEF child
    <2>3. QED
      BY <2>1, <2>2, AppendProperties, LenProperties
  <1>4. child.epoch = environ /\ child.config = 0 /\ child.state = "forked"
    OBVIOUS
  <1>5. PICK f \in Frame : Proceed(f) /\ f.pc = "record"
    <2>1. c \in Nat
      BY <1>3
    <2>2. Proceed([top EXCEPT !.pc = "record", !.child = c])
      BY DEF ForkAndExec
    <2> HIDE DEF c
    <2>3. [top EXCEPT !.pc = "record", !.child = c] \in Frame
      BY <1>2, <2>1 DEF Frame
    <2>4. [top EXCEPT !.pc = "record", !.child = c].pc = "record"
      BY <1>2 DEF Frame
    <2>5. QED
      BY <2>2, <2>3, <2>4
  <1> HIDE DEF child, c
  <1>6. /\ stack' \in Seq(Frame) /\ DOMAIN stack' = DOMAIN stack /\ stack'[Len(stack)] = f
        /\ stack' # <<>>
        /\ \A n \in DOMAIN stack \ {Len(stack)} : stack'[n] = stack[n]
    BY <1>1, <1>2, <1>5, Proceeded
  <1>7. Len(stack') = Len(stack) /\ top' = f
    <2>1. Len(stack') \in Nat /\ DOMAIN stack' = 1 .. Len(stack') /\ Len(stack) \in Nat
      BY <1>2, <1>6, LenProperties
    <2>2. Len(stack') = Len(stack)
      BY <1>2, <1>6, <2>1
    <2>3. QED
      BY <1>6, <2>2, FrontIs DEF top
  <1>8. Forking /\ ~Forking'
    BY <1>1, <1>5, <1>7 DEF Forking
  <1>9. Starting = {} /\ ~Current
    BY <1>8 DEF Calm, OneStage
  <1>10. DOMAIN envoys' = DOMAIN envoys \cup {c} /\ c \notin DOMAIN envoys
    BY <1>3 DEF c
  <1>11. Starting' = {c}
    BY <1>3, <1>4, <1>9, <1>10 DEF Starting
  <1>12. ~Current'
    BY <1>1, <1>3, <1>4, <1>9, <1>10 DEF Current, InState
  <1>13. OneStage'
    BY <1>1, <1>8, <1>11, <1>12 DEF Calm, OneStage
  <1>14. environ = Len(envoys) /\ restart_epoch = Len(envoys)
    BY <1>1 DEF Calm, NextEpochReady
  <1>15. NextEpochReady'
    BY <1>1, <1>3, <1>5, <1>7, <1>14 DEF NextEpochReady, c
  <1>16. Consecutive'
    <2>1. child.epoch = c - 1
      BY <1>3, <1>4, <1>14 DEF c
    <2>2. QED
      BY <1>3, <1>10, <2>1 DEF Calm, Consecutive
  <1>17. OthersRecord'
    BY <1>2, <1>6, <1>7 DEF Calm, OthersRecord
  <1>18. OneStarting'
    BY <1>11 DEF OneStarting
  <1>19. ConfigsKnown'
    <2>1. version \in Nat
      BY HotRestarterAssumption DEF IInv, TypeOK
    <2>2. QED
      BY <1>1, <1>3, <1>4, <1>10, <2>1 DEF Calm, ConfigsKnown
  <1>20. QED
    BY <1>13, <1>15, <1>16, <1>17, <1>18, <1>19 DEF Calm

(* The execution that goes on has forked as well.                          *)
LEMMA RecordCalm ==
    ASSUME IInv, Calm, Record
    PROVE  Calm'
  <1>1. /\ UNCHANGED <<version, watcher, event, restarter, hup, restart_epoch, environ, envoys>>
        /\ stack # <<>> /\ top.pc = "record" /\ stack' = Front(stack)
    BY DEF Record, config
  <1>2. /\ stack \in Seq(Frame) /\ Len(stack) \in Nat \ {0} /\ DOMAIN stack = 1 .. Len(stack)
        /\ stack' \in Seq(Frame) /\ DOMAIN stack' = 1 .. Len(stack) - 1
        /\ Len(stack') = Len(stack) - 1
        /\ \A n \in 1 .. Len(stack) - 1 : stack'[n] = stack[n]
    <2>1. stack \in Seq(Frame)
      BY DEF IInv, TypeOK
    <2>2. QED
      BY <1>1, <2>1, FrontIs
  <1>3. \A n \in DOMAIN stack' : stack'[n].pc = "record"
    BY <1>2 DEF Calm, OthersRecord
  <1>4. stack' # <<>> => top'.pc = "record"
    <2>1. SUFFICES ASSUME stack' # <<>> PROVE top'.pc = "record"
      OBVIOUS
    <2>2. Len(stack') \in Nat \ {0} /\ Last(stack') = stack'[Len(stack')]
      BY <1>2, <2>1, FrontIs
    <2>3. Len(stack') \in DOMAIN stack'
      BY <1>2, <2>2
    <2>4. top' = stack'[Len(stack')]
      BY <2>2 DEF top
    <2>5. QED
      BY <1>3, <2>3, <2>4
  <1>5. ~Forking /\ ~Forking' /\ Starting' = Starting /\ Current' = Current
    BY <1>1, <1>4 DEF Forking, Starting, Current, InState
  <1>6. OneStage'
    BY <1>1, <1>5 DEF Calm, OneStage
  <1>7. NextEpochReady'
    BY <1>1, <1>4 DEF Calm, NextEpochReady
  <1>8. OthersRecord'
    BY <1>3 DEF OthersRecord
  <1>9. Consecutive' /\ OneStarting' /\ ConfigsKnown'
    BY <1>1, <1>5 DEF Calm, Consecutive, OneStarting, ConfigsKnown
  <1>10. QED
    BY <1>6, <1>7, <1>8, <1>9 DEF Calm

(* An Envoy that starts is the only one, and serves the change or exits.   *)
LEMMA EnvoysCalm ==
    ASSUME IInv, Calm, NEW i \in DOMAIN envoys, Attach(i) \/ Serve(i)
    PROVE  Calm'
  <1>1. UNCHANGED <<version, watcher, event, restarter, hup, stack, restart_epoch, environ>>
    BY DEF Attach, Serve, config, python
  <1>2. /\ envoys \in Seq(Envoy) /\ Len(envoys) \in Nat /\ DOMAIN envoys = 1 .. Len(envoys)
        /\ \A j \in DOMAIN envoys : envoys[j] \in Envoy
    BY LenProperties, ElementOfSeq DEF IInv, TypeOK
  <1>3. version \in Nat
    BY HotRestarterAssumption DEF IInv, TypeOK
  <1>4. i \in Starting /\ Starting = {i}
    BY DEF Attach, Serve, Starting, Calm, OneStarting
  <1>5. /\ DOMAIN envoys' = DOMAIN envoys /\ Len(envoys') = Len(envoys)
        /\ \A j \in DOMAIN envoys : envoys'[j].epoch = envoys[j].epoch
        /\ \A j \in DOMAIN envoys : envoys'[j].config \in {envoys[j].config, version}
    <2>1. CASE Attach(i)
      <3>1. PICK s \in {"initialising", "gone"} :
              envoys' = [envoys EXCEPT ![i].state = s, ![i].config = version]
        BY <2>1 DEF Attach
      <3>2. /\ [envoys[i] EXCEPT !.state = s, !.config = version].epoch = envoys[i].epoch
            /\ [envoys[i] EXCEPT !.state = s, !.config = version].config = version
        BY <1>2 DEF Envoy
      <3>3. envoys' = [j \in DOMAIN envoys |->
                         IF j = i THEN [envoys[i] EXCEPT !.state = s, !.config = version] ELSE envoys[j]]
        BY <1>2, <3>1
      <3>4. Len(envoys') = Len(envoys)
        BY <1>2, <3>3
      <3>5. QED
        BY <3>2, <3>3, <3>4
    <2>2. CASE Serve(i)
      <3>1. \A j \in DOMAIN envoys :
              /\ [envoys[j] EXCEPT !.state = "serving"].epoch = envoys[j].epoch
              /\ [envoys[j] EXCEPT !.state = "draining"].epoch = envoys[j].epoch
              /\ [envoys[j] EXCEPT !.state = "serving"].config = envoys[j].config
              /\ [envoys[j] EXCEPT !.state = "draining"].config = envoys[j].config
        BY <1>2 DEF Envoy
      <3>2. Len(envoys') = Len(envoys) /\ DOMAIN envoys' = DOMAIN envoys
        BY <1>2, <2>2 DEF Serve
      <3>3. QED
        BY <2>2, <3>1, <3>2 DEF Serve
    <2>3. QED
      BY <2>1, <2>2
  <1>6. (Starting' = {i} /\ Current' = Current) \/ Starting' = {}
    <2>1. CASE Attach(i)
      <3>1. PICK s \in {"initialising", "gone"} :
              envoys' = [envoys EXCEPT ![i].state = s, ![i].config = version]
        BY <2>1 DEF Attach
      <3>2. [envoys[i] EXCEPT !.state = s, !.config = version].state = s
        BY <1>2 DEF Envoy
      <3>3. envoys' = [j \in DOMAIN envoys |->
                         IF j = i THEN [envoys[i] EXCEPT !.state = s, !.config = version] ELSE envoys[j]]
        BY <1>2, <3>1
      <3>4. envoys'[i].state = s /\ \A j \in DOMAIN envoys \ {i} : envoys'[j] = envoys[j]
        BY <3>2, <3>3
      <3>5. Starting' = IF s = "gone" THEN {} ELSE {i}
        BY <1>4, <1>5, <3>1, <3>4 DEF Starting
      <3>6. envoys[i].state # "serving" /\ envoys'[i].state # "serving"
        BY <2>1, <3>1, <3>4 DEF Attach
      <3>7. InState("serving")' = InState("serving") /\ i \notin InState("serving")
        BY <1>5, <3>4, <3>6 DEF InState
      <3>8. \A j \in InState("serving") : envoys'[j] = envoys[j]
        BY <3>4, <3>7 DEF InState
      <3>9. Current' = Current
        BY <1>1, <3>7, <3>8 DEF Current
      <3>10. QED
        BY <3>5, <3>9
    <2>2. CASE Serve(i)
      <3>1. \A j \in DOMAIN envoys : /\ [envoys[j] EXCEPT !.state = "serving"].state = "serving"
                                     /\ [envoys[j] EXCEPT !.state = "draining"].state = "draining"
        BY <1>2 DEF Envoy
      <3>2. \A j \in DOMAIN envoys \ {i} :
              envoys'[j].state \in {envoys[j].state, "draining"}
        BY <2>2, <3>1 DEF Serve
      <3>3. envoys'[i].state = "serving"
        BY <2>2, <3>1 DEF Serve
      <3>4. Starting' = {}
        BY <1>4, <1>5, <3>2, <3>3 DEF Starting
      <3>5. QED
        BY <3>4
    <2>3. QED
      BY <2>1, <2>2
  <1>7. Forking' = Forking
    BY <1>1 DEF Forking, top
  <1>8. OneStage'
    BY <1>1, <1>4, <1>6, <1>7 DEF Calm, OneStage
  <1>9. NextEpochReady'
    BY <1>1, <1>5 DEF Calm, NextEpochReady, top
  <1>10. Consecutive'
    BY <1>5 DEF Calm, Consecutive
  <1>11. OthersRecord' /\ OneStarting'
    BY <1>1, <1>6 DEF Calm, OthersRecord, OneStarting
  <1>12. ConfigsKnown'
    BY <1>1, <1>3, <1>5 DEF Calm, ConfigsKnown
  <1>13. QED
    BY <1>8, <1>9, <1>10, <1>11, <1>12 DEF Calm

LEMMA EpochInitially == Init => EpochInv
  <1>1. SUFFICES ASSUME Init PROVE EpochInv
    OBVIOUS
  <1>2. IInv
    BY <1>1, Initially
  <1>3. /\ stack = <<>> /\ envoys = <<>> /\ restart_epoch = 0
        /\ event = FALSE /\ watcher = "arming" /\ hup = FALSE
    BY <1>1 DEF Init, Started
  <1>4. DOMAIN envoys = {} /\ DOMAIN stack = {} /\ Len(envoys) = 0
    BY <1>3
  <1>5. ~Forking /\ Starting = {} /\ ~Current
    BY <1>3, <1>4 DEF Forking, Starting, Current, InState
  <1>6. OneStage
    BY <1>3, <1>5 DEF OneStage
  <1>7. NextEpochReady /\ Consecutive /\ OthersRecord /\ OneStarting /\ ConfigsKnown
    BY <1>3, <1>4, <1>5
       DEF NextEpochReady, Consecutive, OthersRecord, OneStarting, ConfigsKnown
  <1>8. QED
    BY <1>2, <1>6, <1>7 DEF EpochInv, Calm

LEMMA EpochStep == EpochInv /\ [Next]_vars => EpochInv'
  <1>1. SUFFICES ASSUME EpochInv, [Next]_vars PROVE EpochInv'
    OBVIOUS
  <1>2. IInv /\ IInv'
    BY <1>1, StepKeeps DEF EpochInv
  <1>3. apart' = apart
    BY <1>1 DEF Next, vars, config, Boot, Main, HandleSighup, ForkSteps, ReadEpoch, Export,
                ForkAndExec, Record, WatcherSteps, Arm, Noticed, Signal, Change,
                RestartContainer, Attach, Serve
  <1>4. SUFFICES ASSUME apart, Calm PROVE Calm'
    BY <1>1, <1>2, <1>3 DEF EpochInv
  <1>5. CASE Boot \/ WatcherSteps \/ RestartContainer
    BY <1>2, <1>4, <1>5, OutsideCalm
  <1>6. CASE Change
    BY <1>2, <1>4, <1>6, ChangeCalm
  <1>7. CASE Main \/ HandleSighup
    BY <1>2, <1>4, <1>7, EntryCalm
  <1>8. CASE ReadEpoch \/ Export
    BY <1>2, <1>4, <1>8, PreparationCalm
  <1>9. CASE ForkAndExec
    BY <1>2, <1>4, <1>9, ForkCalm
  <1>10. CASE Record
    BY <1>2, <1>4, <1>10, RecordCalm
  <1>11. CASE \E i \in DOMAIN envoys : Attach(i) \/ Serve(i)
    BY <1>2, <1>4, <1>11, EnvoysCalm
  <1>12. CASE UNCHANGED vars
    BY <1>4, <1>12
       DEF vars, config, python, Calm, OneStage, NextEpochReady, Consecutive, OthersRecord,
           OneStarting, ConfigsKnown, Forking, Starting, Current, InState, top
  <1>13. QED
    BY <1>1, <1>5, <1>6, <1>7, <1>8, <1>9, <1>10, <1>11, <1>12 DEF Next, ForkSteps

(* If changes come far apart each Envoy finds the epoch after the last     *)
(* one's in its environment, however many changes there are                *)
(* (hot-restarter.py:104-128).                                             *)
THEOREM EpochsFollow == Spec => []EpochsConsecutive
  <1>1. EpochInv => EpochsConsecutive
    BY DEF EpochInv, Calm, Consecutive, EpochsConsecutive
  <1>2. QED
    BY EpochInitially, EpochStep, <1>1, PTL DEF Spec
=============================================================================
