------------------------------- MODULE MoFaaS -------------------------------
(***************************************************************************)
(* One MoFaaS function: chooser, variants and egress proxy together.       *)
(*                                                                         *)
(* Every request the chooser receives has a session of its own at the      *)
(* egress proxy, so the two share their names (attempts are Sessions).     *)
(* The variants are the user's functions.  They are meant to be the same   *)
(* program in different languages: an honest one makes the calls of        *)
(* Program one after the other, each after the answer to the one before,   *)
(* and then replies; any other may call and reply as it likes.  A variant  *)
(* does not notice that the chooser has given up on its request.           *)
(***************************************************************************)
EXTENDS EgressProxy

CONSTANTS
    Concurrency,
    Honest,  \* variants that run Program
    Program, \* the calls of an honest variant
    Faults   \* the requests that may fail: of the chooser to the egress proxy
             \* or K_SINK ("post"), of the chooser to a variant ("variant"),
             \* of the egress proxy to a destination or K_SINK ("round"); and
             \* may a start or stop be answered with an error ("status")?

VARIABLE attempt

Done     == "done"     \* all calls of the variant went through
Rejected == "rejected" \* one of them did not

C == INSTANCE Chooser WITH Attempts <- Sessions, Replies <- {Done, Rejected}

ASSUME MoFaaSAssumption ==
    /\ Concurrency \in Nat \ {0} /\ ServiceLists = C!Samples(Services, Concurrency)
    /\ None \notin {Done, Rejected}
    /\ Honest \subseteq Services /\ Program \in Seq(Contents)
    /\ Faults \subseteq {"post", "status", "variant", "round"}

(* A refused start leaves the variants without a session of their own.  If *)
(* the id is that of an earlier attempt, they call in that one's session,  *)
(* which is not modelled.                                                  *)
ASSUME RefusalAssumption == "status" \in Faults => Retry = FALSE

egress == vars
sysVars == <<registry, launch, loop, requests, responses, handler, accepted, rounds, attempt>>

SysTypeOK == TypeOK /\ C!AttemptTypeOK

SysInit == Init /\ C!ChooserInit

-----------------------------------------------------------------------------
(* The broker and the chooser.                                             *)

(* An event is delivered, or delivered again: the broker has seen a 500 or *)
(* no answer in time.                                                      *)
Deliver(a, r, l) ==
    /\ Retry \/ \A b \in Sessions : attempt[b].id # r
    /\ C!Receive(a, r, l)
    /\ UNCHANGED egress

EgressStarts(a) == Start(attempt[a].id, attempt[a].chosen) /\ launch'[a] # launch[a]

EgressStops(a) == IF registry[attempt[a].id] = None THEN UNCHANGED egress ELSE Stop(attempt[a].id)

StartSession(a) == C!Dispatch(a) /\ EgressStarts(a)

(* What answers is not the egress proxy, or it could not start anything:   *)
(* the chooser only logs the status and asks the variants all the same.    *)
StartRefused(a) == "status" \in Faults /\ C!Dispatch(a) /\ UNCHANGED egress

(* The start or the stop may have reached the egress proxy all the same.   *)
StartUnanswered(a) ==
    /\ "post" \in Faults /\ attempt[a].pc = "starting" /\ C!PostFails(a)
    /\ EgressStarts(a) \/ UNCHANGED egress

VerifyReplies(a) == C!Verify(a) /\ UNCHANGED egress

StopSession(a) == C!Close(a) /\ EgressStops(a)

(* Nor does the status of a stop count: the session stays.                 *)
StopRefused(a) == "status" \in Faults /\ C!Close(a) /\ UNCHANGED egress

StopUnanswered(a) ==
    /\ "post" \in Faults /\ attempt[a].pc = "closing" /\ C!PostFails(a)
    /\ EgressStops(a) \/ UNCHANGED egress

ReportMismatch(a) == C!Report(a) /\ UNCHANGED egress

ReportFails(a) ==
    /\ "post" \in Faults /\ attempt[a].pc = "reporting" /\ C!PostFails(a)
    /\ UNCHANGED egress

RequestFails(a, s) == "variant" \in Faults /\ C!VariantFails(a, s) /\ UNCHANGED egress

-----------------------------------------------------------------------------
(* The variants.                                                           *)

CallsOf(a, s) == {c \in Calls : handler[c].origin = a /\ handler[c].sender = s}

Serving(a, s) == attempt[a].pc \notin {"none", "starting"} /\ Started(a)
                 /\ s \in ServicesOf(a) /\ attempt[a].reply[s] = None

WentThrough(c) ==
    LET by  == handler[c].answer.by
        nth == handler[c].answer.nth
    IN  handler[c].pc = "answered" /\ rounds[by][nth].forwarded

HonestCalls(c, a, s, h) ==
    LET n == Cardinality(CallsOf(a, s))
    IN  /\ Serving(a, s) /\ s \in Honest
        /\ n < Len(Program) /\ ~Outstanding(a, s)
        /\ Submit(c, a, s, Program[n + 1], h)
        /\ UNCHANGED attempt

HonestReplies(a, s) ==
    /\ s \in Honest
    /\ Cardinality(CallsOf(a, s)) = Len(Program) /\ ~Outstanding(a, s)
    /\ C!VariantReplies(a, s,
          IF \A c \in CallsOf(a, s) : WentThrough(c) THEN Done ELSE Rejected)
    /\ UNCHANGED egress

(* Without a session every call gets an error at once (KeyError) and leaves *)
(* no trace at the egress proxy; what shows is the reply.                  *)
HonestUnserved(a, s) ==
    /\ s \in Honest /\ Program # <<>> /\ ~Started(a)
    /\ C!VariantReplies(a, s, Rejected)
    /\ UNCHANGED egress

OtherCalls(c, a, s, x, h) ==
    /\ Serving(a, s) /\ s \notin Honest
    /\ Submit(c, a, s, x, h)
    /\ UNCHANGED attempt

OtherReplies(a, s, v) ==
    /\ s \notin Honest
    /\ C!VariantReplies(a, s, v)
    /\ UNCHANGED egress

-----------------------------------------------------------------------------
(* The egress proxy on its own. *)

EgressLoop(g) ==
    /\ \/ RunLoop(g)
       \/ DeliverResponse(g)
       \/ "round" \in Faults /\ RoundFails(g)
       \/ HandleCancelled(g)
    /\ UNCHANGED attempt

EgressHandler(c) == ResumeHandler(c) /\ UNCHANGED attempt

ChooserRuns(a) == StartSession(a) \/ VerifyReplies(a) \/ StopSession(a) \/ ReportMismatch(a)

SysNext ==
    \/ \E a \in Sessions :
          \/ \E r \in Ids, l \in ServiceLists : Deliver(a, r, l)
          \/ ChooserRuns(a)
          \/ StartRefused(a)
          \/ StopRefused(a)
          \/ StartUnanswered(a)
          \/ StopUnanswered(a)
          \/ ReportFails(a)
          \/ \E s \in Services :
                \/ RequestFails(a, s)
                \/ \E c \in Calls, h \in Hosts : HonestCalls(c, a, s, h)
                \/ HonestReplies(a, s)
                \/ HonestUnserved(a, s)
                \/ \E c \in Calls, x \in Contents, h \in Hosts : OtherCalls(c, a, s, x, h)
                \/ \E v \in {Done, Rejected} : OtherReplies(a, s, v)
    \/ \E g \in Sessions : EgressLoop(g)
    \/ \E c \in Calls : EgressHandler(c)

SysSpec == SysInit /\ [][SysNext]_sysVars

(* The event loops of chooser and egress proxy schedule what can run, an   *)
(* honest variant goes on with its program, and what is on the network     *)
(* arrives.  Nothing obliges any other variant.                            *)
SysFairness ==
    /\ \A c \in Calls : WF_sysVars(EgressHandler(c))
    /\ \A a \in Sessions :
          /\ WF_sysVars(EgressLoop(a))
          /\ WF_sysVars(ChooserRuns(a))
          /\ \A s \in Services :
                WF_sysVars(\/ HonestReplies(a, s) \/ HonestUnserved(a, s)
                           \/ \E c \in Calls, h \in Hosts : HonestCalls(c, a, s, h))

SysFairSpec == SysSpec /\ SysFairness

-----------------------------------------------------------------------------
(* Properties.                                                             *)

HonestIn(a) == Honest \cap C!Chosen(a) # {}

ContentOf(round) == handler[round.store[1]].content

(* The calls that leave the system are, in order, those of the program, if *)
(* an honest variant was drawn: no other variant adds or alters one, or    *)
(* makes an honest one skip, repeat or reorder one (chooser.py:43,         *)
(* main.py:72-83).                                                         *)
EffectsFollowProgram ==
    \A a \in Sessions : HonestIn(a) =>
        \A n \in DOMAIN rounds[a] : rounds[a][n].forwarded =>
            n \in DOMAIN Program /\ ContentOf(rounds[a][n]) = Program[n]

(* A caller is told that the request was done only if every call of the    *)
(* program was forwarded, once, even if the start was answered with an     *)
(* error (chooser.py:69-84, 140 with main.py:65-83).                       *)
DoneMeansDone ==
    \A a \in Sessions :
        (HonestIn(a) /\ attempt[a].verified /\ \E s \in C!Chosen(a) : attempt[a].reply[s] = Done)
        => /\ Len(rounds[a]) = Len(Program)
           /\ \A n \in DOMAIN rounds[a] : rounds[a][n].forwarded

(* "Notice the Egress Proxy that this request ended" (chooser.py:86): the  *)
(* session of a request that has ended is closed.                          *)
EndedIsNoticed ==
    \A a \in Sessions : attempt[a].pc \in {"answered", "failed"} =>
        registry[attempt[a].id] # a

(* A request served by honest variants only is answered, unless a request  *)
(* to another party breaks: it is done, or rejected by all of them if the  *)
(* start was answered with an error, which the chooser does not act upon   *)
(* (chooser.py:45-83, 140, main.py:65-83).                                 *)
HonestRequestServed ==
    \A a \in Sessions :
        (attempt[a].pc = "starting" /\ C!Chosen(a) \subseteq Honest) ~>
        \/ attempt[a].pc = "failed" \/ loop[a].pc = "failed"
        \/ /\ attempt[a].pc = "answered" /\ attempt[a].verified
           /\ \A s \in C!Chosen(a) :
                 attempt[a].reply[s] = IF Started(a) \/ Program = <<>> THEN Done ELSE Rejected
=============================================================================
