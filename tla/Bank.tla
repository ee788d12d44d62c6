-------------------------------- MODULE Bank --------------------------------
(***************************************************************************)
(* The bank's functions deployed as MoFaaS functions: a resource that the  *)
(* webhook admits, the chooser it configures, the variants in their five   *)
(* languages and their sidecars, and one request (src/apps/bank).          *)
(*                                                                         *)
(* Between variants and destinations stands the egress proxy, here by what *)
(* it promises, UnanimityGate.  The sidecar of a variant waits for a       *)
(* response for 15 seconds, Envoy's default, which no route overrides      *)
(* (mofaas-contoller/config/envoy/envoy.yaml); then it answers the call    *)
(* itself.  The call stays in its queue, and its response still comes.     *)
(* From then on calls of that variant may overlap, and which of them gets  *)
(* a response is not what the gate tells: Received says it.  Rounds hold   *)
(* the n-th calls all the same (PairedInOrder of MoFaaS).  A variant that  *)
(* serves alone has neither egress proxy nor sidecar: the gate decides     *)
(* each call as it is made, and nobody gives up.                           *)
(***************************************************************************)
EXTENDS Authorization, VerifyTransaction, Webhook

CONSTANTS
    Orders,     \* requests to verify-transaction
    Requests,   \* requests to authorization
    TimedOut,   \* what a variant gets from its sidecar that gave up
    MaxTimeouts \* bound on how often that happens while something else can

Languages == {"go", "java", "js", "php", "python"}

ASSUME BankAssumption ==
    /\ Orders \subseteq Order /\ Requests \subseteq Request
    /\ Identities = {"verify-transaction", "authorization"}
    /\ VariantNames = Languages
    /\ TimedOut \notin Users \cup {None} /\ MaxTimeouts \in Nat

Lookup(name) == [lookup |-> name]
Verified     == [message : Messages, from : Users \cup {None}, to : Users \cup {None}]
Events       == Event \cup Verified
Calls        == {Lookup(name) : name \in Names \cup {Absent, EmptyString}} \cup Events

(* No call is mistaken for none. *)
ASSUME CallsAssumption == None \notin Calls

VARIABLES
    resource, \* the MoFaaSFunction
    input,    \* the request
    attempt,  \* the run of the chooser's proxy_handler
    members, asked, decided, told, \* the session at the egress proxy
    alive,    \* is the task of the session, handle_requests, alive?
    answers   \* what each variant got for its calls, in order

session == "session"
gate    == <<members, asked, decided, told>>
vars    == <<resource, input, attempt, gate, alive, answers>>

Crash        == "Internal Server Error"

C == INSTANCE Chooser WITH Attempts <- {session}, Ids <- {session}, Services <- VariantNames,
        Replies <- {e.message : e \in Events} \cup {Crash}
G == INSTANCE UnanimityGate WITH Sessions <- {session}, Services <- VariantNames, Contents <- Calls

Chosen == C!Chosen(session)
pc     == attempt[session].pc

BankTypeOK ==
    /\ resource \in Resources /\ C!AttemptTypeOK
    /\ input \in IF resource.identity = "authorization" THEN Requests ELSE Orders
    /\ members \in [{session} -> SUBSET VariantNames]
    /\ asked \in [{session} -> [VariantNames -> Seq(Calls)]]
    /\ decided \in [{session} -> Seq(BOOLEAN)]
    /\ told \in [{session} -> [VariantNames -> Seq(Nat)]]
    /\ alive \in BOOLEAN
    /\ answers \in [VariantNames -> Seq(Users \cup {None, TimedOut})]

-----------------------------------------------------------------------------
(* What a variant does next.                                               *)

ToLookUp(s) ==
    CASE resource.identity = "authorization" -> <<>>
      [] OTHER -> CASE s = "go"     -> GoLookups(input)
                    [] s = "java"   -> JavaLookups(input)
                    [] s = "js"     -> JsLookups(input)
                    [] s = "php"    -> PhpLookups(input)
                    [] s = "python" -> PythonLookups(input)

(* Mutant of Id: what a sidecar answers is taken for an id. *)
IdOfAny(s, n) == IF n <= Len(ToLookUp(s)) THEN answers[s][n] ELSE None

Id(s, n) == IF n <= Len(ToLookUp(s)) /\ answers[s][n] # TimedOut THEN answers[s][n] ELSE None

(* The event it sends when the lookups are done, None if it crashes.       *)
Final(s) ==
    LET found   == [from |-> Id(s, 1), to |-> Id(s, 2)]
        message == CASE s = "go"     -> GoVerdict(input, found)
                     [] s = "java"   -> JavaVerdict(input, found)
                     [] s = "js"     -> JsVerdict(input, found)
                     [] s = "php"    -> PhpVerdict(input, found)
                     [] s = "python" -> PythonVerdict(input, found)
    IN  CASE resource.identity = "verify-transaction" ->
                [message |-> message, from |-> found.from, to |-> found.to]
          [] OTHER -> CASE s = "go"     -> GoEvent(input)
                        [] s = "java"   -> JavaEvent(input)
                        [] s = "js"     -> JsEvent(input)
                        [] s = "php"    -> PhpEvent(input)
                        [] s = "python" -> PythonEvent(input)

Outstanding(s) == Len(answers[s]) < Len(asked[session][s])

(* The next call, None if there is none. *)
NextCall(s) ==
    LET n == Len(answers[s]) + 1
    IN  IF n <= Len(ToLookUp(s)) THEN Lookup(ToLookUp(s)[n])
        ELSE IF n = Len(ToLookUp(s)) + 1 THEN Final(s)
        ELSE None

-----------------------------------------------------------------------------
(* Actions.                                                                *)

Init ==
    /\ resource \in {r \in Resources : ValidateCreate(r)}
    /\ input \in IF resource.identity = "authorization" THEN Requests ELSE Orders
    /\ C!ChooserInit /\ G!GateInit
    /\ alive = TRUE
    /\ answers = [s \in VariantNames |-> <<>>]

(* A user edits the resource; a chooser in its new form serves what comes. *)
Edit ==
    /\ pc = "none"
    /\ \E new \in Resources : ValidateUpdate(resource, new) /\ resource' = new
    /\ UNCHANGED <<input, attempt, gate, alive, answers>>

Receive ==
    /\ \E l \in C!Samples(Choosable(resource), resource.concurrency) :
          l # <<>> /\ C!Receive(session, session, l)
    /\ UNCHANGED <<resource, input, gate, alive, answers>>

DrawFails ==
    /\ resource.concurrency \notin 1 .. Cardinality(Choosable(resource))
    /\ C!DrawFails(session)
    /\ UNCHANGED <<resource, input, gate, alive, answers>>

Dispatch ==
    /\ C!Dispatch(session) /\ G!Open(session, Chosen)
    /\ UNCHANGED <<resource, input, alive, answers>>

(* The egress proxy answered the start with an error, and has no session;  *)
(* this is logged and no more.                                             *)
DispatchRefused ==
    /\ resource.concurrency > 1
    /\ C!Dispatch(session)
    /\ UNCHANGED <<resource, input, gate, alive, answers>>

Serving(s) == pc = "running" /\ s \in Chosen /\ attempt[session].reply[s] = None

Call(s) ==
    /\ Serving(s) /\ ~Outstanding(s) /\ NextCall(s) # None
    /\ G!Ask(session, s, NextCall(s))
    /\ UNCHANGED <<resource, input, attempt, alive, answers>>

(* Without a session every call is answered with an error, that of a       *)
(* lookup like one of a stranger.                                          *)
CallUnserved(s) ==
    /\ Serving(s) /\ members[session] = {} /\ NextCall(s) # None
    /\ answers' = [answers EXCEPT ![s] = Append(@, None)]
    /\ UNCHANGED <<resource, input, attempt, gate, alive>>

Reply(s) ==
    /\ Serving(s) /\ ~Outstanding(s) /\ NextCall(s) = None
    /\ C!VariantReplies(session, s, IF Final(s) = None THEN Crash ELSE Final(s).message)
    /\ UNCHANGED <<resource, input, gate, alive, answers>>

Complete ==
    /\ members[session] # {}
    /\ \A s \in members[session] : Len(asked[session][s]) > Len(decided[session])

Round ==
    /\ pc \in {"running", "closing"} /\ alive
    /\ G!Decide(session)
    /\ UNCHANGED <<resource, input, attempt, alive, answers>>

(* A destination cannot be reached: the exception ends the egress proxy's  *)
(* task, and nobody gets a response any more.                              *)
RoundFails ==
    /\ pc = "running" /\ alive /\ Complete /\ resource.concurrency > 1
    /\ alive' = FALSE
    /\ UNCHANGED <<resource, input, attempt, gate, answers>>

(* What the destination answered to the calls of a round: the id of a user *)
(* the database knows, if the calls were approved.  A lookup that fails is *)
(* like one of a stranger.                                                 *)
Result(n) ==
    LET ids == {id \in Users : \E s \in members[session] : asked[session][s][n] = Lookup(id)}
    IN  IF decided[session][n] /\ ids # {} THEN CHOOSE id \in ids : TRUE ELSE None

(* The response of the next round reaches a call that was given up, or the *)
(* one that waits, which may be ahead of it (egress-proxy/main.py:68).     *)
Received(s) ==
    \/ /\ Len(answers[s]) > Len(told[session][s])
       /\ UNCHANGED answers
    \/ /\ Outstanding(s)
       /\ answers' = [answers EXCEPT ![s] = Append(@, Result(Len(told[session][s]) + 1))]

Respond(s) ==
    /\ Serving(s) /\ G!Tell(session, s) /\ Received(s)
    /\ UNCHANGED <<resource, input, attempt, alive>>

(* Calls that a sidecar gave up. *)
GaveUp == {p \in VariantNames \X (1 .. 3) : p[2] \in DOMAIN answers[p[1]] /\ answers[p[1]][p[2]] = TimedOut}

(* Every variant drawn has replied, or has had all the responses there are *)
(* and waits for one that will not come unless another calls.              *)
Quiet ==
    /\ \A s \in Chosen : Serving(s) => Outstanding(s) /\ Len(told[session][s]) = Len(decided[session])
    /\ alive => ~Complete

(* Mutant of GiveUp: no timeout. *)
WaitOn(s) == FALSE

GiveUp(s) ==
    /\ Serving(s) /\ Outstanding(s) /\ resource.concurrency > 1
    /\ Quiet \/ Cardinality(GaveUp) < MaxTimeouts
    /\ answers' = [answers EXCEPT ![s] = Append(@, TimedOut)]
    /\ UNCHANGED <<resource, input, attempt, gate, alive>>

(* All have replied; the session is stopped, and the caller is answered.   *)
Conclude ==
    /\ C!Verify(session) \/ C!Close(session) \/ C!Report(session)
    /\ UNCHANGED <<resource, input, gate, alive, answers>>

Next ==
    \/ Edit \/ Receive \/ DrawFails \/ Dispatch \/ DispatchRefused
    \/ Round \/ RoundFails \/ Conclude
    \/ \E s \in VariantNames : Call(s) \/ CallUnserved(s) \/ Reply(s) \/ Respond(s) \/ GiveUp(s)

Spec == Init /\ [][Next]_vars

(* Chooser, variants and timers of sidecars go on when they can.  The      *)
(* egress proxy decides a complete round or its task fails, and passes the *)
(* response on, as EgressProxy shows.                                      *)
FairSpec ==
    /\ Spec
    /\ WF_vars(Dispatch \/ DispatchRefused) /\ WF_vars(Conclude) /\ WF_vars(Round \/ RoundFails)
    /\ \A s \in VariantNames :
          /\ WF_vars(Call(s) \/ CallUnserved(s) \/ Reply(s))
          /\ WF_vars(Respond(s)) /\ WF_vars(GiveUp(s))

-----------------------------------------------------------------------------
(* Properties.                                                             *)

Forwarded(n) ==
    {x \in Events : /\ decided[session][n] /\ x.message = "Forwarded"
                    /\ \E s \in members[session] : asked[session][s][n] = x}

(* What an amount is: what is no number, or one to some languages only,    *)
(* is not to be had without an OTP.                                        *)
Worth(amount) == Read(amount, {"small"}, {"large", "infinite", "binary", "huge"})

(* The clients and the amount, or the token, are what a transaction needs. *)
Justified(x) ==
    IF resource.identity = "authorization"
    THEN input.token \in {"granted", "lowercase"} /\ x.client = input.holder
    ELSE /\ Worth(input.amount) = "small" \/ (Worth(input.amount) = "large" /\ input.otp)
         /\ x.from = input.client /\ x.to = input.destination
         /\ {x.from, x.to} \subseteq Users

Amount(s) ==
    CASE s = "go"     -> GoAmount(input.amount)
      [] s = "java"   -> JavaAmount(input.amount)
      [] s = "js"     -> JsAmount(input.amount)
      [] s = "php"    -> PhpAmount(input.amount)
      [] s = "python" -> PythonAmount(input.amount)

(* Languages that read the amount of this request for what it is, or that  *)
(* take no name from the body of a request.                                *)
Careful ==
    IF resource.identity = "authorization"
    THEN Languages \ {"python"}
    ELSE {s \in Languages : Amount(s) = Worth(input.amount)}

(* If one of the variants drawn is careful, an event that starts a         *)
(* transaction (or its verification) is one that the request justifies,    *)
(* with the ids of its own clients, although sidecars give up and answers  *)
(* come late, so that what a variant takes for the answer to one call may  *)
(* be the answer to another (verify_transaction.go:128-134,                *)
(* egress-proxy/main.py:68).  Go or Java is careful for every amount but   *)
(* "NaN", which JavaScript alone refuses (verify_transaction.go:90, 118).  *)
EffectsJustified ==
    Chosen \cap Careful # {} =>
        \A n \in DOMAIN decided[session] : \A x \in Forwarded(n) : Justified(x)

(* A request the languages drawn read alike: they differ on strange        *)
(* amounts, on an empty name and on "bearer"; Python has an order of its   *)
(* own for the verdicts of verify-transaction, and its authorization       *)
(* differs on more.                                                        *)
Plain ==
    IF resource.identity = "authorization"
    THEN input.token # "lowercase" /\ "python" \notin Chosen
    ELSE /\ input.destination \in Names
         /\ \/ input.amount = "small"
            \/ input.amount = "large" /\ (input.otp \/ "python" \notin Chosen)

(* Variants in whatever languages agree on a plain request: unless a       *)
(* sidecar gives up, every call of theirs is approved and their replies    *)
(* are the same.  They make equal calls in equal number, so none waits for *)
(* a call another never makes (egress-proxy/main.py:75-76).                *)
PlainRequestsAgree ==
    Plain /\ GaveUp = {} =>
        /\ \A n \in DOMAIN decided[session] : decided[session][n]
        /\ pc \in {"closing", "reporting", "answered"} => attempt[session].verified

(* A verified reply tells what was sent: if the session was started, the   *)
(* last call of a variant is an event with its verdict, and was approved   *)
(* or refused unless that variant's own sidecar gave up, whatever those of *)
(* the others did (chooser.py:71-84).  After a start that was refused,     *)
(* which is only logged (chooser.py:140-141), variants reply as well,      *)
(* about an event that was never decided.                                  *)
RepliesTellTheEvent ==
    pc = "answered" /\ attempt[session].verified /\ members[session] # {} =>
        \A s \in Chosen : attempt[session].reply[s] # Crash =>
            LET calls == asked[session][s]
            IN  /\ calls # <<>>
                /\ calls[Len(calls)] \in Events
                /\ calls[Len(calls)].message = attempt[session].reply[s]
                /\ (\A n \in DOMAIN answers[s] : answers[s][n] # TimedOut) =>
                        Len(decided[session]) = Len(calls)

(* A resource that was admitted can be served, unless its concurrency is   *)
(* no positive number or it names a variant twice: nothing else makes the  *)
(* draw fail (mofaasfunction_webhook.go:116-121, chooser.py:43).           *)
AdmittedDraws ==
    pc = "failed" =>
        \/ resource.concurrency < 1
        \/ \E i, j \in DOMAIN resource.variants : i # j /\ resource.variants[i] = resource.variants[j]

(* Whatever several variants do, and even if the egress proxy's task dies, *)
(* the caller is answered in the end: a variant that waits for a response  *)
(* that cannot come is freed by its sidecar (egress-proxy/main.py:68, 76,  *)
(* mofaas-contoller/config/envoy/envoy.yaml:20-27).                        *)
RequestAnswered == pc = "starting" /\ resource.concurrency > 1 ~> pc = "answered"
=============================================================================
