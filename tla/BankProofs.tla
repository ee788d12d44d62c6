------------------------------ MODULE BankProofs ------------------------------
(***************************************************************************)
(* One careful variant is enough: whatever requests, clients and variants  *)
(* there are, whichever variants are drawn, and whenever sidecars give up, *)
(* no transaction starts that the request does not justify.                *)
(***************************************************************************)
EXTENDS BankDeployment, TLAPS, SequenceTheorems, FiniteSetTheorems

-----------------------------------------------------------------------------
(* The inductive invariant: what relates the lists of a session.           *)

(* The members of the session are the variants drawn.                      *)
SessionIsDraw ==
    /\ pc \in {"none", "starting"} => members[session] = {}
    /\ members[session] \in {{}, Chosen}
    /\ members[session] = {} => decided[session] = <<>>

(* Before a session is started, and when its start was refused, nothing    *)
(* was asked, and no variant got an answer but an error.                   *)
Unasked ==
    /\ pc \in {"none", "starting"} => \A s \in VariantNames : answers[s] = <<>>
    /\ members[session] = {} =>
           \A s \in VariantNames : /\ asked[session][s] = <<>>
                                   /\ \A n \in DOMAIN answers[s] : answers[s][n] = None

(* A round that was decided compared a call of every member.               *)
RoundsCompared ==
    \A n \in DOMAIN decided[session] :
        /\ \A s \in members[session] : n <= Len(asked[session][s])
        /\ decided[session][n] =>
               \A s, t \in members[session] : asked[session][s][n] = asked[session][t][n]

(* A variant makes one call after the other: its lookups in their order,   *)
(* then its event, which is made of what it got for the lookups.           *)
CallsInOrder(s) ==
    /\ members[session] # {} => Len(answers[s]) <= Len(asked[session][s])
    /\ Len(asked[session][s]) <= Len(answers[s]) + 1
    /\ \A n \in DOMAIN asked[session][s] :
          \/ /\ n <= Len(ToLookUp(s))
             /\ asked[session][s][n] = Lookup(ToLookUp(s)[n])
          \/ /\ n = Len(ToLookUp(s)) + 1 /\ Len(ToLookUp(s)) <= Len(answers[s])
             /\ asked[session][s][n] = Final(s)

(* Until its sidecar gives up for the first time, a variant gets for each  *)
(* call the result of that call's round.                                   *)
InStep(s, n) == \A j \in 1 .. n : answers[s][j] # TimedOut

AnswersInStep(s) ==
    /\ Len(told[session][s]) <= Len(answers[s])
    /\ Len(told[session][s]) <= Len(decided[session])
    /\ \A n \in DOMAIN answers[s] :
          members[session] # {} /\ InStep(s, n) =>
              n <= Len(told[session][s]) /\ answers[s][n] = Result(n)

IInv ==
    /\ BankTypeOK /\ SessionIsDraw /\ Unasked /\ RoundsCompared
    /\ \A s \in VariantNames : CallsInOrder(s) /\ AnswersInStep(s)

-----------------------------------------------------------------------------
(* Types.                                                                  *)

LookedUp == Names \cup {Absent, EmptyString}
Ids      == Users \cup {None, TimedOut}

(* An order, or a request, is well-formed whichever the identity is.       *)
LEMMA InputTyped ==
    ASSUME BankTypeOK
    PROVE  /\ resource \in Resources
           /\ resource.identity \in {"verify-transaction", "authorization"}
           /\ resource.identity = "verify-transaction" => input \in Order
           /\ resource.identity = "authorization" => input \in Request
<1>1. resource \in Resources BY DEF BankTypeOK
<1>2. resource.identity \in Identities BY <1>1, ResourcesAssumption
<1>3. resource.identity \in {"verify-transaction", "authorization"}
  BY <1>2, BankAssumption
<1>4. input \in IF resource.identity = "authorization" THEN Requests ELSE Orders
  BY DEF BankTypeOK
<1>5. ASSUME resource.identity = "verify-transaction" PROVE input \in Order
  <2>1. input \in Orders BY <1>4, <1>5
  <2> QED BY <2>1, BankAssumption
<1>6. ASSUME resource.identity = "authorization" PROVE input \in Request
  <2>1. input \in Requests BY <1>4, <1>6
  <2> QED BY <2>1, BankAssumption
<1> QED BY <1>1, <1>3, <1>5, <1>6

(* What a variant looks up: one or two names, or none in authorization.    *)
LEMMA LookUpsTyped ==
    ASSUME BankTypeOK, NEW s \in VariantNames
    PROVE  /\ ToLookUp(s) \in Seq(LookedUp)
           /\ Len(ToLookUp(s)) \in 0 .. 2
<1>1. s \in Languages BY BankAssumption
<1>2. CASE resource.identity = "authorization"
  <2>1. ToLookUp(s) = <<>> BY <1>2 DEF ToLookUp
  <2> QED BY <2>1
<1>3. CASE resource.identity # "authorization"
  <2>1. input \in Order BY <1>3, InputTyped
  <2>2. input.client \in LookedUp /\ input.destination \in LookedUp
    BY <2>1 DEF Order, LookedUp
  <2>3. \E skipped : ToLookUp(s) = Lookups(input, skipped)
    BY <1>1, <1>3
    DEF ToLookUp, Languages, GoLookups, JavaLookups, JsLookups, PhpLookups, PythonLookups
  <2>4. ToLookUp(s) = <<input.client>> \/ ToLookUp(s) = <<input.client, input.destination>>
    BY <2>3 DEF Lookups
  <2>5. Len(<<input.client>>) = 1 /\ Len(<<input.client, input.destination>>) = 2 OBVIOUS
  <2>6. ToLookUp(s) \in Seq(LookedUp)
    <3>1. \A a, b \in LookedUp : <<a>> \in Seq(LookedUp) /\ <<a, b>> \in Seq(LookedUp) OBVIOUS
    <3>2. <<input.client>> \in Seq(LookedUp) /\ <<input.client, input.destination>> \in Seq(LookedUp)
      BY <2>2, <3>1
    <3>3. CASE ToLookUp(s) = <<input.client>> BY <3>2, <3>3
    <3>4. CASE ToLookUp(s) = <<input.client, input.destination>> BY <3>2, <3>4
    <3> QED BY <2>4, <3>3, <3>4
  <2>7. Len(ToLookUp(s)) \in 0 .. 2 BY <2>4, <2>5
  <2> QED BY <2>6, <2>7
<1> QED BY <1>2, <1>3

LEMMA IdTyped ==
    ASSUME BankTypeOK, NEW s \in VariantNames, NEW n \in {1, 2},
           Len(ToLookUp(s)) <= Len(answers[s])
    PROVE  Id(s, n) \in Users \cup {None}
<1>1. answers[s] \in Seq(Ids) BY DEF BankTypeOK, Ids
<1>2. Len(ToLookUp(s)) \in 0 .. 2 BY LookUpsTyped
<1>3. CASE n <= Len(ToLookUp(s))
  <2>1. n \in 1 .. Len(answers[s]) BY <1>1, <1>2, <1>3, LenProperties
  <2>2. answers[s][n] \in Ids BY <1>1, <2>1, ElementOfSeq
  <2> QED BY <2>2 DEF Id, Ids
<1>4. CASE ~(n <= Len(ToLookUp(s))) BY <1>4 DEF Id
<1> QED BY <1>3, <1>4

LEMMA VerdictTyped ==
    ASSUME NEW amount, NEW order \in Order, NEW found
    PROVE  Verdict(amount, order, found) \in Messages
BY DEF Verdict, Messages

LEMMA FinalTyped ==
    ASSUME BankTypeOK, NEW s \in VariantNames, Len(ToLookUp(s)) <= Len(answers[s])
    PROVE  Final(s) \in Events \cup {None}
<1>1. s \in Languages BY BankAssumption
<1>2. CASE resource.identity = "authorization"
  <2>1. input \in Request BY <1>2, InputTyped
  <2>2. Final(s) \in {GoEvent(input), JavaEvent(input), JsEvent(input),
                      PhpEvent(input), PythonEvent(input)}
    BY <1>1, <1>2 DEF Final, Languages
  <2>3. \A bearer \in BOOLEAN : Judged(input, bearer) \in Event
    BY <2>1 DEF Judged, Request, Event
  <2>4. PythonEvent(input) \in Event \cup {None}
    <3>1. input.holder \in Users /\ input.named \in Users \cup {Absent} BY <2>1 DEF Request
    <3> QED BY <2>3, <3>1 DEF PythonEvent, Event
  <2> QED BY <2>2, <2>3, <2>4
          DEF Events, GoEvent, JavaEvent, JsEvent, PhpEvent
<1>3. CASE resource.identity # "authorization"
  <2>1. input \in Order /\ resource.identity = "verify-transaction" BY <1>3, InputTyped
  <2>2. Id(s, 1) \in Users \cup {None} /\ Id(s, 2) \in Users \cup {None} BY IdTyped
  <2> DEFINE found == [from |-> Id(s, 1), to |-> Id(s, 2)]
  <2>3. \E m \in {GoVerdict(input, found), JavaVerdict(input, found), JsVerdict(input, found),
                  PhpVerdict(input, found), PythonVerdict(input, found)} :
           Final(s) = [message |-> m, from |-> found.from, to |-> found.to]
    BY <1>1, <2>1 DEF Final, Languages
  <2>4. \A m \in {GoVerdict(input, found), JavaVerdict(input, found), JsVerdict(input, found),
                  PhpVerdict(input, found), PythonVerdict(input, found)} : m \in Messages
    BY <2>1, VerdictTyped
    DEF GoVerdict, JavaVerdict, JsVerdict, PhpVerdict, PythonVerdict, Messages
  <2> QED BY <2>2, <2>3, <2>4 DEF Events, Verified
<1> QED BY <1>2, <1>3

LEMMA ResultTyped == ASSUME NEW n PROVE Result(n) \in Users \cup {None}
<1> DEFINE ids == {id \in Users : \E s \in members[session] : asked[session][s][n] = Lookup(id)}
<1>1. CASE ids # {}
  <2>1. (CHOOSE id \in ids : TRUE) \in ids BY <1>1
  <2> QED BY <2>1 DEF Result
<1>2. CASE ids = {} BY <1>2 DEF Result
<1> QED BY <1>1, <1>2

LEMMA AttemptTyped ==
    ASSUME BankTypeOK
    PROVE  /\ attempt \in [{session} -> C!Attempt]
           /\ attempt[session] \in C!Attempt
           /\ Chosen \subseteq VariantNames
<1>1. attempt \in [{session} -> C!Attempt] BY DEF BankTypeOK, C!AttemptTypeOK
<1>2. attempt[session] \in C!Attempt BY <1>1
<1>3. attempt[session].chosen \in Seq(VariantNames) BY <1>2 DEF C!Attempt
<1>4. Chosen \subseteq VariantNames BY <1>3, ElementOfSeq DEF Chosen, C!Chosen
<1> QED BY <1>1, <1>2, <1>4

LEMMA InitTyped == Init => BankTypeOK
<1> SUFFICES ASSUME Init PROVE BankTypeOK OBVIOUS
<1>1. resource \in Resources BY DEF Init
<1>2. C!AttemptTypeOK
  BY DEF Init, C!ChooserInit, C!AttemptTypeOK, C!Attempt, C!AttemptPCs
<1>3. input \in IF resource.identity = "authorization" THEN Requests ELSE Orders BY DEF Init
<1>4. /\ members \in [{session} -> SUBSET VariantNames]
      /\ asked \in [{session} -> [VariantNames -> Seq(Calls)]]
      /\ decided \in [{session} -> Seq(BOOLEAN)]
      /\ told \in [{session} -> [VariantNames -> Seq(Nat)]]
  BY DEF Init, G!GateInit
<1>5. alive \in BOOLEAN BY DEF Init
<1>6. answers \in [VariantNames -> Seq(Users \cup {None, TimedOut})] BY DEF Init
<1> QED BY <1>1, <1>2, <1>3, <1>4, <1>5, <1>6 DEF BankTypeOK

(* What a variant asks next is a call. *)
LEMMA NextCallTyped ==
    ASSUME BankTypeOK, NEW s \in VariantNames
    PROVE  NextCall(s) \in Calls \cup {None}
<1> DEFINE n == Len(answers[s]) + 1
<1>1. answers[s] \in Seq(Ids) BY DEF BankTypeOK, Ids
<1>2. Len(answers[s]) \in Nat BY <1>1, LenProperties
<1>3. ToLookUp(s) \in Seq(LookedUp) /\ Len(ToLookUp(s)) \in 0 .. 2 BY LookUpsTyped
<1>4. CASE n <= Len(ToLookUp(s))
  <2>1. n \in 1 .. Len(ToLookUp(s)) BY <1>2, <1>3, <1>4
  <2>2. ToLookUp(s)[n] \in LookedUp BY <1>3, <2>1, ElementOfSeq
  <2>3. NextCall(s) = Lookup(ToLookUp(s)[n]) BY <1>4 DEF NextCall
  <2> QED BY <2>2, <2>3 DEF Calls, LookedUp
<1>5. CASE n = Len(ToLookUp(s)) + 1
  <2>1. Len(ToLookUp(s)) <= Len(answers[s]) BY <1>2, <1>3, <1>5
  <2>2. Final(s) \in Events \cup {None} BY <2>1, FinalTyped
  <2>3. NextCall(s) = Final(s) BY <1>2, <1>3, <1>5 DEF NextCall
  <2> QED BY <2>2, <2>3 DEF Calls
<1>6. CASE ~(n <= Len(ToLookUp(s))) /\ n # Len(ToLookUp(s)) + 1 BY <1>6 DEF NextCall
<1> QED BY <1>4, <1>5, <1>6

(* A variant that has nothing more to ask replies with the verdict it sent *)
(* or has crashed.                                                         *)
LEMMA ReplyTyped ==
    ASSUME BankTypeOK, NEW s \in VariantNames, NextCall(s) = None
    PROVE  (IF Final(s) = None THEN Crash ELSE Final(s).message)
               \in {e.message : e \in Events} \cup {Crash}
<1>1. answers[s] \in Seq(Ids) BY DEF BankTypeOK, Ids
<1>2. Len(answers[s]) \in Nat BY <1>1, LenProperties
<1>3. ToLookUp(s) \in Seq(LookedUp) /\ Len(ToLookUp(s)) \in 0 .. 2 BY LookUpsTyped
<1>4. ~(Len(answers[s]) + 1 <= Len(ToLookUp(s)))
  <2> SUFFICES ASSUME Len(answers[s]) + 1 <= Len(ToLookUp(s)) PROVE FALSE OBVIOUS
  <2>1. Len(answers[s]) + 1 \in 1 .. Len(ToLookUp(s)) BY <1>2, <1>3
  <2>2. ToLookUp(s)[Len(answers[s]) + 1] \in LookedUp BY <1>3, <2>1, ElementOfSeq
  <2>3. Lookup(ToLookUp(s)[Len(answers[s]) + 1]) \in Calls BY <2>2 DEF Calls, LookedUp
  <2>4. NextCall(s) = Lookup(ToLookUp(s)[Len(answers[s]) + 1]) BY DEF NextCall
  <2> QED BY <2>3, <2>4, CallsAssumption
<1>5. Len(ToLookUp(s)) <= Len(answers[s]) BY <1>2, <1>3, <1>4
<1>6. Final(s) \in Events \cup {None} BY <1>5, FinalTyped
<1> QED BY <1>6

(* Each action changes some of the variables and keeps their types. *)
LEMMA TypeKept == BankTypeOK /\ [Next]_vars => BankTypeOK'
<1> SUFFICES ASSUME BankTypeOK, [Next]_vars PROVE BankTypeOK' OBVIOUS
<1> DEFINE A  == attempt' \in [{session} -> C!Attempt]
           R  == /\ resource' \in Resources
                 /\ input' \in IF resource'.identity = "authorization" THEN Requests ELSE Orders
           M  == members' \in [{session} -> SUBSET VariantNames]
           K  == asked' \in [{session} -> [VariantNames -> Seq(Calls)]]
           D  == decided' \in [{session} -> Seq(BOOLEAN)]
           T  == told' \in [{session} -> [VariantNames -> Seq(Nat)]]
           L  == alive' \in BOOLEAN
           W  == answers' \in [VariantNames -> Seq(Users \cup {None, TimedOut})]
<1>0. SUFFICES A /\ R /\ M /\ K /\ D /\ T /\ L /\ W
  BY DEF BankTypeOK, C!AttemptTypeOK
<1>a. /\ attempt' = attempt => A
      /\ resource' = resource /\ input' = input => R
      /\ members' = members => M
      /\ asked' = asked => K
      /\ decided' = decided => D
      /\ told' = told => T
      /\ alive' = alive => L
      /\ answers' = answers => W
  BY DEF BankTypeOK, C!AttemptTypeOK
<1>b. attempt \in [{session} -> C!Attempt] /\ attempt[session] \in C!Attempt BY AttemptTyped
<1> HIDE DEF A, R, M, K, D, T, L, W
<1>1. CASE Edit
  <2>1. resource' \in Resources /\ resource'.identity = resource.identity
    BY <1>1 DEF Edit, ValidateUpdate
  <2>2. R BY <1>1, <2>1 DEF R, Edit, BankTypeOK
  <2> QED BY <1>1, <1>a, <2>2 DEF Edit, gate
<1>2. CASE Receive
  <2>1. PICK l \in C!Samples(Choosable(resource), resource.concurrency) :
            l # <<>> /\ C!Receive(session, session, l)
    BY <1>2 DEF Receive
  <2>2. resource \in Resources BY InputTyped
  <2>3. resource.variants \in Seq(VariantNames) /\ resource.concurrency \in Int
    BY <2>2, ResourcesAssumption
  <2>4. Choosable(resource) \subseteq VariantNames BY <2>3, ElementOfSeq DEF Choosable
  <2>5. l \in [1 .. resource.concurrency -> VariantNames] BY <2>1, <2>4 DEF C!Samples
  <2>6. l \in Seq(VariantNames)
    <3>1. CASE resource.concurrency \in Nat BY <2>5, <3>1, SeqDef
    <3>2. CASE resource.concurrency \notin Nat
      <4>1. 1 .. resource.concurrency = {} BY <2>3, <3>2
      <4>2. 1 .. resource.concurrency = 1 .. 0 BY <4>1
      <4>3. l \in [1 .. 0 -> VariantNames] BY <2>5, <4>2
      <4> QED BY <4>3, SeqDef
    <3> QED BY <3>1, <3>2
  <2>7. attempt' = [attempt EXCEPT ![session].pc = "starting", ![session].id = session,
                                   ![session].chosen = l]
    BY <2>1 DEF C!Receive
  <2>8. A BY <1>b, <2>6, <2>7 DEF A, C!Attempt, C!AttemptPCs
  <2> QED BY <1>2, <1>a, <2>8 DEF Receive, gate
<1>3. CASE DrawFails
  <2>1. attempt' = [attempt EXCEPT ![session].pc = "failed"] BY <1>3 DEF DrawFails, C!DrawFails
  <2>2. A BY <1>b, <2>1 DEF A, C!Attempt, C!AttemptPCs
  <2> QED BY <1>3, <1>a, <2>2 DEF DrawFails, gate
<1>4. CASE Dispatch
  <2>1. attempt' = [attempt EXCEPT ![session].pc = "running"] BY <1>4 DEF Dispatch, C!Dispatch
  <2>2. A BY <1>b, <2>1 DEF A, C!Attempt, C!AttemptPCs
  <2>3. members' = [members EXCEPT ![session] = Chosen] BY <1>4 DEF Dispatch, G!Open
  <2>4. M BY <2>3, AttemptTyped DEF M, BankTypeOK
  <2> QED BY <1>4, <1>a, <2>2, <2>4 DEF Dispatch, G!Open
<1>4a. CASE DispatchRefused
  <2>1. attempt' = [attempt EXCEPT ![session].pc = "running"]
    BY <1>4a DEF DispatchRefused, C!Dispatch
  <2>2. A BY <1>b, <2>1 DEF A, C!Attempt, C!AttemptPCs
  <2> QED BY <1>4a, <1>a, <2>2 DEF DispatchRefused, gate
<1>5. CASE Round
  <2>1. decided' = [decided EXCEPT ![session] =
            Append(@, \A s, t \in members[session] :
                          asked[session][s][Len(decided[session]) + 1]
                              = asked[session][t][Len(decided[session]) + 1])]
    BY <1>5 DEF Round, G!Decide
  <2>2. PICK b \in BOOLEAN : decided' = [decided EXCEPT ![session] = Append(@, b)] BY <2>1
  <2>3. D BY <2>2 DEF D, BankTypeOK
  <2> QED BY <1>5, <1>a, <2>3 DEF Round, G!Decide
<1>6. CASE RoundFails
  <2>1. L BY <1>6 DEF L, RoundFails
  <2> QED BY <1>6, <1>a, <2>1 DEF RoundFails, gate
<1>7. CASE Conclude
  <2>1. PICK b \in BOOLEAN, p \in C!AttemptPCs :
            attempt' = [attempt EXCEPT ![session].pc = p, ![session].verified = b]
    <3>1. CASE C!Verify(session)
      BY <3>1 DEF C!Verify, C!Agreed, C!AttemptPCs
    <3>2. CASE C!Close(session)
      BY <1>b, <3>2 DEF C!Close, C!Attempt, C!AttemptPCs
    <3>3. CASE C!Report(session)
      BY <1>b, <3>3 DEF C!Report, C!Attempt, C!AttemptPCs
    <3> QED BY <1>7, <3>1, <3>2, <3>3 DEF Conclude
  <2>2. A BY <1>b, <2>1 DEF A, C!Attempt
  <2> QED BY <1>7, <1>a, <2>2 DEF Conclude, gate
<1>8. ASSUME NEW s \in VariantNames, Call(s) PROVE A /\ R /\ M /\ K /\ D /\ T /\ L /\ W
  <2>1. asked' = [asked EXCEPT ![session][s] = Append(@, NextCall(s))] BY <1>8 DEF Call, G!Ask
  <2>2. NextCall(s) \in Calls BY <1>8, NextCallTyped DEF Call
  <2>3. K BY <2>1, <2>2 DEF K, BankTypeOK
  <2> QED BY <1>8, <1>a, <2>3 DEF Call, G!Ask
<1>9. ASSUME NEW s \in VariantNames, Reply(s) PROVE A /\ R /\ M /\ K /\ D /\ T /\ L /\ W
  <2> DEFINE r == IF Final(s) = None THEN Crash ELSE Final(s).message
  <2>1. attempt' = [attempt EXCEPT ![session].reply[s] = r] BY <1>9 DEF Reply, C!VariantReplies
  <2>2. r \in {e.message : e \in Events} \cup {Crash} BY <1>9, ReplyTyped DEF Reply
  <2> HIDE DEF r
  <2>3. A BY <1>b, <2>1, <2>2 DEF A, C!Attempt
  <2> QED BY <1>9, <1>a, <2>3 DEF Reply, gate
<1>10. ASSUME NEW s \in VariantNames, Respond(s) PROVE A /\ R /\ M /\ K /\ D /\ T /\ L /\ W
  <2>1. told' = [told EXCEPT ![session][s] = Append(@, Len(@) + 1)] BY <1>10 DEF Respond, G!Tell
  <2>2. told[session][s] \in Seq(Nat) BY DEF BankTypeOK
  <2>3. Len(told[session][s]) + 1 \in Nat BY <2>2, LenProperties
  <2>4. PICK k \in Nat : told' = [told EXCEPT ![session][s] = Append(@, k)] BY <2>1, <2>3
  <2>5. T BY <2>4 DEF T, BankTypeOK
  <2>6. W
    <3>1. CASE UNCHANGED answers BY <3>1, <1>a
    <3>2. CASE answers' = [answers EXCEPT ![s] = Append(@, Result(Len(told[session][s]) + 1))]
      <4>1. PICK a \in Users \cup {None, TimedOut} : answers' = [answers EXCEPT ![s] = Append(@, a)]
        BY <3>2, ResultTyped
      <4> QED BY <4>1 DEF W, BankTypeOK
    <3> QED BY <1>10, <3>1, <3>2 DEF Respond, Received
  <2> QED BY <1>10, <1>a, <2>5, <2>6 DEF Respond, G!Tell
<1>11. ASSUME NEW s \in VariantNames, GiveUp(s) PROVE A /\ R /\ M /\ K /\ D /\ T /\ L /\ W
  <2>1. answers' = [answers EXCEPT ![s] = Append(@, TimedOut)] BY <1>11 DEF GiveUp
  <2>2. W BY <2>1 DEF W, BankTypeOK
  <2> QED BY <1>11, <1>a, <2>2 DEF GiveUp, gate
<1>11a. ASSUME NEW s \in VariantNames, CallUnserved(s) PROVE A /\ R /\ M /\ K /\ D /\ T /\ L /\ W
  <2>1. answers' = [answers EXCEPT ![s] = Append(@, None)] BY <1>11a DEF CallUnserved
  <2>2. W BY <2>1 DEF W, BankTypeOK
  <2> QED BY <1>11a, <1>a, <2>2 DEF CallUnserved, gate
<1>12. CASE UNCHANGED vars BY <1>12, <1>a DEF vars, gate
<1> QED BY <1>1, <1>2, <1>3, <1>4, <1>4a, <1>5, <1>6, <1>7, <1>8, <1>9, <1>10, <1>11,
        <1>11a, <1>12 DEF Next

(* Resource, request, session and answers keep their types (chooser.py,    *)
(* egress-proxy/main.py and the functions of src/apps/bank): every verdict *)
(* a variant reaches and every id it works with is one of those foreseen.  *)
THEOREM TypeCorrect == Spec => []BankTypeOK
<1>1. Init => BankTypeOK BY InitTyped
<1>2. BankTypeOK /\ [Next]_vars => BankTypeOK' BY TypeKept
<1> QED BY <1>1, <1>2, PTL DEF Spec

-----------------------------------------------------------------------------
(* What a step leaves alone.                                               *)

(* The longer list begins with the shorter.                                *)
Begins(new, old) ==
    /\ Len(old) <= Len(new)
    /\ \A n \in 1 .. Len(old) : new[n] = old[n]

LEMMA AppendBegins ==
    ASSUME NEW S, NEW l \in Seq(S), NEW e \in S
    PROVE  /\ Begins(Append(l, e), l) /\ Begins(l, l)
           /\ Len(Append(l, e)) = Len(l) + 1
           /\ Append(l, e)[Len(l) + 1] = e
<1>1. Len(l) \in Nat BY LenProperties
<1>2. Len(Append(l, e)) = Len(l) + 1 /\ Append(l, e)[Len(l) + 1] = e
  BY AppendProperties
<1>3. \A n \in 1 .. Len(l) : Append(l, e)[n] = l[n] BY AppendProperties
<1> QED BY <1>1, <1>2, <1>3 DEF Begins

LEMMA Lists ==
    ASSUME BankTypeOK, NEW s \in VariantNames
    PROVE  /\ asked[session][s] \in Seq(Calls) /\ Len(asked[session][s]) \in Nat
           /\ told[session][s] \in Seq(Nat) /\ Len(told[session][s]) \in Nat
           /\ answers[s] \in Seq(Ids) /\ Len(answers[s]) \in Nat
           /\ decided[session] \in Seq(BOOLEAN) /\ Len(decided[session]) \in Nat
           /\ DOMAIN asked[session][s] = 1 .. Len(asked[session][s])
           /\ DOMAIN answers[s] = 1 .. Len(answers[s])
           /\ DOMAIN decided[session] = 1 .. Len(decided[session])
<1>1. /\ asked[session][s] \in Seq(Calls) /\ told[session][s] \in Seq(Nat)
      /\ answers[s] \in Seq(Ids) /\ decided[session] \in Seq(BOOLEAN)
  BY DEF BankTypeOK, Ids
<1> QED BY <1>1, LenProperties

(* What a variant may go through in a step. *)
Stays(s) ==
    /\ asked'[session][s] = asked[session][s] /\ answers'[s] = answers[s]
    /\ told'[session][s] = told[session][s]

Asks(s) ==
    /\ members[session] # {} /\ Len(answers[s]) = Len(asked[session][s]) /\ NextCall(s) \in Calls
    /\ asked'[session][s] = Append(asked[session][s], NextCall(s))
    /\ answers'[s] = answers[s] /\ told'[session][s] = told[session][s]

Learns(s) ==
    /\ Len(told[session][s]) < Len(decided[session])
    /\ told'[session][s] = Append(told[session][s], Len(told[session][s]) + 1)
    /\ asked'[session][s] = asked[session][s]

GetsLate(s) ==
    /\ Learns(s)
    /\ Len(answers[s]) > Len(told[session][s]) /\ answers'[s] = answers[s]

Gets(s) ==
    /\ Learns(s) /\ Outstanding(s)
    /\ answers'[s] = Append(answers[s], Result(Len(told[session][s]) + 1))

Quits(s) ==
    /\ Outstanding(s) /\ answers'[s] = Append(answers[s], TimedOut)
    /\ asked'[session][s] = asked[session][s] /\ told'[session][s] = told[session][s]

Misses(s) ==
    /\ pc = "running" /\ members[session] = {} /\ members' = members
    /\ answers'[s] = Append(answers[s], None)
    /\ asked'[session][s] = asked[session][s] /\ told'[session][s] = told[session][s]

LEMMA LocalStep ==
    ASSUME IInv, [Next]_vars, NEW s \in VariantNames
    PROVE  Stays(s) \/ Asks(s) \/ GetsLate(s) \/ Gets(s) \/ Quits(s) \/ Misses(s)
<1>0. BankTypeOK BY DEF IInv
<1>a. /\ asked \in [{session} -> [VariantNames -> Seq(Calls)]]
      /\ told \in [{session} -> [VariantNames -> Seq(Nat)]]
      /\ answers \in [VariantNames -> Seq(Ids)]
  BY <1>0 DEF BankTypeOK, Ids
<1>1. CASE asked' = asked /\ told' = told /\ answers' = answers BY <1>1 DEF Stays
<1>2. ASSUME NEW t \in VariantNames, Call(t) PROVE Stays(s) \/ Asks(s)
  <2>1. /\ asked' = [asked EXCEPT ![session][t] = Append(@, NextCall(t))]
        /\ answers' = answers /\ told' = told
    BY <1>2 DEF Call, G!Ask
  <2>2. CASE s # t BY <1>a, <2>1, <2>2 DEF Stays
  <2>3. CASE s = t
    <3>1. NextCall(s) \in Calls BY <1>0, <1>2, <2>3, NextCallTyped DEF Call
    <3>2. ~(Len(answers[s]) < Len(asked[session][s])) BY <1>2, <2>3 DEF Call, Outstanding
    <3>a. members[session] # {} BY <1>2 DEF Call, G!Ask
    <3>3. Len(answers[s]) <= Len(asked[session][s]) BY <3>a DEF IInv, CallsInOrder
    <3>4. Len(answers[s]) = Len(asked[session][s]) BY <1>0, <3>2, <3>3, Lists
    <3>5. asked'[session][s] = Append(asked[session][s], NextCall(s)) BY <1>a, <2>1, <2>3
    <3> QED BY <2>1, <3>a, <3>1, <3>4, <3>5 DEF Asks
  <2> QED BY <2>2, <2>3
<1>3. ASSUME NEW t \in VariantNames, Respond(t) PROVE Stays(s) \/ GetsLate(s) \/ Gets(s)
  <2>1. /\ told' = [told EXCEPT ![session][t] = Append(@, Len(@) + 1)]
        /\ asked' = asked /\ Len(told[session][t]) < Len(decided[session])
        /\ Received(t)
    BY <1>3 DEF Respond, G!Tell
  <2>2. CASE s # t
    <3>1. answers'[s] = answers[s] BY <1>a, <2>1, <2>2 DEF Received
    <3> QED BY <1>a, <2>1, <2>2, <3>1 DEF Stays
  <2>3. CASE s = t
    <3>1. Learns(s) BY <1>a, <2>1, <2>3 DEF Learns
    <3>2. \/ Len(answers[s]) > Len(told[session][s]) /\ answers' = answers
          \/ /\ Outstanding(s)
             /\ answers' = [answers EXCEPT ![s] = Append(@, Result(Len(told[session][s]) + 1))]
      BY <2>1, <2>3 DEF Received
    <3> QED BY <1>a, <3>1, <3>2 DEF GetsLate, Gets
  <2> QED BY <2>2, <2>3
<1>4. ASSUME NEW t \in VariantNames, GiveUp(t) PROVE Stays(s) \/ Quits(s)
  <2>1. /\ answers' = [answers EXCEPT ![t] = Append(@, TimedOut)]
        /\ asked' = asked /\ told' = told /\ Outstanding(t)
    BY <1>4 DEF GiveUp, gate
  <2>2. CASE s # t BY <1>a, <2>1, <2>2 DEF Stays
  <2>3. CASE s = t BY <1>a, <2>1, <2>3 DEF Quits
  <2> QED BY <2>2, <2>3
<1>5. CASE Edit \/ Receive \/ DrawFails \/ DispatchRefused \/ RoundFails \/ Conclude
           \/ UNCHANGED vars
  BY <1>1, <1>5 DEF Edit, Receive, DrawFails, DispatchRefused, RoundFails, Conclude, vars, gate
<1>6. CASE Dispatch BY <1>1, <1>6 DEF Dispatch, G!Open
<1>7. CASE Round BY <1>1, <1>7 DEF Round, G!Decide
<1>8. ASSUME NEW t \in VariantNames, Reply(t) PROVE Stays(s)
  BY <1>8 DEF Reply, gate, Stays
<1>9. ASSUME NEW t \in VariantNames, CallUnserved(t) PROVE Stays(s) \/ Misses(s)
  <2>1. /\ answers' = [answers EXCEPT ![t] = Append(@, None)]
        /\ asked' = asked /\ told' = told /\ members' = members
        /\ members[session] = {} /\ pc = "running"
    BY <1>9 DEF CallUnserved, gate, Serving
  <2>2. CASE s # t BY <1>a, <2>1, <2>2 DEF Stays
  <2>3. CASE s = t BY <1>a, <2>1, <2>3 DEF Misses
  <2> QED BY <2>2, <2>3
<1> QED BY <1>2, <1>3, <1>4, <1>5, <1>6, <1>7, <1>8, <1>9 DEF Next

LEMMA ListsGrow ==
    ASSUME IInv, [Next]_vars, NEW s \in VariantNames
    PROVE  /\ Begins(asked'[session][s], asked[session][s])
           /\ Begins(answers'[s], answers[s])
           /\ Begins(decided'[session], decided[session])
<1>0. BankTypeOK /\ BankTypeOK' BY TypeKept DEF IInv
<1>1. Result(Len(told[session][s]) + 1) \in Ids BY ResultTyped DEF Ids
<1>2. TimedOut \in Ids /\ None \in Ids BY DEF Ids
<1>3. Begins(asked'[session][s], asked[session][s])
  BY <1>0, LocalStep, Lists, AppendBegins
  DEF Stays, Asks, GetsLate, Gets, Quits, Misses, Learns, Begins
<1>4. Begins(answers'[s], answers[s])
  <2>1. answers[s] \in Seq(Ids) /\ Len(answers[s]) \in Nat BY <1>0, Lists
  <2>2. CASE answers'[s] = answers[s] BY <2>1, <2>2 DEF Begins
  <2>3. ASSUME NEW a \in Ids, answers'[s] = Append(answers[s], a) PROVE Begins(answers'[s], answers[s])
    BY <2>1, <2>3, AppendBegins
  <2>4. answers'[s] = answers[s] \/ \E a \in Ids : answers'[s] = Append(answers[s], a)
    BY <1>1, <1>2, LocalStep DEF Stays, Asks, GetsLate, Gets, Quits, Misses
  <2> QED BY <2>2, <2>3, <2>4
<1>5. Begins(decided'[session], decided[session])
  <2>1. CASE Round
    <3>1. PICK b \in BOOLEAN : decided' = [decided EXCEPT ![session] = Append(@, b)]
      BY <2>1 DEF Round, G!Decide
    <3>2. decided'[session] = Append(decided[session], b) BY <1>0, <3>1 DEF BankTypeOK
    <3> QED BY <1>0, <3>2, Lists, AppendBegins
  <2>2. CASE decided' = decided BY <1>0, <2>2, Lists DEF Begins
  <2>3. CASE ~Round
    <3>1. decided' = decided
      BY <2>3 DEF Next, Edit, Receive, DrawFails, Dispatch, DispatchRefused, RoundFails, Conclude, Call,
                  CallUnserved, Reply, Respond, GiveUp, vars, gate, G!Open, G!Ask, G!Tell
    <3> QED BY <2>2, <3>1
  <2> QED BY <2>1, <2>3
<1> QED BY <1>3, <1>4, <1>5

LEMMA SessionStep ==
    ASSUME IInv, [Next]_vars
    PROVE  /\ input' = input /\ resource'.identity = resource.identity
           /\ members[session] # {} => members'[session] = members[session]
           /\ SessionIsDraw'
<1>0. BankTypeOK /\ SessionIsDraw BY DEF IInv
<1>1. attempt \in [{session} -> C!Attempt] /\ attempt[session] \in C!Attempt BY <1>0, AttemptTyped
<1>2. CASE Dispatch
  <2>1. /\ pc = "starting" /\ members[session] = {} /\ decided[session] = <<>>
        /\ attempt' = [attempt EXCEPT ![session].pc = "running"]
        /\ members' = [members EXCEPT ![session] = Chosen]
        /\ decided' = decided /\ input' = input /\ resource' = resource
    BY <1>0, <1>2 DEF Dispatch, C!Dispatch, G!Open, SessionIsDraw, pc
  <2>2. members'[session] = Chosen BY <1>0, <2>1 DEF BankTypeOK
  <2>3. pc' = "running" /\ Chosen' = Chosen BY <1>1, <2>1 DEF pc, Chosen, C!Chosen, C!Attempt
  <2>4. SessionIsDraw' BY <2>1, <2>2, <2>3 DEF SessionIsDraw
  <2> QED BY <2>1, <2>4
<1>3. CASE Round
  <2>1. /\ members[session] # {} /\ members' = members /\ attempt' = attempt
        /\ input' = input /\ resource' = resource
    BY <1>3 DEF Round, G!Decide
  <2>2. SessionIsDraw' BY <1>0, <2>1 DEF SessionIsDraw, pc, Chosen, C!Chosen
  <2> QED BY <2>1, <2>2
<1>4. CASE Receive
  <2>1. pc = "none" /\ pc' = "starting"
    BY <1>1, <1>4 DEF Receive, C!Receive, pc, C!Attempt
  <2>2. members' = members /\ decided' = decided /\ input' = input /\ resource' = resource
    BY <1>4 DEF Receive, gate
  <2>3. SessionIsDraw' BY <1>0, <2>1, <2>2 DEF SessionIsDraw
  <2> QED BY <2>2, <2>3
<1>5. ASSUME pc' \in {"none", "starting"} => pc' = pc,
             Chosen' = Chosen, members' = members, decided' = decided
      PROVE  SessionIsDraw'
  BY <1>0, <1>5 DEF SessionIsDraw
<1>6. CASE DrawFails
  <2>1. pc' = "failed" /\ Chosen' = Chosen
    BY <1>1, <1>6 DEF DrawFails, C!DrawFails, pc, Chosen, C!Chosen, C!Attempt
  <2> QED BY <1>5, <1>6, <2>1 DEF DrawFails, gate
<1>7. CASE Conclude
  <2>1. ASSUME C!Verify(session) PROVE pc' = "closing" /\ Chosen' = Chosen
    BY <1>1, <2>1 DEF C!Verify, pc, Chosen, C!Chosen, C!Attempt
  <2>2. ASSUME C!Close(session) PROVE pc' \in {"answered", "reporting"} /\ Chosen' = Chosen
    BY <1>1, <2>2 DEF C!Close, pc, Chosen, C!Chosen, C!Attempt
  <2>3. ASSUME C!Report(session) PROVE pc' = "answered" /\ Chosen' = Chosen
    BY <1>1, <2>3 DEF C!Report, pc, Chosen, C!Chosen, C!Attempt
  <2>4. pc' \in {"closing", "answered", "reporting"} /\ Chosen' = Chosen
    BY <1>7, <2>1, <2>2, <2>3 DEF Conclude
  <2> QED BY <1>5, <1>7, <2>4 DEF Conclude, gate
<1>8. ASSUME NEW s \in VariantNames, Reply(s)
      PROVE  SessionIsDraw' /\ members' = members /\ input' = input /\ resource' = resource
  <2>1. pc' = pc /\ Chosen' = Chosen
    BY <1>1, <1>8 DEF Reply, C!VariantReplies, pc, Chosen, C!Chosen, C!Attempt
  <2> QED BY <1>5, <1>8, <2>1 DEF Reply, gate
<1>9. CASE Edit
  BY <1>5, <1>9 DEF Edit, gate, ValidateUpdate, pc, Chosen, C!Chosen
<1>10. CASE RoundFails \/ UNCHANGED vars
  BY <1>5, <1>10 DEF RoundFails, vars, gate, pc, Chosen, C!Chosen
<1>11. ASSUME NEW s \in VariantNames, Call(s) \/ CallUnserved(s) \/ Respond(s) \/ GiveUp(s)
       PROVE  SessionIsDraw' /\ members' = members /\ input' = input /\ resource' = resource
  BY <1>5, <1>11
  DEF Call, CallUnserved, Respond, GiveUp, G!Ask, G!Tell, gate, pc, Chosen, C!Chosen
<1>12. CASE DispatchRefused
  <2>1. pc' = "running" /\ Chosen' = Chosen
    BY <1>1, <1>12 DEF DispatchRefused, C!Dispatch, pc, Chosen, C!Chosen, C!Attempt
  <2>2. members' = members /\ decided' = decided /\ input' = input /\ resource' = resource
    BY <1>12 DEF DispatchRefused, gate
  <2> QED BY <1>5, <2>1, <2>2
<1> QED BY <1>2, <1>3, <1>4, <1>6, <1>7, <1>8, <1>9, <1>10, <1>11, <1>12
        DEF Next, DrawFails, Conclude, gate, RoundFails, vars, Edit

(* A session gets its members before anything is asked. *)
LEMMA OpeningStep ==
    ASSUME IInv, [Next]_vars, members'[session] # {}, members[session] = {},
           NEW s \in VariantNames
    PROVE  answers'[s] = <<>>
<1>1. Dispatch \/ ~Dispatch OBVIOUS
<1>2. members' = members \/ Dispatch
  BY DEF Next, Edit, Receive, DrawFails, DispatchRefused, Round, RoundFails, Conclude, Call,
         CallUnserved, Reply, Respond, GiveUp, vars, gate, G!Decide, G!Ask, G!Tell
<1>3. pc = "starting" /\ answers' = answers BY <1>2 DEF Dispatch, C!Dispatch, pc
<1>4. answers[s] = <<>> BY <1>3 DEF IInv, Unasked
<1> QED BY <1>3, <1>4

LEMMA UnaskedKept == ASSUME IInv, [Next]_vars PROVE Unasked'
<1>0. BankTypeOK /\ BankTypeOK' /\ SessionIsDraw /\ Unasked BY TypeKept DEF IInv
<1>1. attempt \in [{session} -> C!Attempt] /\ attempt[session] \in C!Attempt BY <1>0, AttemptTyped
<1>2. ASSUME pc' \in {"none", "starting"} PROVE pc \in {"none", "starting"} /\ answers' = answers
  <2>1. ASSUME NEW s \in VariantNames,
               Call(s) \/ CallUnserved(s) \/ Reply(s) \/ Respond(s) \/ GiveUp(s)
        PROVE  FALSE
    <3>1. pc = "running" BY <2>1 DEF Call, CallUnserved, Reply, Respond, GiveUp, Serving
    <3>2. CASE Reply(s) BY <1>1, <1>2, <3>1, <3>2 DEF Reply, C!VariantReplies, pc, C!Attempt
    <3>3. CASE Call(s) \/ CallUnserved(s) \/ Respond(s) \/ GiveUp(s)
      BY <1>2, <3>1, <3>3 DEF Call, CallUnserved, Respond, GiveUp, pc
    <3> QED BY <2>1, <3>2, <3>3
  <2>2. CASE Edit BY <2>2 DEF Edit
  <2>3. CASE Receive BY <2>3 DEF Receive, C!Receive, pc
  <2>4. CASE DrawFails BY <1>1, <1>2, <2>4 DEF DrawFails, C!DrawFails, pc
  <2>5. CASE Dispatch BY <1>1, <1>2, <2>5 DEF Dispatch, C!Dispatch, pc
  <2>6. CASE DispatchRefused BY <1>1, <1>2, <2>6 DEF DispatchRefused, C!Dispatch, pc
  <2>7. CASE Round \/ RoundFails \/ UNCHANGED vars
    BY <1>2, <2>7 DEF Round, RoundFails, vars, pc
  <2>8. CASE Conclude
    <3>1. ASSUME C!Verify(session) PROVE pc' = "closing" BY <1>1, <3>1 DEF C!Verify, pc
    <3>2. ASSUME C!Close(session) PROVE pc' \in {"answered", "reporting"}
      BY <1>1, <3>2 DEF C!Close, pc
    <3>3. ASSUME C!Report(session) PROVE pc' = "answered" BY <1>1, <3>3 DEF C!Report, pc
    <3> QED BY <1>2, <2>8, <3>1, <3>2, <3>3 DEF Conclude
  <2> QED BY <2>1, <2>2, <2>3, <2>4, <2>5, <2>6, <2>7, <2>8 DEF Next
<1>3. ASSUME members'[session] = {}, NEW s \in VariantNames
      PROVE  asked'[session][s] = <<>> /\ \A n \in DOMAIN answers'[s] : answers'[s][n] = None
  <2>1. members[session] = {} BY <1>3, SessionStep
  <2>2. /\ asked[session][s] = <<>> /\ decided[session] = <<>>
        /\ \A n \in DOMAIN answers[s] : answers[s][n] = None
    BY <1>0, <2>1 DEF Unasked, SessionIsDraw
  <2>3. /\ answers[s] \in Seq(Ids) /\ Len(answers[s]) \in Nat /\ Len(told[session][s]) \in Nat
        /\ DOMAIN answers[s] = 1 .. Len(answers[s])
    BY <1>0, Lists
  <2>4. ~Learns(s) /\ ~Outstanding(s) BY <2>2, <2>3 DEF Learns, Outstanding
  <2>5. Stays(s) \/ Misses(s) BY <2>1, <2>4, LocalStep DEF Asks, GetsLate, Gets, Quits
  <2>6. CASE Stays(s) BY <2>2, <2>6 DEF Stays
  <2>7. CASE Misses(s)
    <3>1. None \in Ids BY DEF Ids
    <3>2. answers'[s] = Append(answers[s], None) /\ asked'[session][s] = asked[session][s]
      BY <2>7 DEF Misses
    <3>3. /\ DOMAIN answers'[s] = 1 .. Len(answers[s]) + 1
          /\ answers'[s][Len(answers[s]) + 1] = None
          /\ \A n \in 1 .. Len(answers[s]) : answers'[s][n] = answers[s][n]
      BY <2>3, <3>1, <3>2, AppendProperties
    <3>4. ASSUME NEW n \in DOMAIN answers'[s] PROVE answers'[s][n] = None
      <4>1. n = Len(answers[s]) + 1 \/ n \in 1 .. Len(answers[s]) BY <2>3, <3>3
      <4> QED BY <2>2, <2>3, <3>3, <4>1
    <3> QED BY <2>2, <3>2, <3>4
  <2> QED BY <2>5, <2>6, <2>7
<1>4. pc' \in {"none", "starting"} => \A s \in VariantNames : answers'[s] = <<>>
  BY <1>0, <1>2 DEF Unasked
<1> QED BY <1>3, <1>4 DEF Unasked, session

(* What a variant looks up and sends does not change any more once it has  *)
(* made use of it.                                                         *)
LEMMA LookUpsKept ==
    ASSUME IInv, [Next]_vars, NEW s \in VariantNames
    PROVE  ToLookUp(s)' = ToLookUp(s)
<1>1. input' = input /\ resource'.identity = resource.identity BY SessionStep
<1> QED BY <1>1 DEF ToLookUp

LEMMA FinalKept ==
    ASSUME IInv, [Next]_vars, NEW s \in VariantNames, Len(ToLookUp(s)) <= Len(answers[s])
    PROVE  Final(s)' = Final(s)
<1>0. BankTypeOK BY DEF IInv
<1>1. input' = input /\ resource'.identity = resource.identity BY SessionStep
<1>2. ToLookUp(s)' = ToLookUp(s) BY LookUpsKept
<1>3. Len(ToLookUp(s)) \in 0 .. 2 BY <1>0, LookUpsTyped
<1>4. Begins(answers'[s], answers[s]) BY ListsGrow
<1>5. Len(answers[s]) \in Nat BY <1>0, Lists
<1>6. ASSUME NEW n \in {1, 2} PROVE Id(s, n)' = Id(s, n)
  <2>1. CASE n <= Len(ToLookUp(s))
    <3>1. n \in 1 .. Len(answers[s]) BY <1>3, <1>5, <2>1
    <3>2. answers'[s][n] = answers[s][n] BY <1>4, <3>1 DEF Begins
    <3> QED BY <1>2, <3>2 DEF Id
  <2>2. CASE ~(n <= Len(ToLookUp(s))) BY <1>2, <2>2 DEF Id
  <2> QED BY <2>1, <2>2
<1>7. Id(s, 1)' = Id(s, 1) /\ Id(s, 2)' = Id(s, 2) BY <1>6
<1> QED BY <1>1, <1>7 DEF Final

LEMMA RoundsKept == ASSUME IInv, [Next]_vars PROVE RoundsCompared'
<1>0. BankTypeOK /\ BankTypeOK' /\ SessionIsDraw /\ RoundsCompared BY TypeKept DEF IInv
<1> SUFFICES ASSUME NEW n \in DOMAIN decided'[session]
             PROVE  /\ \A s \in members'[session] : n <= Len(asked'[session][s])
                    /\ decided'[session][n] =>
                           \A s, t \in members'[session] :
                               asked'[session][s][n] = asked'[session][t][n]
  BY DEF RoundsCompared
<1>1. CASE members[session] = {}
  <2>1. decided[session] = <<>> BY <1>0, <1>1 DEF SessionIsDraw
  <2>2. ~Round BY <1>1 DEF Round, G!Decide
  <2>3. decided' = decided
    BY <2>2 DEF Next, Edit, Receive, DrawFails, Dispatch, DispatchRefused, RoundFails, Conclude, Call,
                CallUnserved, Reply, Respond, GiveUp, vars, gate, G!Open, G!Ask, G!Tell
  <2> QED BY <2>1, <2>3
<1>2. CASE members[session] # {}
  <2>1. members'[session] = members[session] BY <1>2, SessionStep
  <2>2. members[session] \subseteq VariantNames BY <1>0 DEF BankTypeOK
  <2>3. \A s \in members[session] : Begins(asked'[session][s], asked[session][s])
    BY <2>2, ListsGrow
  <2>4. \A s \in members[session] : Len(asked[session][s]) \in Nat /\ Len(asked'[session][s]) \in Nat
    BY <1>0, <2>2 DEF BankTypeOK
  <2>5. decided[session] \in Seq(BOOLEAN) /\ Len(decided[session]) \in Nat BY <1>0 DEF BankTypeOK
  <2>6. decided'[session] \in Seq(BOOLEAN) BY <1>0 DEF BankTypeOK
  <2>7. n \in Nat /\ 1 <= n BY <2>6
  <2>8. ASSUME n \in 1 .. Len(decided[session]), decided'[session][n] = decided[session][n]
        PROVE  /\ \A s \in members[session] : n <= Len(asked[session][s])
               /\ decided'[session][n] =>
                      \A s, t \in members[session] : asked[session][s][n] = asked[session][t][n]
    <3>1. n \in DOMAIN decided[session] BY <2>5, <2>8
    <3> QED BY <1>0, <2>8, <3>1 DEF RoundsCompared
  <2>9. /\ \A s \in members[session] : n <= Len(asked[session][s])
        /\ decided'[session][n] =>
               \A s, t \in members[session] : asked[session][s][n] = asked[session][t][n]
    <3>1. CASE Round
      <4> DEFINE m == Len(decided[session]) + 1
                 b == \A s, t \in members[session] : asked[session][s][m] = asked[session][t][m]
      <4>1. decided' = [decided EXCEPT ![session] = Append(@, b)]
        BY <3>1 DEF Round, G!Decide
      <4>2. \A s \in members[session] : m <= Len(asked[session][s]) BY <3>1 DEF Round, G!Decide
      <4>3. b \in BOOLEAN OBVIOUS
      <4> HIDE DEF b
      <4>4. decided'[session] = Append(decided[session], b) BY <1>0, <4>1 DEF BankTypeOK
      <4>5. /\ Len(decided'[session]) = m /\ decided'[session][m] = b
            /\ \A k \in 1 .. Len(decided[session]) : decided'[session][k] = decided[session][k]
        BY <2>5, <4>3, <4>4, AppendProperties
      <4>6. n \in 1 .. m BY <2>6, <4>5
      <4>7. CASE n = m BY <4>2, <4>5, <4>7 DEF b
      <4>8. CASE n # m
        <5>1. n \in 1 .. Len(decided[session]) BY <2>5, <4>6, <4>8
        <5> QED BY <2>8, <4>5, <5>1
      <4> QED BY <4>7, <4>8
    <3>2. CASE ~Round
      <4>1. decided' = decided
        BY <3>2 DEF Next, Edit, Receive, DrawFails, Dispatch, DispatchRefused, RoundFails, Conclude, Call,
                    CallUnserved, Reply, Respond, GiveUp, vars, gate, G!Open, G!Ask, G!Tell
      <4> QED BY <2>5, <2>8, <4>1
    <3> QED BY <3>1, <3>2
  <2>10. \A s \in members[session] : n \in 1 .. Len(asked[session][s]) BY <2>4, <2>7, <2>9
  <2>11. \A s \in members[session] : /\ n <= Len(asked'[session][s])
                                     /\ asked'[session][s][n] = asked[session][s][n]
    BY <2>3, <2>4, <2>7, <2>10 DEF Begins
  <2> QED BY <2>1, <2>9, <2>11
<1> QED BY <1>1, <1>2

(* The result of a round that was decided stays what it is.                *)
LEMMA ResultKept ==
    ASSUME IInv, [Next]_vars, NEW n \in DOMAIN decided[session]
    PROVE  Result(n)' = Result(n)
<1>0. BankTypeOK /\ SessionIsDraw /\ RoundsCompared BY DEF IInv
<1>1. decided[session] \in Seq(BOOLEAN) /\ Len(decided[session]) \in Nat BY <1>0 DEF BankTypeOK
<1>2. n \in 1 .. Len(decided[session]) BY <1>1
<1>3. members[session] # {}
  <2>1. decided[session] # <<>> BY <1>2
  <2> QED BY <1>0, <2>1 DEF SessionIsDraw
<1>4. members'[session] = members[session] BY <1>3, SessionStep
<1>5. members[session] \subseteq VariantNames BY <1>0 DEF BankTypeOK
<1>6. PICK v \in VariantNames : v \in members[session] BY <1>3, <1>5
<1>7. decided'[session][n] = decided[session][n] BY <1>2, <1>6, ListsGrow DEF Begins
<1>8. ASSUME NEW s \in members[session] PROVE asked'[session][s][n] = asked[session][s][n]
  <2>1. s \in VariantNames BY <1>5
  <2>2. n <= Len(asked[session][s]) BY <1>0 DEF RoundsCompared
  <2>3. Len(asked[session][s]) \in Nat BY <1>0, <2>1, Lists
  <2>4. n \in 1 .. Len(asked[session][s]) BY <1>1, <1>2, <2>2, <2>3
  <2> QED BY <2>1, <2>4, ListsGrow DEF Begins
<1> DEFINE old == {id \in Users : \E s \in members[session] : asked[session][s][n] = Lookup(id)}
           new == {id \in Users : \E s \in members'[session] : asked'[session][s][n] = Lookup(id)}
<1>9. new = old BY <1>4, <1>8
<1>10. Result(n) = IF decided[session][n] /\ old # {} THEN CHOOSE id \in old : TRUE ELSE None
  BY DEF Result
<1>11. Result(n)' = IF decided'[session][n] /\ new # {} THEN CHOOSE id \in new : TRUE ELSE None
  BY DEF Result, session, Lookup
<1> HIDE DEF old, new
<1> QED BY <1>7, <1>9, <1>10, <1>11

LEMMA CallsKept ==
    ASSUME IInv, [Next]_vars, NEW s \in VariantNames
    PROVE  CallsInOrder(s)'
<1>0. BankTypeOK /\ BankTypeOK' /\ CallsInOrder(s) BY TypeKept DEF IInv
<1>1. ToLookUp(s)' = ToLookUp(s) /\ Len(ToLookUp(s)) \in 0 .. 2 BY <1>0, LookUpsKept, LookUpsTyped
<1>2. /\ asked[session][s] \in Seq(Calls) /\ Len(asked[session][s]) \in Nat
      /\ answers[s] \in Seq(Ids) /\ Len(answers[s]) \in Nat
      /\ DOMAIN asked[session][s] = 1 .. Len(asked[session][s])
  BY <1>0, Lists
<1>3. /\ asked'[session][s] \in Seq(Calls) /\ Len(asked'[session][s]) \in Nat
      /\ Len(answers'[s]) \in Nat
      /\ DOMAIN asked'[session][s] = 1 .. Len(asked'[session][s])
  BY <1>0, LenProperties DEF BankTypeOK
<1>4. /\ Begins(asked'[session][s], asked[session][s]) /\ Begins(answers'[s], answers[s])
  BY ListsGrow
<1>5. /\ members'[session] # {} => Len(answers'[s]) <= Len(asked'[session][s])
      /\ Len(asked'[session][s]) <= Len(answers'[s]) + 1
  <2>1. /\ members[session] # {} => Len(answers[s]) <= Len(asked[session][s])
        /\ Len(asked[session][s]) <= Len(answers[s]) + 1
    BY <1>0 DEF CallsInOrder
  <2>a. CASE members'[session] # {} /\ members[session] = {}
    <3>1. answers'[s] = <<>> BY <2>a, OpeningStep
    <3>2. asked[session][s] = <<>> BY <2>a DEF IInv, Unasked
    <3>3. ~Asks(s) BY <2>a DEF Asks
    <3>4. asked'[session][s] = asked[session][s]
      BY <3>3, LocalStep DEF Stays, GetsLate, Gets, Quits, Misses, Learns
    <3> QED BY <3>1, <3>2, <3>4
  <2>b. CASE Misses(s)
    <3>1. members'[session] = {} /\ asked'[session][s] = asked[session][s] BY <2>b DEF Misses
    <3>2. Len(answers[s]) <= Len(answers'[s]) BY <1>4 DEF Begins
    <3> QED BY <1>2, <1>3, <2>1, <3>1, <3>2
  <2> SUFFICES ASSUME members'[session] # {} => members[session] # {}, ~Misses(s)
               PROVE  /\ members'[session] # {} => Len(answers'[s]) <= Len(asked'[session][s])
                      /\ Len(asked'[session][s]) <= Len(answers'[s]) + 1
    BY <2>a, <2>b
  <2>2. CASE Stays(s) \/ GetsLate(s) BY <2>1, <2>2 DEF Stays, GetsLate, Learns
  <2>3. CASE Asks(s)
    <3>1. Len(asked'[session][s]) = Len(asked[session][s]) + 1 BY <1>2, <2>3, AppendProperties DEF Asks
    <3> QED BY <1>2, <2>3, <3>1 DEF Asks
  <2>4. CASE Gets(s) \/ Quits(s)
    <3>1. \E a \in Ids : answers'[s] = Append(answers[s], a)
      BY <2>4, ResultTyped DEF Gets, Quits, Ids
    <3>2. Len(answers'[s]) = Len(answers[s]) + 1 BY <1>2, <3>1, AppendProperties
    <3>3. asked'[session][s] = asked[session][s] /\ Len(answers[s]) < Len(asked[session][s])
      BY <2>4 DEF Gets, Quits, Learns, Outstanding
    <3> QED BY <1>2, <2>1, <3>2, <3>3
  <2> QED BY <2>2, <2>3, <2>4, LocalStep
<1>6. ASSUME NEW n \in DOMAIN asked'[session][s]
      PROVE  \/ /\ n <= Len(ToLookUp(s))
                /\ asked'[session][s][n] = Lookup(ToLookUp(s)[n])
             \/ /\ n = Len(ToLookUp(s)) + 1 /\ Len(ToLookUp(s)) <= Len(answers'[s])
                /\ asked'[session][s][n] = Final(s)'
  <2>1. CASE n \in DOMAIN asked[session][s]
    <3>1. asked'[session][s][n] = asked[session][s][n] BY <1>2, <1>4, <2>1 DEF Begins
    <3>2. \/ n <= Len(ToLookUp(s)) /\ asked[session][s][n] = Lookup(ToLookUp(s)[n])
          \/ /\ n = Len(ToLookUp(s)) + 1 /\ Len(ToLookUp(s)) <= Len(answers[s])
             /\ asked[session][s][n] = Final(s)
      BY <1>0, <2>1 DEF CallsInOrder
    <3>3. Len(ToLookUp(s)) <= Len(answers[s]) =>
              Len(ToLookUp(s)) <= Len(answers'[s]) /\ Final(s)' = Final(s)
      BY <1>1, <1>2, <1>3, <1>4, FinalKept DEF Begins
    <3> QED BY <3>1, <3>2, <3>3
  <2>2. CASE n \notin DOMAIN asked[session][s]
    <3>1. asked'[session][s] # asked[session][s] BY <2>2
    <3>2. Asks(s) BY <3>1, LocalStep DEF Stays, GetsLate, Gets, Quits, Misses, Learns
    <3>3. /\ Len(asked'[session][s]) = Len(asked[session][s]) + 1
          /\ asked'[session][s][Len(asked[session][s]) + 1] = NextCall(s)
      BY <1>2, <3>2, AppendProperties DEF Asks
    <3>4. n = Len(asked[session][s]) + 1 BY <1>2, <1>3, <2>2, <3>3
    <3>5. n = Len(answers[s]) + 1 /\ asked'[session][s][n] = NextCall(s) /\ NextCall(s) # None
      BY <3>2, <3>3, <3>4, CallsAssumption DEF Asks
    <3>6. CASE n <= Len(ToLookUp(s)) BY <3>5, <3>6 DEF NextCall
    <3>7. CASE ~(n <= Len(ToLookUp(s)))
      <4>1. n = Len(ToLookUp(s)) + 1 /\ NextCall(s) = Final(s) BY <3>5, <3>7 DEF NextCall
      <4>2. Len(ToLookUp(s)) <= Len(answers[s]) BY <1>1, <1>2, <3>5, <4>1
      <4>3. Final(s)' = Final(s) /\ answers'[s] = answers[s] BY <3>2, <4>2, FinalKept DEF Asks
      <4> QED BY <3>5, <4>1, <4>2, <4>3
    <3> QED BY <3>6, <3>7
  <2> QED BY <2>1, <2>2
<1> QED BY <1>1, <1>5, <1>6 DEF CallsInOrder

LEMMA AnswersKept ==
    ASSUME IInv, [Next]_vars, NEW s \in VariantNames
    PROVE  AnswersInStep(s)'
<1>0. BankTypeOK /\ BankTypeOK' /\ AnswersInStep(s) BY TypeKept DEF IInv
<1>1. /\ answers[s] \in Seq(Ids) /\ Len(answers[s]) \in Nat
      /\ DOMAIN answers[s] = 1 .. Len(answers[s])
      /\ told[session][s] \in Seq(Nat) /\ Len(told[session][s]) \in Nat
      /\ Len(decided[session]) \in Nat
      /\ DOMAIN decided[session] = 1 .. Len(decided[session])
  BY <1>0, Lists
<1>2. /\ Len(answers'[s]) \in Nat /\ DOMAIN answers'[s] = 1 .. Len(answers'[s])
      /\ Len(told'[session][s]) \in Nat /\ Len(decided'[session]) \in Nat
  BY <1>0, LenProperties DEF BankTypeOK
<1>3. Begins(answers'[s], answers[s]) /\ Begins(decided'[session], decided[session]) BY ListsGrow
<1>4. Len(decided[session]) <= Len(decided'[session]) BY <1>3 DEF Begins
<1>5. Len(told[session][s]) <= Len(answers[s]) /\ Len(told[session][s]) <= Len(decided[session])
  BY <1>0 DEF AnswersInStep
<1>6. Learns(s) => /\ Len(told'[session][s]) = Len(told[session][s]) + 1
                   /\ Len(told'[session][s]) <= Len(decided[session])
  <2> SUFFICES ASSUME Learns(s) PROVE /\ Len(told'[session][s]) = Len(told[session][s]) + 1
                                      /\ Len(told'[session][s]) <= Len(decided[session])
    OBVIOUS
  <2>1. /\ told'[session][s] = Append(told[session][s], Len(told[session][s]) + 1)
        /\ Len(told[session][s]) < Len(decided[session])
    BY DEF Learns
  <2>2. Len(told'[session][s]) = Len(told[session][s]) + 1 BY <1>1, <2>1, AppendProperties
  <2> QED BY <1>1, <2>1, <2>2
<1>7. \/ Len(told'[session][s]) = Len(told[session][s])
      \/ /\ Len(told'[session][s]) = Len(told[session][s]) + 1
         /\ Len(told'[session][s]) <= Len(decided[session])
  BY <1>6, LocalStep DEF Stays, Asks, GetsLate, Gets, Quits, Misses
<1>8. Len(told'[session][s]) <= Len(decided'[session]) BY <1>1, <1>2, <1>4, <1>5, <1>7
<1>9. Len(told'[session][s]) <= Len(answers'[s])
  <2>1. Len(answers[s]) <= Len(answers'[s]) BY <1>3 DEF Begins
  <2>2. CASE Gets(s)
    <3>1. Len(answers'[s]) = Len(answers[s]) + 1
      BY <1>1, <2>2, ResultTyped, AppendProperties DEF Gets, Ids
    <3> QED BY <1>1, <1>2, <1>5, <1>7, <3>1
  <2>3. CASE GetsLate(s) BY <1>1, <1>2, <1>6, <2>1, <2>3 DEF GetsLate
  <2>4. CASE Stays(s) \/ Asks(s) \/ Quits(s) \/ Misses(s)
    <3>1. told'[session][s] = told[session][s] BY <2>4 DEF Stays, Asks, Quits, Misses
    <3> QED BY <1>1, <1>2, <1>5, <2>1, <3>1
  <2> QED BY <2>2, <2>3, <2>4, LocalStep
<1>10. ASSUME NEW n \in DOMAIN answers'[s], members'[session] # {},
              \A j \in 1 .. n : answers'[s][j] # TimedOut
       PROVE  n <= Len(told'[session][s]) /\ answers'[s][n] = Result(n)'
  <2>a. members[session] # {}
    <3> SUFFICES ASSUME members[session] = {} PROVE FALSE OBVIOUS
    <3>1. answers'[s] = <<>> BY <1>10, OpeningStep
    <3> QED BY <1>2, <3>1
  <2>1. CASE n \in DOMAIN answers[s]
    <3>1. n \in 1 .. Len(answers[s]) BY <1>1, <2>1
    <3>2. \A j \in 1 .. n : j \in 1 .. Len(answers[s]) BY <1>1, <3>1
    <3>3. \A j \in 1 .. n : answers'[s][j] = answers[s][j] BY <1>3, <3>2 DEF Begins
    <3>4. InStep(s, n) BY <1>10, <3>3 DEF InStep
    <3>5. n <= Len(told[session][s]) /\ answers[s][n] = Result(n)
      BY <1>0, <2>a, <2>1, <3>4 DEF AnswersInStep
    <3>6. n \in DOMAIN decided[session] BY <1>1, <1>5, <3>1, <3>5
    <3>7. Result(n)' = Result(n) BY <3>6, ResultKept
    <3>8. answers'[s][n] = answers[s][n] BY <1>3, <3>1 DEF Begins
    <3> QED BY <1>1, <1>2, <1>7, <3>1, <3>5, <3>7, <3>8
  <2>2. CASE n \notin DOMAIN answers[s]
    <3>1. answers'[s] # answers[s] BY <2>2
    <3>2. Gets(s) \/ Quits(s) BY <2>a, <3>1, LocalStep DEF Stays, Asks, GetsLate, Misses
    <3>3. PICK a \in Ids : /\ answers'[s] = Append(answers[s], a)
                           /\ a = TimedOut \/ (Gets(s) /\ a = Result(Len(told[session][s]) + 1))
      BY <3>2, ResultTyped DEF Gets, Quits, Ids
    <3>4. Len(answers'[s]) = Len(answers[s]) + 1 /\ answers'[s][Len(answers[s]) + 1] = a
      BY <1>1, <3>3, AppendProperties
    <3>5. n = Len(answers[s]) + 1 BY <1>1, <1>2, <2>2, <3>4
    <3>6. n \in 1 .. n BY <1>1, <3>5
    <3>7. a # TimedOut BY <1>10, <3>4, <3>5, <3>6
    <3>8. Gets(s) /\ a = Result(Len(told[session][s]) + 1) BY <3>3, <3>7
    <3>9. Len(told[session][s]) = Len(answers[s])
      <4>1. CASE Len(answers[s]) = 0 BY <1>1, <1>5, <4>1
      <4>2. CASE Len(answers[s]) # 0
        <5> DEFINE m == Len(answers[s])
        <5>1. m \in DOMAIN answers[s] BY <1>1, <4>2
        <5>2. \A j \in 1 .. m : j \in 1 .. n BY <1>1, <3>5
        <5>3. \A j \in 1 .. m : answers[s][j] # TimedOut BY <1>3, <1>10, <5>2 DEF Begins
        <5>4. m <= Len(told[session][s]) BY <1>0, <2>a, <5>1, <5>3 DEF AnswersInStep, InStep
        <5> QED BY <1>1, <1>5, <5>4
      <4> QED BY <4>1, <4>2
    <3>10. Len(told'[session][s]) = n /\ n <= Len(decided[session])
      BY <1>6, <3>5, <3>8, <3>9 DEF Gets
    <3>11. n \in DOMAIN decided[session] BY <1>1, <3>5, <3>10
    <3>12. Result(n)' = Result(n) BY <3>11, ResultKept
    <3>13. answers'[s][n] = Result(n) BY <3>4, <3>5, <3>8, <3>9
    <3> QED BY <1>1, <3>5, <3>10, <3>12, <3>13
  <2> QED BY <2>1, <2>2
<1> QED BY <1>8, <1>9, <1>10 DEF AnswersInStep, InStep

LEMMA Invariant == Spec => []IInv
<1>1. ASSUME Init PROVE IInv
  <2>1. BankTypeOK BY <1>1, InitTyped
  <2>2. /\ members[session] = {} /\ decided[session] = <<>>
        /\ \A s \in VariantNames : /\ asked[session][s] = <<>> /\ told[session][s] = <<>>
                                  /\ answers[s] = <<>>
    BY <1>1 DEF Init, G!GateInit
  <2>3. SessionIsDraw BY <2>2 DEF SessionIsDraw
  <2>4. RoundsCompared /\ Unasked BY <2>2 DEF RoundsCompared, Unasked
  <2>5. \A s \in VariantNames : CallsInOrder(s) /\ AnswersInStep(s)
    BY <2>2 DEF CallsInOrder, AnswersInStep
  <2> QED BY <2>1, <2>3, <2>4, <2>5 DEF IInv
<1>2. ASSUME IInv, [Next]_vars PROVE IInv'
  <2>1. BankTypeOK' BY <1>2, TypeKept DEF IInv
  <2>2. SessionIsDraw' /\ Unasked' BY <1>2, SessionStep, UnaskedKept
  <2>3. RoundsCompared' BY <1>2, RoundsKept
  <2>4. \A s \in VariantNames : CallsInOrder(s)' /\ AnswersInStep(s)'
    BY <1>2, CallsKept, AnswersKept
  <2> QED BY <2>1, <2>2, <2>3, <2>4 DEF IInv
<1> QED BY <1>1, <1>2, PTL DEF Spec

-----------------------------------------------------------------------------
(* What the invariant is for.                                              *)

(* The id a member works with is the one it asked for: that of the client  *)
(* it looked up, if it has found those before.                             *)
LEMMA OwnId ==
    ASSUME IInv, NEW s \in VariantNames, s \in members[session],
           Len(ToLookUp(s)) <= Len(answers[s]),
           NEW n \in {1, 2}, \A j \in 1 .. n : Id(s, j) # None
    PROVE  n <= Len(ToLookUp(s)) /\ Id(s, n) = ToLookUp(s)[n] /\ Id(s, n) \in Users
<1>0. /\ BankTypeOK /\ RoundsCompared /\ CallsInOrder(s) /\ AnswersInStep(s)
      /\ Len(ToLookUp(s)) \in 0 .. 2
  BY LookUpsTyped DEF IInv
<1>1. /\ Len(answers[s]) \in Nat /\ DOMAIN answers[s] = 1 .. Len(answers[s])
      /\ Len(told[session][s]) \in Nat /\ Len(asked[session][s]) \in Nat
      /\ Len(decided[session]) \in Nat /\ DOMAIN decided[session] = 1 .. Len(decided[session])
      /\ DOMAIN asked[session][s] = 1 .. Len(asked[session][s])
  BY <1>0, Lists
<1>2. \A j \in 1 .. n : /\ j <= Len(ToLookUp(s)) /\ answers[s][j] # TimedOut
                        /\ Id(s, j) = answers[s][j]
  BY DEF Id
<1>3. n \in 1 .. n OBVIOUS
<1>4. n \in DOMAIN answers[s] BY <1>0, <1>1, <1>2, <1>3
<1>5. n <= Len(told[session][s]) /\ answers[s][n] = Result(n)
  BY <1>0, <1>2, <1>4 DEF AnswersInStep, InStep
<1>6. n \in DOMAIN decided[session] BY <1>0, <1>1, <1>5 DEF AnswersInStep
<1>7. Result(n) # None BY <1>2, <1>3, <1>5
<1> DEFINE ids == {id \in Users : \E t \in members[session] : asked[session][t][n] = Lookup(id)}
<1>8. decided[session][n] /\ ids # {} /\ Result(n) = (CHOOSE id \in ids : TRUE) BY <1>7 DEF Result
<1>9. Result(n) \in ids BY <1>8
<1>10. PICK t \in members[session] : asked[session][t][n] = Lookup(Result(n)) BY <1>9
<1>11. asked[session][s][n] = Lookup(Result(n)) /\ n <= Len(asked[session][s])
  BY <1>0, <1>6, <1>8, <1>10 DEF RoundsCompared
<1>12. n \in DOMAIN asked[session][s] BY <1>1, <1>11
<1>13. n <= Len(ToLookUp(s)) BY <1>2, <1>3
<1>14. asked[session][s][n] = Lookup(ToLookUp(s)[n]) BY <1>0, <1>12, <1>13 DEF CallsInOrder
<1>15. \A a, b : Lookup(a) = Lookup(b) => a = b
  <2> SUFFICES ASSUME NEW a, NEW b, Lookup(a) = Lookup(b) PROVE a = b OBVIOUS
  <2>1. Lookup(a).lookup = a /\ Lookup(b).lookup = b BY DEF Lookup
  <2> QED BY <2>1
<1>16. Result(n) = ToLookUp(s)[n] BY <1>11, <1>14, <1>15
<1> QED BY <1>2, <1>3, <1>5, <1>9, <1>13, <1>16

(* An event that is forwarded is the one each member has sent.             *)
LEMMA ForwardedIsFinal ==
    ASSUME IInv, NEW n \in DOMAIN decided[session], NEW x \in Forwarded(n), NEW s \in Chosen
    PROVE  /\ s \in members[session] /\ s \in VariantNames
           /\ Len(ToLookUp(s)) <= Len(answers[s]) /\ Final(s) = x /\ x.message = "Forwarded"
<1>0. BankTypeOK /\ SessionIsDraw /\ RoundsCompared BY DEF IInv
<1>1. PICK t \in members[session] : asked[session][t][n] = x BY DEF Forwarded
<1>2. x \in Events /\ decided[session][n] /\ x.message = "Forwarded" BY DEF Forwarded
<1>3. members[session] = Chosen BY <1>0, <1>1 DEF SessionIsDraw
<1>4. s \in members[session] /\ s \in VariantNames BY <1>0, <1>3, AttemptTyped
<1>5. asked[session][s][n] = x /\ n <= Len(asked[session][s])
  BY <1>0, <1>1, <1>2, <1>4 DEF RoundsCompared
<1>6. n \in DOMAIN asked[session][s] BY <1>0, <1>4, <1>5, Lists
<1>7. \A name : x # Lookup(name)
  <2> SUFFICES ASSUME NEW name, x = Lookup(name) PROVE FALSE OBVIOUS
  <2>1. "message" \in DOMAIN x BY <1>2 DEF Events, Event, Verified
  <2>2. DOMAIN Lookup(name) = {"lookup"} BY DEF Lookup
  <2> QED BY <2>1, <2>2
<1>8. CallsInOrder(s) BY <1>4 DEF IInv
<1>9. Len(ToLookUp(s)) <= Len(answers[s]) /\ Final(s) = x
  BY <1>5, <1>6, <1>7, <1>8 DEF CallsInOrder
<1> QED BY <1>2, <1>4, <1>9

LEMMA EventFields ==
    ASSUME NEW x, NEW m, NEW c, x = [message |-> m, client |-> c]
    PROVE  x.message = m /\ x.client = c
OBVIOUS

LEMMA JudgedForwarded ==
    ASSUME NEW request, NEW bearer \in BOOLEAN, NEW x,
           x = Judged(request, bearer), x.message = "Forwarded"
    PROVE  /\ bearer /\ request.token \notin {"malformed", "expired", "denied"}
           /\ x.client = request.holder
<1>1. ASSUME ~bearer PROVE FALSE
  <2>1. x = [message |-> "Missing or invalid token", client |-> None] BY <1>1 DEF Judged
  <2>2. x.message = "Missing or invalid token" BY <2>1, EventFields
  <2> QED BY <2>2
<1>2. ASSUME bearer, request.token \in {"malformed", "expired"} PROVE FALSE
  <2>1. x = [message |-> "Invalid token", client |-> None] BY <1>2 DEF Judged
  <2>2. x.message = "Invalid token" BY <2>1, EventFields
  <2> QED BY <2>2
<1>3. ASSUME bearer, request.token \notin {"malformed", "expired"}
      PROVE  request.token # "denied" /\ x.client = request.holder
  <2> DEFINE m == IF request.token = "denied" THEN "Access denied" ELSE "Forwarded"
  <2>1. x = [message |-> m, client |-> request.holder] BY <1>3 DEF Judged
  <2> HIDE DEF m
  <2>2. x.message = m /\ x.client = request.holder BY <2>1, EventFields
  <2> QED BY <2>2 DEF m
<1> QED BY <1>1, <1>2, <1>3

LEMMA Justifies == IInv => EffectsJustified
<1> SUFFICES ASSUME IInv, NEW c \in Chosen \cap Careful,
                    NEW n \in DOMAIN decided[session], NEW x \in Forwarded(n)
             PROVE  Justified(x)
  BY DEF EffectsJustified
<1>0. BankTypeOK BY DEF IInv
<1>1. /\ c \in members[session] /\ c \in VariantNames
      /\ Len(ToLookUp(c)) <= Len(answers[c]) /\ Final(c) = x /\ x.message = "Forwarded"
  BY ForwardedIsFinal
<1>2. CASE resource.identity = "authorization"
  <2>1. input \in Request BY <1>0, <1>2, InputTyped
  <2>2. c \in {"go", "java", "js", "php"} BY <1>2 DEF Careful, Languages
  <2>3. x \in {GoEvent(input), JavaEvent(input), JsEvent(input), PhpEvent(input)}
    BY <1>1, <1>2, <2>2 DEF Final
  <2>4. PICK bearer \in BOOLEAN : x = Judged(input, bearer)
    BY <2>3 DEF GoEvent, JavaEvent, JsEvent, PhpEvent
  <2>5. input.token \in {"granted", "lowercase"} /\ x.client = input.holder
    <3>1. input.token # "missing"
      <4>1. ASSUME input.token = "missing" PROVE x = Judged(input, FALSE)
        BY <2>3, <4>1 DEF GoEvent, JavaEvent, JsEvent, PhpEvent
      <4> QED BY <1>1, <4>1, JudgedForwarded
    <3>2. bearer /\ input.token \notin {"malformed", "expired", "denied"} /\ x.client = input.holder
      BY <1>1, <2>4, JudgedForwarded
    <3>3. input.token \in Tokens BY <2>1 DEF Request
    <3> QED BY <3>1, <3>2, <3>3 DEF Tokens
  <2> QED BY <1>2, <2>5 DEF Justified
<1>3. CASE resource.identity # "authorization"
  <2>1. input \in Order /\ resource.identity = "verify-transaction" BY <1>0, <1>3, InputTyped
  <2>2. c \in Languages /\ Amount(c) = Worth(input.amount) BY <1>3 DEF Careful
  <2> DEFINE found == [from |-> Id(c, 1), to |-> Id(c, 2)]
             verdict == Verdict(Worth(input.amount), input, found)
  <2>3. /\ x = [message |-> x.message, from |-> Id(c, 1), to |-> Id(c, 2)]
        /\ x.message \in {verdict, "Invalid client usernames"}
    <3> HIDE DEF verdict
    <3>1. CASE c = "go"
      <4>1. GoVerdict(input, found) = verdict BY <2>2, <3>1 DEF GoVerdict, Amount, verdict
      <4>2. x = [message |-> verdict, from |-> Id(c, 1), to |-> Id(c, 2)]
        BY <1>1, <2>1, <3>1, <4>1 DEF Final
      <4> QED BY <4>2
    <3>2. CASE c = "java"
      <4>1. JavaVerdict(input, found) = verdict BY <2>2, <3>2 DEF JavaVerdict, Amount, verdict
      <4>2. x = [message |-> verdict, from |-> Id(c, 1), to |-> Id(c, 2)]
        BY <1>1, <2>1, <3>2, <4>1 DEF Final
      <4> QED BY <4>2
    <3>3. CASE c = "js"
      <4>1. JsVerdict(input, found) = verdict BY <2>2, <3>3 DEF JsVerdict, Amount, verdict
      <4>2. x = [message |-> verdict, from |-> Id(c, 1), to |-> Id(c, 2)]
        BY <1>1, <2>1, <3>3, <4>1 DEF Final
      <4> QED BY <4>2
    <3>4. CASE c = "php"
      <4>1. PhpVerdict(input, found) = verdict BY <2>2, <3>4 DEF PhpVerdict, Amount, verdict
      <4>2. x = [message |-> verdict, from |-> Id(c, 1), to |-> Id(c, 2)]
        BY <1>1, <2>1, <3>4, <4>1 DEF Final
      <4> QED BY <4>2
    <3>5. CASE c = "python"
      <4>1. PythonVerdict(input, found) \in {verdict, "Invalid client usernames"}
        BY <2>2, <3>5 DEF PythonVerdict, Amount, verdict
      <4>2. x = [message |-> PythonVerdict(input, found), from |-> Id(c, 1), to |-> Id(c, 2)]
        BY <1>1, <2>1, <3>5 DEF Final
      <4> QED BY <4>1, <4>2
    <3> QED BY <2>2, <3>1, <3>2, <3>3, <3>4, <3>5 DEF Languages
  <2>4. verdict = "Forwarded" BY <1>1, <2>3
  <2>5. /\ Worth(input.amount) # "invalid" /\ (Worth(input.amount) = "large" => input.otp)
        /\ Id(c, 1) # None /\ Id(c, 2) # None
    BY <2>4 DEF Verdict
  <2>6. Worth(input.amount) = "small" \/ (Worth(input.amount) = "large" /\ input.otp)
    BY <2>5 DEF Worth, Read
  <2>7. /\ 1 <= Len(ToLookUp(c)) /\ Id(c, 1) = ToLookUp(c)[1] /\ Id(c, 1) \in Users
    BY <1>1, <2>5, OwnId
  <2>8. \A j \in 1 .. 2 : Id(c, j) # None
    <3>1. \A j \in 1 .. 2 : j = 1 \/ j = 2 OBVIOUS
    <3> QED BY <2>5, <3>1
  <2>9. /\ 2 <= Len(ToLookUp(c)) /\ Id(c, 2) = ToLookUp(c)[2] /\ Id(c, 2) \in Users
    BY <1>1, <2>8, OwnId
  <2>10. ToLookUp(c) = <<input.client>> \/ ToLookUp(c) = <<input.client, input.destination>>
    <3>1. \E skipped : ToLookUp(c) = Lookups(input, skipped)
      BY <2>1, <2>2
      DEF ToLookUp, Languages, GoLookups, JavaLookups, JsLookups, PhpLookups, PythonLookups
    <3> QED BY <3>1 DEF Lookups
  <2>11. Len(<<input.client>>) = 1 OBVIOUS
  <2>12. ToLookUp(c) = <<input.client, input.destination>> BY <2>9, <2>10, <2>11
  <2>13. x.from = input.client /\ x.to = input.destination /\ x.from \in Users /\ x.to \in Users
    <3>1. PICK m : x = [message |-> m, from |-> Id(c, 1), to |-> Id(c, 2)] BY <2>3
    <3>2. x.from = Id(c, 1) /\ x.to = Id(c, 2) BY <3>1
    <3> QED BY <2>7, <2>9, <2>12, <3>2
  <2> QED BY <2>1, <2>6, <2>13 DEF Justified
<1> QED BY <1>2, <1>3

(* One variant in the draw that reads the amount for what it is, or the    *)
(* name from the token alone, is enough: whatever the request, the clients *)
(* and the number of variants drawn, however calls, rounds and answers     *)
(* interleave and whichever sidecars give up, an event that starts a       *)
(* transaction or its verification is justified by the request and carries *)
(* the ids of its own clients (verify_transaction.go:82-156,               *)
(* authorization.go:44-97, egress-proxy/main.py:68-83).                    *)
THEOREM OneCarefulIsEnough == Spec => []EffectsJustified
<1>1. IInv => EffectsJustified BY Justifies
<1> QED BY <1>1, Invariant, PTL

-----------------------------------------------------------------------------
(* Admission.                                                              *)

(* What was admitted, and why a draw failed. *)
Admitted ==
    /\ BankTypeOK /\ ValidateConcurrency(resource)
    /\ pc = "failed" => resource.concurrency \notin 1 .. Cardinality(Choosable(resource))

(* A list that names no variant twice has as many to choose from as it has *)
(* entries.                                                                *)
LEMMA ChoosableCardinality ==
    ASSUME NEW r \in Resources,
           \A i, j \in DOMAIN r.variants : r.variants[i] = r.variants[j] => i = j
    PROVE  Cardinality(Choosable(r)) = Len(r.variants)
<1> DEFINE l == r.variants
           D == 1 .. Len(l)
           S == Choosable(r)
<1>1. l \in Seq(VariantNames) BY ResourcesAssumption
<1>2. Len(l) \in Nat /\ DOMAIN l = D BY <1>1, LenProperties
<1>3. S = {l[i] : i \in D} BY <1>2 DEF Choosable
<1>4. l \in [D -> S] /\ \A v \in S : \E i \in D : l[i] = v
  <2>1. l = [i \in D |-> l[i]] BY <1>1, <1>2
  <2> HIDE DEF l, D, S
  <2> QED BY <1>3, <2>1
<1>5. \A i, j \in D : l[i] = l[j] => i = j BY <1>2
<1> HIDE DEF l, S
<1>6. l \in Bijection(D, S)
  <2>1. IsInjective(l) BY <1>2, <1>5 DEF IsInjective
  <2> HIDE DEF D
  <2>2. l \in Injection(D, S) BY <1>4, <2>1 DEF Injection
  <2>3. l \in Surjection(D, S) BY <1>4 DEF Surjection
  <2> QED BY <2>2, <2>3 DEF Bijection
<1>7. ExistsBijection(D, S) BY <1>6 DEF ExistsBijection
<1>8. IsFiniteSet(D) /\ Cardinality(D) = Len(l)
  <2>1. 1 \in Int /\ Len(l) \in Int BY <1>2
  <2>2. /\ IsFiniteSet(1 .. Len(l))
        /\ Cardinality(1 .. Len(l)) = IF 1 > Len(l) THEN 0 ELSE Len(l) - 1 + 1
    BY <2>1, FS_Interval, Zenon
  <2>3. (IF 1 > Len(l) THEN 0 ELSE Len(l) - 1 + 1) = Len(l) BY <1>2
  <2> QED BY <2>2, <2>3
<1>9. Cardinality(S) = Cardinality(D) BY <1>7, <1>8, FS_Bijection
<1> QED BY <1>8, <1>9 DEF l, S

LEMMA AdmittedKept == Admitted /\ [Next]_vars => Admitted'
<1> SUFFICES ASSUME Admitted, [Next]_vars PROVE Admitted' OBVIOUS
<1>0. BankTypeOK /\ BankTypeOK' BY TypeKept DEF Admitted
<1>1. attempt \in [{session} -> C!Attempt] /\ attempt[session] \in C!Attempt BY <1>0, AttemptTyped
<1>2. CASE Edit
  <2>1. pc' = "none" /\ ValidateConcurrency(resource')
    BY <1>2 DEF Edit, ValidateUpdate, pc
  <2> QED BY <1>0, <2>1 DEF Admitted, ValidateConcurrency
<1>3. CASE DrawFails
  <2>1. resource' = resource /\ resource.concurrency \notin 1 .. Cardinality(Choosable(resource))
    BY <1>3 DEF DrawFails
  <2> QED BY <1>0, <2>1 DEF Admitted, ValidateConcurrency, Choosable
<1>4. ASSUME resource' = resource, pc' = "failed" => pc = "failed" PROVE Admitted'
  BY <1>0, <1>4 DEF Admitted, ValidateConcurrency, Choosable
<1>5. CASE Receive
  <2>1. pc' = "starting" BY <1>1, <1>5 DEF Receive, C!Receive, pc
  <2> QED BY <1>4, <1>5, <2>1 DEF Receive
<1>6. CASE Dispatch
  <2>1. pc' = "running" BY <1>1, <1>6 DEF Dispatch, C!Dispatch, pc
  <2> QED BY <1>4, <1>6, <2>1 DEF Dispatch
<1>6a. CASE DispatchRefused
  <2>1. pc' = "running" BY <1>1, <1>6a DEF DispatchRefused, C!Dispatch, pc
  <2> QED BY <1>4, <1>6a, <2>1 DEF DispatchRefused
<1>7. CASE Conclude
  <2>1. ASSUME C!Verify(session) PROVE pc' = "closing" BY <1>1, <2>1 DEF C!Verify, pc
  <2>2. ASSUME C!Close(session) PROVE pc' # "failed" BY <1>1, <2>2 DEF C!Close, pc
  <2>3. ASSUME C!Report(session) PROVE pc' = "answered" BY <1>1, <2>3 DEF C!Report, pc
  <2>4. pc' # "failed" BY <1>7, <2>1, <2>2, <2>3 DEF Conclude
  <2> QED BY <1>4, <1>7, <2>4 DEF Conclude
<1>8. ASSUME NEW s \in VariantNames, Reply(s) PROVE Admitted'
  <2>1. pc' = pc BY <1>1, <1>8 DEF Reply, C!VariantReplies, pc, C!Attempt
  <2> QED BY <1>4, <1>8, <2>1 DEF Reply
<1>9. CASE Round \/ RoundFails \/ UNCHANGED vars
  BY <1>4, <1>9 DEF Round, RoundFails, vars, pc
<1>10. ASSUME NEW s \in VariantNames, Call(s) \/ CallUnserved(s) \/ Respond(s) \/ GiveUp(s)
       PROVE  Admitted'
  BY <1>4, <1>10 DEF Call, CallUnserved, Respond, GiveUp, pc
<1> QED BY <1>2, <1>3, <1>5, <1>6, <1>6a, <1>7, <1>8, <1>9, <1>10 DEF Next

(* The webhook's single comparison is enough for a draw from any list of   *)
(* variants, if the concurrency is positive and no variant is listed twice *)
(* (mofaasfunction_webhook.go:116-121, chooser.py:43).                     *)
THEOREM AdmittedIsDrawn == Spec => []AdmittedDraws
<1>1. Init => Admitted
  <2> SUFFICES ASSUME Init PROVE Admitted OBVIOUS
  <2>1. BankTypeOK BY InitTyped
  <2>2. ValidateConcurrency(resource) BY DEF Init, ValidateCreate
  <2>3. pc = "none" BY DEF Init, C!ChooserInit, pc
  <2> QED BY <2>1, <2>2, <2>3 DEF Admitted
<1>2. Admitted /\ [Next]_vars => Admitted' BY AdmittedKept
<1>3. Admitted => AdmittedDraws
  <2> SUFFICES ASSUME Admitted, pc = "failed", ~(resource.concurrency < 1),
                      \A i, j \in DOMAIN resource.variants :
                          resource.variants[i] = resource.variants[j] => i = j
               PROVE  FALSE
    BY DEF AdmittedDraws
  <2>1. resource \in Resources BY DEF Admitted, BankTypeOK
  <2>2. resource.concurrency \in Int /\ resource.variants \in Seq(VariantNames)
    BY <2>1, ResourcesAssumption
  <2>3. Cardinality(Choosable(resource)) = Len(resource.variants) BY <2>1, ChoosableCardinality
  <2>4. resource.concurrency <= Len(resource.variants) BY DEF Admitted, ValidateConcurrency
  <2>5. Len(resource.variants) \in Nat BY <2>2, LenProperties
  <2>6. resource.concurrency \in 1 .. Cardinality(Choosable(resource)) BY <2>2, <2>3, <2>4, <2>5
  <2> QED BY <2>6 DEF Admitted
<1> QED BY <1>1, <1>2, <1>3, PTL DEF Spec

-----------------------------------------------------------------------------
(* Agreement: what else relates rounds, replies and the verdict.           *)

(* A round whose calls are all the same is approved.                       *)
RoundsJudged ==
    \A n \in DOMAIN decided[session] :
        (\A s, t \in members[session] : asked[session][s][n] = asked[session][t][n])
            => decided[session][n]

Outcome(s) == IF Final(s) = None THEN Crash ELSE Final(s).message

(* A variant that has replied has made all its calls and got something for *)
(* each; its reply is the verdict in its event, if it did not crash.       *)
Replied(s) ==
    attempt[session].reply[s] # None =>
        /\ members[session] # {} => Len(answers[s]) = Len(asked[session][s])
        /\ Len(ToLookUp(s)) <= Len(answers[s])
        /\ Len(answers[s]) = Len(ToLookUp(s)) => Final(s) = None
        /\ attempt[session].reply[s] = Outcome(s)

RepliesAgree == \A s, t \in Chosen : attempt[session].reply[s] = attempt[session].reply[t]

(* The verdict compares the replies of all that were drawn.                *)
VerdictCompares ==
    pc \in {"closing", "reporting", "answered"} =>
        /\ \A s \in Chosen : attempt[session].reply[s] # None
        /\ attempt[session].verified => RepliesAgree
        /\ RepliesAgree => attempt[session].verified

(* As many variants were drawn as the resource asks for.                   *)
DrawnToSize ==
    pc \notin {"none", "failed"} =>
        /\ Len(attempt[session].chosen) = resource.concurrency
        /\ resource.concurrency \in 1 .. Cardinality(Choosable(resource))

AgreeInv ==
    /\ IInv /\ RoundsJudged /\ VerdictCompares /\ DrawnToSize
    /\ \A s \in VariantNames : Replied(s)

-----------------------------------------------------------------------------
(* What a step does to the attempt.                                        *)

SameAttempt ==
    /\ pc' = pc /\ Chosen' = Chosen
    /\ attempt'[session].chosen = attempt[session].chosen
    /\ attempt'[session].reply = attempt[session].reply
    /\ attempt'[session].verified = attempt[session].verified

Answers(s) ==
    /\ Serving(s) /\ ~Outstanding(s) /\ NextCall(s) = None
    /\ pc' = pc /\ Chosen' = Chosen
    /\ attempt'[session].chosen = attempt[session].chosen
    /\ attempt'[session].verified = attempt[session].verified
    /\ attempt'[session].reply = [attempt[session].reply EXCEPT ![s] = Outcome(s)]
    /\ resource' = resource /\ asked' = asked /\ told' = told /\ answers' = answers

Compares ==
    /\ pc = "running" /\ pc' = "closing" /\ Chosen' = Chosen
    /\ attempt'[session].chosen = attempt[session].chosen
    /\ attempt'[session].reply = attempt[session].reply
    /\ \A s \in Chosen : attempt[session].reply[s] # None
    /\ attempt'[session].verified = C!Agreed(session)
    /\ resource' = resource

GoesOn ==
    /\ \/ pc = "starting" /\ pc' = "running"
       \/ pc = "closing" /\ pc' \in {"answered", "reporting"}
       \/ pc = "reporting" /\ pc' = "answered"
    /\ Chosen' = Chosen
    /\ attempt'[session].chosen = attempt[session].chosen
    /\ attempt'[session].reply = attempt[session].reply
    /\ attempt'[session].verified = attempt[session].verified
    /\ resource' = resource

Starts ==
    /\ pc = "none" /\ pc' \in {"starting", "failed"}
    /\ attempt'[session].reply = attempt[session].reply
    /\ resource' = resource
    /\ pc' = "starting" =>
          \E l \in C!Samples(Choosable(resource), resource.concurrency) :
              l # <<>> /\ attempt'[session].chosen = l

LEMMA AttemptStep ==
    ASSUME BankTypeOK, [Next]_vars
    PROVE  \/ SameAttempt /\ (resource' = resource \/ pc = "none")
           \/ \E s \in VariantNames : Answers(s)
           \/ Compares \/ GoesOn \/ Starts
<1> DEFINE Goal == \/ SameAttempt /\ (resource' = resource \/ pc = "none")
                   \/ \E s \in VariantNames : Answers(s)
                   \/ Compares \/ GoesOn \/ Starts
<1> SUFFICES Goal OBVIOUS
<1>1. attempt \in [{session} -> C!Attempt] /\ attempt[session] \in C!Attempt BY AttemptTyped
<1>2. attempt' = attempt => SameAttempt BY DEF SameAttempt, pc, Chosen, C!Chosen
<1>3. CASE Edit BY <1>2, <1>3 DEF Edit
<1>4. CASE Receive
  <2>1. PICK l \in C!Samples(Choosable(resource), resource.concurrency) :
            l # <<>> /\ C!Receive(session, session, l)
    BY <1>4 DEF Receive
  <2>2. /\ pc = "none" /\ pc' = "starting" /\ attempt'[session].chosen = l
        /\ attempt'[session].reply = attempt[session].reply
    BY <1>1, <2>1 DEF C!Receive, pc, C!Attempt
  <2>3. resource' = resource BY <1>4 DEF Receive
  <2> QED BY <2>1, <2>2, <2>3 DEF Starts
<1>5. CASE DrawFails
  <2>1. /\ pc = "none" /\ pc' = "failed" /\ attempt'[session].reply = attempt[session].reply
        /\ resource' = resource
    BY <1>1, <1>5 DEF DrawFails, C!DrawFails, pc, C!Attempt
  <2> QED BY <2>1 DEF Starts
<1>6. CASE Dispatch
  <2>1. /\ pc = "starting" /\ pc' = "running" /\ Chosen' = Chosen /\ resource' = resource
        /\ attempt'[session].chosen = attempt[session].chosen
        /\ attempt'[session].reply = attempt[session].reply
        /\ attempt'[session].verified = attempt[session].verified
    BY <1>1, <1>6 DEF Dispatch, C!Dispatch, pc, Chosen, C!Chosen, C!Attempt
  <2> QED BY <2>1 DEF GoesOn
<1>6a. CASE DispatchRefused
  <2>1. /\ pc = "starting" /\ pc' = "running" /\ Chosen' = Chosen /\ resource' = resource
        /\ attempt'[session].chosen = attempt[session].chosen
        /\ attempt'[session].reply = attempt[session].reply
        /\ attempt'[session].verified = attempt[session].verified
    BY <1>1, <1>6a DEF DispatchRefused, C!Dispatch, pc, Chosen, C!Chosen, C!Attempt
  <2> QED BY <2>1 DEF GoesOn
<1>7. CASE Conclude
  <2>0. resource' = resource BY <1>7 DEF Conclude
  <2>1. CASE C!Verify(session)
    <3>1. /\ pc = "running" /\ pc' = "closing" /\ Chosen' = Chosen
          /\ attempt'[session].chosen = attempt[session].chosen
          /\ attempt'[session].reply = attempt[session].reply
          /\ attempt'[session].verified = C!Agreed(session)
      BY <1>1, <2>1 DEF C!Verify, pc, Chosen, C!Chosen, C!Attempt
    <3>2. \A s \in Chosen : attempt[session].reply[s] # None BY <2>1 DEF C!Verify, Chosen
    <3> QED BY <2>0, <3>1, <3>2 DEF Compares
  <2>2. CASE C!Close(session) \/ C!Report(session)
    <3>1. /\ \/ pc = "closing" /\ pc' \in {"answered", "reporting"}
             \/ pc = "reporting" /\ pc' = "answered"
          /\ Chosen' = Chosen
          /\ attempt'[session].chosen = attempt[session].chosen
          /\ attempt'[session].reply = attempt[session].reply
          /\ attempt'[session].verified = attempt[session].verified
      BY <1>1, <2>2 DEF C!Close, C!Report, pc, Chosen, C!Chosen, C!Attempt
    <3> QED BY <2>0, <3>1 DEF GoesOn
  <2> QED BY <1>7, <2>1, <2>2 DEF Conclude
<1>8. ASSUME NEW s \in VariantNames, Reply(s) PROVE Goal
  <2>1. /\ pc' = pc /\ Chosen' = Chosen
        /\ attempt'[session].chosen = attempt[session].chosen
        /\ attempt'[session].verified = attempt[session].verified
        /\ attempt'[session].reply = [attempt[session].reply EXCEPT ![s] = Outcome(s)]
    BY <1>1, <1>8 DEF Reply, C!VariantReplies, pc, Chosen, C!Chosen, C!Attempt, Outcome
  <2>2. /\ Serving(s) /\ ~Outstanding(s) /\ NextCall(s) = None
        /\ resource' = resource /\ asked' = asked /\ told' = told /\ answers' = answers
    BY <1>8 DEF Reply, gate
  <2> QED BY <2>1, <2>2 DEF Answers
<1>9. CASE Round \/ RoundFails \/ UNCHANGED vars
  BY <1>2, <1>9 DEF Round, RoundFails, vars
<1>10. ASSUME NEW s \in VariantNames, Call(s) \/ CallUnserved(s) \/ Respond(s) \/ GiveUp(s)
       PROVE  Goal
  BY <1>2, <1>10 DEF Call, CallUnserved, Respond, GiveUp
<1> QED BY <1>3, <1>4, <1>5, <1>6, <1>6a, <1>7, <1>8, <1>9, <1>10 DEF Next

-----------------------------------------------------------------------------
(* The invariant is kept.                                                  *)

LEMMA RoundsJudgedKept == ASSUME IInv, RoundsJudged, [Next]_vars PROVE RoundsJudged'
<1>0. /\ BankTypeOK /\ BankTypeOK' /\ SessionIsDraw /\ RoundsCompared /\ RoundsCompared'
  BY TypeKept, RoundsKept DEF IInv
<1> SUFFICES ASSUME NEW n \in DOMAIN decided'[session],
                    \A s, t \in members'[session] : asked'[session][s][n] = asked'[session][t][n]
             PROVE  decided'[session][n]
  BY DEF RoundsJudged
<1>1. ~Round => decided' = decided
  BY DEF Next, Edit, Receive, DrawFails, Dispatch, DispatchRefused, RoundFails, Conclude, Call,
         CallUnserved, Reply, Respond, GiveUp, vars, gate, G!Open, G!Ask, G!Tell
<1>2. decided[session] \in Seq(BOOLEAN) /\ decided'[session] \in Seq(BOOLEAN)
  BY <1>0 DEF BankTypeOK
<1>3. ASSUME n \in DOMAIN decided[session], decided'[session][n] = decided[session][n]
      PROVE  decided'[session][n]
  <2>1. members[session] # {}
    <3>1. decided[session] # <<>> BY <1>3
    <3> QED BY <1>0, <3>1 DEF SessionIsDraw
  <2>2. members'[session] = members[session] BY <2>1, SessionStep
  <2>3. members[session] \subseteq VariantNames BY <1>0 DEF BankTypeOK
  <2>4. ASSUME NEW s \in members[session] PROVE asked'[session][s][n] = asked[session][s][n]
    <3>1. n <= Len(asked[session][s]) BY <1>0, <1>3 DEF RoundsCompared
    <3>2. Len(asked[session][s]) \in Nat BY <1>0, <2>3, Lists
    <3>3. n \in 1 .. Len(asked[session][s]) BY <1>2, <1>3, <3>1, <3>2
    <3> QED BY <2>3, <3>3, ListsGrow DEF Begins
  <2>5. \A s, t \in members[session] : asked[session][s][n] = asked[session][t][n]
    BY <2>2, <2>4
  <2> QED BY <1>3, <2>5 DEF RoundsJudged
<1>4. CASE Round
  <2> DEFINE m == Len(decided[session]) + 1
             b == \A s, t \in members[session] : asked[session][s][m] = asked[session][t][m]
  <2>1. /\ decided' = [decided EXCEPT ![session] = Append(@, b)]
        /\ members' = members /\ asked' = asked
    BY <1>4 DEF Round, G!Decide
  <2>2. b \in BOOLEAN OBVIOUS
  <2>3. n = m => b BY <2>1
  <2> HIDE DEF b
  <2>4. decided'[session] = Append(decided[session], b) BY <1>0, <2>1 DEF BankTypeOK
  <2>5. /\ Len(decided'[session]) = m /\ decided'[session][m] = b
        /\ \A k \in 1 .. Len(decided[session]) : decided'[session][k] = decided[session][k]
    BY <1>2, <2>2, <2>4, AppendProperties
  <2>6. n \in 1 .. m BY <1>2, <2>5
  <2>7. CASE n = m BY <2>3, <2>5, <2>7
  <2>8. CASE n # m
    <3>1. n \in 1 .. Len(decided[session]) BY <1>2, <2>6, <2>8
    <3>2. n \in DOMAIN decided[session] BY <1>2, <3>1
    <3> QED BY <1>3, <2>5, <3>1, <3>2
  <2> QED BY <2>7, <2>8
<1>5. CASE ~Round BY <1>1, <1>3, <1>5
<1> QED BY <1>4, <1>5

(* A variant that has nothing more to ask has made all its lookups, and    *)
(* its event unless it crashes.                                            *)
LEMMA NothingMore ==
    ASSUME BankTypeOK, NEW s \in VariantNames, NextCall(s) = None
    PROVE  /\ Len(ToLookUp(s)) <= Len(answers[s])
           /\ Len(answers[s]) = Len(ToLookUp(s)) => Final(s) = None
<1>1. Len(answers[s]) \in Nat BY Lists
<1>2. ToLookUp(s) \in Seq(LookedUp) /\ Len(ToLookUp(s)) \in 0 .. 2 BY LookUpsTyped
<1>3. ~(Len(answers[s]) + 1 <= Len(ToLookUp(s)))
  <2> SUFFICES ASSUME Len(answers[s]) + 1 <= Len(ToLookUp(s)) PROVE FALSE OBVIOUS
  <2>1. Len(answers[s]) + 1 \in 1 .. Len(ToLookUp(s)) BY <1>1, <1>2
  <2>2. ToLookUp(s)[Len(answers[s]) + 1] \in LookedUp BY <1>2, <2>1, ElementOfSeq
  <2>3. Lookup(ToLookUp(s)[Len(answers[s]) + 1]) \in Calls BY <2>2 DEF Calls, LookedUp
  <2>4. NextCall(s) = Lookup(ToLookUp(s)[Len(answers[s]) + 1]) BY DEF NextCall
  <2> QED BY <2>3, <2>4, CallsAssumption
<1>4. Len(ToLookUp(s)) <= Len(answers[s]) BY <1>1, <1>2, <1>3
<1>5. ASSUME Len(answers[s]) = Len(ToLookUp(s)) PROVE Final(s) = None
  BY <1>1, <1>2, <1>3, <1>5 DEF NextCall
<1> QED BY <1>4, <1>5

(* A variant that has replied does nothing more.                           *)
LEMMA RepliedRests ==
    ASSUME BankTypeOK, [Next]_vars, NEW s \in VariantNames, attempt[session].reply[s] # None
    PROVE  Stays(s)
<1>a. /\ asked \in [{session} -> [VariantNames -> Seq(Calls)]]
      /\ told \in [{session} -> [VariantNames -> Seq(Nat)]]
      /\ answers \in [VariantNames -> Seq(Ids)]
  BY DEF BankTypeOK, Ids
<1>1. CASE asked' = asked /\ told' = told /\ answers' = answers BY <1>1 DEF Stays
<1>2. ~Serving(s) BY DEF Serving
<1>3. ASSUME NEW t \in VariantNames, Call(t) PROVE Stays(s)
  <2>1. /\ asked' = [asked EXCEPT ![session][t] = Append(@, NextCall(t))]
        /\ answers' = answers /\ told' = told /\ s # t
    BY <1>2, <1>3 DEF Call, G!Ask
  <2> QED BY <1>a, <2>1 DEF Stays
<1>4. ASSUME NEW t \in VariantNames, Respond(t) PROVE Stays(s)
  <2>1. /\ told' = [told EXCEPT ![session][t] = Append(@, Len(@) + 1)]
        /\ asked' = asked /\ Received(t) /\ s # t
    BY <1>2, <1>4 DEF Respond, G!Tell
  <2>2. answers'[s] = answers[s] BY <1>a, <2>1 DEF Received
  <2> QED BY <1>a, <2>1, <2>2 DEF Stays
<1>5. ASSUME NEW t \in VariantNames, GiveUp(t) PROVE Stays(s)
  <2>1. /\ answers' = [answers EXCEPT ![t] = Append(@, TimedOut)]
        /\ asked' = asked /\ told' = told /\ s # t
    BY <1>2, <1>5 DEF GiveUp, gate
  <2> QED BY <1>a, <2>1 DEF Stays
<1>6. ASSUME NEW t \in VariantNames, Reply(t) PROVE Stays(s)
  BY <1>6 DEF Reply, gate, Stays
<1>7. CASE Edit \/ Receive \/ DrawFails \/ DispatchRefused \/ RoundFails \/ Conclude
           \/ UNCHANGED vars
  BY <1>1, <1>7 DEF Edit, Receive, DrawFails, DispatchRefused, RoundFails, Conclude, vars, gate
<1>8. CASE Dispatch \/ Round BY <1>1, <1>8 DEF Dispatch, G!Open, Round, G!Decide
<1>9. ASSUME NEW t \in VariantNames, CallUnserved(t) PROVE Stays(s)
  <2>1. /\ answers' = [answers EXCEPT ![t] = Append(@, None)]
        /\ asked' = asked /\ told' = told /\ s # t
    BY <1>2, <1>9 DEF CallUnserved, gate
  <2> QED BY <1>a, <2>1 DEF Stays
<1> QED BY <1>9, <1>3, <1>4, <1>5, <1>6, <1>7, <1>8 DEF Next

LEMMA RepliedKept ==
    ASSUME IInv, [Next]_vars, NEW s \in VariantNames, Replied(s)
    PROVE  Replied(s)'
<1>0. BankTypeOK /\ CallsInOrder(s) BY DEF IInv
<1>1. attempt[session].reply \in [VariantNames -> {e.message : e \in Events} \cup {Crash} \cup {None}]
  BY <1>0, AttemptTyped DEF C!Attempt
<1>2. ToLookUp(s)' = ToLookUp(s) BY LookUpsKept
<1>a. members'[session] # {} /\ members[session] = {} => Len(answers'[s]) = Len(asked'[session][s])
  <2> SUFFICES ASSUME members'[session] # {}, members[session] = {}
               PROVE  Len(answers'[s]) = Len(asked'[session][s])
    OBVIOUS
  <2>1. answers'[s] = <<>> BY OpeningStep
  <2>2. asked[session][s] = <<>> BY DEF IInv, Unasked
  <2>3. asked'[session][s] = asked[session][s]
    BY LocalStep DEF Stays, Asks, GetsLate, Gets, Quits, Misses, Learns
  <2> QED BY <2>1, <2>2, <2>3
<1>3. ASSUME attempt[session].reply[s] # None,
             attempt'[session].reply[s] = attempt[session].reply[s]
      PROVE  Replied(s)'
  <2>1. Stays(s) BY <1>0, <1>3, RepliedRests
  <2>2. Final(s)' = Final(s) BY <1>3, FinalKept DEF Replied
  <2>3. Outcome(s)' = Outcome(s) BY <2>2 DEF Outcome, Crash
  <2> QED BY <1>2, <1>a, <1>3, <2>1, <2>2, <2>3 DEF Replied, Stays
<1>4. ASSUME attempt'[session].reply[s] = attempt[session].reply[s] PROVE Replied(s)'
  <2>1. CASE attempt[session].reply[s] = None BY <1>4, <2>1 DEF Replied
  <2> QED BY <1>3, <1>4, <2>1
<1>5. ASSUME NEW t \in VariantNames, Answers(t) PROVE Replied(s)'
  <2>1. CASE s # t BY <1>1, <1>4, <1>5, <2>1 DEF Answers
  <2>2. CASE s = t
    <3>1. attempt'[session].reply[s] = Outcome(s) BY <1>1, <1>5, <2>2 DEF Answers
    <3>2. /\ Len(ToLookUp(s)) <= Len(answers[s])
          /\ Len(answers[s]) = Len(ToLookUp(s)) => Final(s) = None
      BY <1>0, <1>5, <2>2, NothingMore DEF Answers
    <3>3. ASSUME members[session] # {} PROVE Len(answers[s]) = Len(asked[session][s])
      <4>1. Len(answers[s]) <= Len(asked[session][s]) BY <1>0, <3>3 DEF CallsInOrder
      <4>2. ~(Len(answers[s]) < Len(asked[session][s])) BY <1>5, <2>2 DEF Answers, Outstanding
      <4> QED BY <1>0, <4>1, <4>2, Lists
    <3>4. Stays(s) BY <1>5 DEF Answers, Stays
    <3>5. Final(s)' = Final(s) BY <3>2, FinalKept
    <3>6. Outcome(s)' = Outcome(s) BY <3>5 DEF Outcome, Crash
    <3> QED BY <1>2, <1>a, <3>1, <3>2, <3>3, <3>4, <3>5, <3>6 DEF Replied, Stays
  <2> QED BY <2>1, <2>2
<1>6. CASE SameAttempt \/ Compares \/ GoesOn \/ Starts
  BY <1>4, <1>6 DEF SameAttempt, Compares, GoesOn, Starts
<1> QED BY <1>0, <1>5, <1>6, AttemptStep

(* All replies are equal if each is equal to the first.                    *)
LEMMA AgreedCompares ==
    ASSUME BankTypeOK, attempt[session].chosen # <<>>
    PROVE  /\ C!Agreed(session) => RepliesAgree
           /\ RepliesAgree => C!Agreed(session)
<1> DEFINE l == attempt[session].chosen
<1>1. l \in Seq(VariantNames) BY AttemptTyped DEF C!Attempt
<1>2. Len(l) \in Nat /\ DOMAIN l = 1 .. Len(l) /\ Len(l) # 0 BY <1>1, LenProperties, EmptySeq
<1>3. Chosen = {l[i] : i \in 1 .. Len(l)} BY <1>2 DEF Chosen, C!Chosen
<1>4. C!Agreed(session) <=>
          \A i \in 2 .. Len(l) : attempt[session].reply[l[i]] = attempt[session].reply[l[1]]
  BY DEF C!Agreed
<1> HIDE DEF l
<1>5. ASSUME C!Agreed(session) PROVE RepliesAgree
  <2>1. \A i \in 1 .. Len(l) : attempt[session].reply[l[i]] = attempt[session].reply[l[1]]
    <3> TAKE i \in 1 .. Len(l)
    <3>1. i = 1 \/ i \in 2 .. Len(l) BY <1>2
    <3> QED BY <1>4, <1>5, <3>1
  <2> QED BY <1>3, <2>1 DEF RepliesAgree
<1>6. ASSUME RepliesAgree PROVE C!Agreed(session)
  <2>1. \A i \in 2 .. Len(l) : i \in 1 .. Len(l) /\ 1 \in 1 .. Len(l) BY <1>2
  <2> QED BY <1>3, <1>4, <1>6, <2>1 DEF RepliesAgree
<1> QED BY <1>5, <1>6

LEMMA DrawnKept ==
    ASSUME BankTypeOK, BankTypeOK', DrawnToSize, [Next]_vars
    PROVE  DrawnToSize'
<1>0. attempt[session] \in C!Attempt BY AttemptTyped
<1>1. ASSUME resource' = resource, pc' \notin {"none", "failed"} => pc \notin {"none", "failed"},
             attempt'[session].chosen = attempt[session].chosen
      PROVE  DrawnToSize'
  BY <1>1 DEF DrawnToSize, Choosable
<1>2. CASE SameAttempt /\ (resource' = resource \/ pc = "none")
  BY <1>1, <1>2 DEF SameAttempt, DrawnToSize
<1>3. CASE Compares \/ GoesOn BY <1>1, <1>3 DEF Compares, GoesOn
<1>4. ASSUME NEW s \in VariantNames, Answers(s) PROVE DrawnToSize'
  BY <1>1, <1>4 DEF Answers
<1>5. CASE Starts
  <2>1. CASE pc' # "starting" BY <1>5, <2>1 DEF Starts, DrawnToSize
  <2>2. CASE pc' = "starting"
    <3>1. PICK l \in C!Samples(Choosable(resource), resource.concurrency) :
              l # <<>> /\ attempt'[session].chosen = l
      BY <1>5, <2>2 DEF Starts
    <3> DEFINE k == resource.concurrency
               V == Choosable(resource)
    <3>2. resource \in Resources /\ resource.variants \in Seq(VariantNames) /\ k \in Int
      BY InputTyped, ResourcesAssumption
    <3>3. l \in [1 .. k -> V] /\ \A i, j \in DOMAIN l : l[i] = l[j] => i = j
      BY <3>1 DEF C!Samples
    <3>4. k >= 1
      <4> SUFFICES ASSUME ~(k >= 1) PROVE FALSE OBVIOUS
      <4>1. 1 .. k = {} BY <3>2
      <4>2. DOMAIN l = {} BY <3>3, <4>1
      <4>3. l = <<>> BY <3>3, <4>1, <4>2
      <4> QED BY <3>1, <4>3
    <3>5. k \in Nat BY <3>2, <3>4
    <3>6. Len(l) = k BY <3>3, <3>5, LenProperties, SeqDef
    <3>7. V = {resource.variants[i] : i \in 1 .. Len(resource.variants)}
      BY <3>2, LenProperties DEF Choosable
    <3>8. IsFiniteSet(V)
      <4>1. 1 \in Int /\ Len(resource.variants) \in Int BY <3>2, LenProperties
      <4>2. IsFiniteSet(1 .. Len(resource.variants)) BY <4>1, FS_Interval, Zenon
      <4> DEFINE v == [i \in 1 .. Len(resource.variants) |-> resource.variants[i]]
      <4>3. v \in Surjection(1 .. Len(resource.variants), V) BY <3>7 DEF Surjection
      <4> HIDE DEF v
      <4> QED BY <4>2, <4>3, FS_Surjection
    <3>9. l \in Injection(1 .. k, V) BY <3>3 DEF Injection, IsInjective
    <3>10. IsFiniteSet(1 .. k) /\ Cardinality(1 .. k) = k
      <4>1. 1 \in Int /\ k \in Int BY <3>5
      <4>2. IsFiniteSet(1 .. k) /\ Cardinality(1 .. k) = IF 1 > k THEN 0 ELSE k - 1 + 1
        BY <4>1, FS_Interval, Zenon
      <4> QED BY <3>4, <3>5, <4>2
    <3>11. k <= Cardinality(V)
      <4>1. Cardinality(1 .. k) <= Cardinality(V) BY <3>8, <3>9, FS_Injection
      <4> QED BY <3>10, <4>1
    <3>12. Cardinality(V) \in Nat BY <3>8, FS_CardinalityType
    <3>13. resource' = resource BY <1>5 DEF Starts
    <3>14. k \in 1 .. Cardinality(V) BY <3>4, <3>5, <3>11, <3>12
    <3> QED BY <3>1, <3>6, <3>13, <3>14 DEF DrawnToSize, Choosable
  <2> QED BY <2>1, <2>2
<1> QED BY <1>2, <1>3, <1>4, <1>5, AttemptStep

LEMMA VerdictKept ==
    ASSUME BankTypeOK, DrawnToSize, VerdictCompares, [Next]_vars
    PROVE  VerdictCompares'
<1>0. attempt[session] \in C!Attempt BY AttemptTyped
<1>1. ASSUME Chosen' = Chosen, attempt'[session].reply = attempt[session].reply,
             attempt'[session].verified = attempt[session].verified,
             pc' \in {"closing", "reporting", "answered"} =>
                 pc \in {"closing", "reporting", "answered"}
      PROVE  VerdictCompares'
  BY <1>1 DEF VerdictCompares, RepliesAgree
<1>2. CASE SameAttempt BY <1>1, <1>2 DEF SameAttempt
<1>3. CASE GoesOn BY <1>1, <1>3 DEF GoesOn
<1>4. ASSUME NEW s \in VariantNames, Answers(s) PROVE VerdictCompares'
  BY <1>4 DEF Answers, Serving, VerdictCompares
<1>5. CASE Starts BY <1>5 DEF Starts, VerdictCompares
<1>6. CASE Compares
  <2>1. attempt[session].chosen # <<>>
    <3>1. Len(attempt[session].chosen) >= 1
      <4>1. resource.concurrency \in 1 .. Cardinality(Choosable(resource))
        BY <1>6 DEF Compares, DrawnToSize
      <4>2. Len(attempt[session].chosen) = resource.concurrency BY <1>6 DEF Compares, DrawnToSize
      <4> QED BY <4>1, <4>2
    <3>2. Len(<<>>) = 0 OBVIOUS
    <3> QED BY <3>1, <3>2
  <2>2. /\ C!Agreed(session) => RepliesAgree
        /\ RepliesAgree => C!Agreed(session)
    BY <2>1, AgreedCompares
  <2>3. RepliesAgree' <=> RepliesAgree BY <1>6 DEF Compares, RepliesAgree
  <2>4. attempt'[session].verified => RepliesAgree' BY <1>6, <2>2, <2>3 DEF Compares
  <2>5. RepliesAgree' => attempt'[session].verified BY <1>6, <2>2, <2>3 DEF Compares
  <2>6. \A s \in Chosen' : attempt'[session].reply[s] # None BY <1>6 DEF Compares
  <2> QED BY <2>4, <2>5, <2>6 DEF VerdictCompares
<1> QED BY <1>2, <1>3, <1>4, <1>5, <1>6, AttemptStep

(* Rounds are decided by agreement, replies tell the verdict in the event, *)
(* and the chooser's verdict compares all of them.                         *)
LEMMA Agreement == Spec => []AgreeInv
<1>1. ASSUME Init PROVE RoundsJudged /\ VerdictCompares /\ DrawnToSize
  <2>1. pc = "none" BY <1>1 DEF Init, C!ChooserInit, pc
  <2>2. decided[session] = <<>> BY <1>1 DEF Init, G!GateInit
  <2>3. RoundsJudged BY <2>2 DEF RoundsJudged
  <2> QED BY <2>1, <2>3 DEF VerdictCompares, DrawnToSize
<1>2. ASSUME Init, NEW s \in VariantNames PROVE Replied(s)
  <2>1. attempt[session].reply[s] = None BY <1>2 DEF Init, C!ChooserInit
  <2> QED BY <2>1 DEF Replied
<1> DEFINE J == RoundsJudged /\ VerdictCompares /\ DrawnToSize /\ \A s \in VariantNames : Replied(s)
<1>3. ASSUME IInv, IInv', J, [Next]_vars PROVE J'
  <2>1. BankTypeOK /\ BankTypeOK' BY <1>3 DEF IInv
  <2>2. RoundsJudged' BY <1>3, RoundsJudgedKept
  <2>3. VerdictCompares' BY <1>3, <2>1, VerdictKept
  <2>4. DrawnToSize' BY <1>3, <2>1, DrawnKept
  <2>5. \A s \in VariantNames : Replied(s)' BY <1>3, RepliedKept
  <2> QED BY <2>2, <2>3, <2>4, <2>5
<1>4. Init => J BY <1>1, <1>2
<1>5. IInv /\ J => AgreeInv BY DEF AgreeInv
<1>6. IInv /\ IInv' /\ J /\ [Next]_vars => J' BY <1>3
<1> HIDE DEF J
<1> QED BY <1>4, <1>5, <1>6, Invariant, PTL DEF Spec

-----------------------------------------------------------------------------
(* Plain requests.                                                         *)

(* While its sidecar has not given up, a variant in a session got for each *)
(* call the result of the call's round.                                    *)
Waited(s) == \A n \in DOMAIN answers[s] : answers[s][n] # TimedOut

LEMMA InStepWithRounds ==
    ASSUME IInv, NEW s \in VariantNames, Waited(s), members[session] # {},
           NEW n \in DOMAIN answers[s]
    PROVE  /\ answers[s][n] # TimedOut /\ answers[s][n] = Result(n)
           /\ n <= Len(told[session][s]) /\ n <= Len(decided[session])
<1>0. BankTypeOK /\ AnswersInStep(s) BY DEF IInv
<1>1. /\ Len(answers[s]) \in Nat /\ DOMAIN answers[s] = 1 .. Len(answers[s])
      /\ Len(told[session][s]) \in Nat /\ Len(decided[session]) \in Nat
  BY <1>0, Lists
<1>2. \A j \in 1 .. n : j \in DOMAIN answers[s] BY <1>1
<1>3. InStep(s, n) BY <1>2 DEF InStep, Waited
<1>4. n <= Len(told[session][s]) /\ answers[s][n] = Result(n) BY <1>0, <1>3 DEF AnswersInStep
<1>5. n <= Len(decided[session]) BY <1>0, <1>1, <1>4 DEF AnswersInStep
<1> QED BY <1>4, <1>5 DEF Waited

(* GaveUp looks at all the calls a variant makes: if it is empty, every    *)
(* variant waited.                                                         *)
LEMMA NoneGaveUp ==
    ASSUME IInv, GaveUp = {}, NEW s \in VariantNames
    PROVE  Waited(s)
<1>0. BankTypeOK /\ CallsInOrder(s) /\ Len(ToLookUp(s)) \in 0 .. 2 BY LookUpsTyped DEF IInv
<1>1. /\ Len(answers[s]) \in Nat /\ DOMAIN answers[s] = 1 .. Len(answers[s])
      /\ Len(asked[session][s]) \in Nat /\ DOMAIN asked[session][s] = 1 .. Len(asked[session][s])
  BY <1>0, Lists
<1>2. CASE members[session] = {}
  <2>1. \A n \in DOMAIN answers[s] : answers[s][n] = None BY <1>2 DEF IInv, Unasked
  <2> QED BY <2>1, BankAssumption DEF Waited
<1>3. ASSUME members[session] # {}, NEW j \in DOMAIN answers[s] PROVE answers[s][j] # TimedOut
  <2>1. j \in DOMAIN asked[session][s] BY <1>0, <1>1, <1>3 DEF CallsInOrder
  <2>2. j <= Len(ToLookUp(s)) + 1 BY <1>0, <1>1, <2>1 DEF CallsInOrder
  <2>3. j \in 1 .. 3
    <3>1. j \in Nat /\ 1 <= j BY <1>1
    <3>2. PICK k \in 0 .. 2 : k = Len(ToLookUp(s)) BY <1>0
    <3>3. j <= k + 1 BY <2>2, <3>2
    <3> QED BY <3>1, <3>3
  <2> DEFINE p == <<s, j>>
  <2>4. p \in VariantNames \X (1 .. 3) /\ p[1] = s /\ p[2] = j BY <2>3
  <2>5. p \notin GaveUp OBVIOUS
  <2> HIDE DEF p
  <2> QED BY <2>4, <2>5 DEF GaveUp
<1> QED BY <1>2, <1>3 DEF Waited

(* Whatever their languages, variants read a plain request alike.          *)
LEMMA ReadAlike ==
    ASSUME BankTypeOK, Plain, NEW s \in Chosen, NEW t \in Chosen
    PROVE  /\ ToLookUp(s) = ToLookUp(t)
           /\ Id(s, 1) = Id(t, 1) /\ Id(s, 2) = Id(t, 2) => Final(s) = Final(t)
<1>1. s \in Languages /\ t \in Languages BY AttemptTyped, BankAssumption
<1>2. CASE resource.identity = "authorization"
  <2>1. input.token # "lowercase" /\ "python" \notin Chosen BY <1>2 DEF Plain
  <2>2. \A u \in {s, t} : u \in {"go", "java", "js", "php"} BY <1>1, <2>1 DEF Languages
  <2>3. (input.token \notin {"missing", "lowercase"}) = (input.token # "missing") BY <2>1
  <2>4. \A u \in {s, t} : Final(u) = Judged(input, input.token # "missing")
    BY <1>2, <2>2, <2>3 DEF Final, GoEvent, JavaEvent, JsEvent, PhpEvent
  <2>5. ToLookUp(s) = <<>> /\ ToLookUp(t) = <<>> BY <1>2 DEF ToLookUp
  <2> QED BY <2>4, <2>5
<1>3. CASE resource.identity # "authorization"
  <2>1. input \in Order /\ resource.identity = "verify-transaction" BY <1>3, InputTyped
  <2>2. input.destination \notin {Absent, EmptyString}
    BY <1>3, ClientsAssumption DEF Plain
  <2>3. \A u \in {s, t} : ToLookUp(u) = <<input.client, input.destination>>
    BY <1>1, <1>3, <2>2
    DEF ToLookUp, Languages, GoLookups, JavaLookups, JsLookups, PhpLookups, PythonLookups, Lookups
  <2>4. /\ input.amount \in {"small", "large"}
        /\ input.amount = "large" /\ "python" \in Chosen => input.otp
    BY <1>3 DEF Plain
  <2> DEFINE found(u) == [from |-> Id(u, 1), to |-> Id(u, 2)]
             verdict(u) == Verdict(input.amount, input, found(u))
  <2>5. ASSUME NEW u \in {s, t}
        PROVE  Final(u) = [message |-> verdict(u), from |-> Id(u, 1), to |-> Id(u, 2)]
    <3>1. /\ GoAmount(input.amount) = input.amount /\ JavaAmount(input.amount) = input.amount
          /\ JsAmount(input.amount) = input.amount /\ PhpAmount(input.amount) = input.amount
          /\ PythonAmount(input.amount) = input.amount
      BY <2>4 DEF GoAmount, JavaAmount, JsAmount, PhpAmount, PythonAmount, Read, Amounts
    <3>2. u \in Languages BY <1>1
    <3>3. u = "python" => PythonVerdict(input, found(u)) = verdict(u)
      <4> SUFFICES ASSUME u = "python" PROVE PythonVerdict(input, found(u)) = verdict(u) OBVIOUS
      <4>1. input.amount = "large" => input.otp BY <2>4
      <4>2. CASE found(u).to = None
        <5>1. PythonVerdict(input, found(u)) = "Invalid client usernames"
          BY <4>2 DEF PythonVerdict
        <5>2. verdict(u) = "Invalid client usernames" BY <2>4, <4>1, <4>2 DEF Verdict
        <5> QED BY <5>1, <5>2
      <4>3. CASE found(u).to # None BY <3>1, <4>3 DEF PythonVerdict
      <4> QED BY <4>2, <4>3
    <3>4. /\ GoVerdict(input, found(u)) = verdict(u) /\ JavaVerdict(input, found(u)) = verdict(u)
          /\ JsVerdict(input, found(u)) = verdict(u) /\ PhpVerdict(input, found(u)) = verdict(u)
      BY <3>1 DEF GoVerdict, JavaVerdict, JsVerdict, PhpVerdict
    <3> HIDE DEF verdict
    <3> QED BY <2>1, <3>2, <3>3, <3>4 DEF Final, Languages
  <2> QED BY <2>3, <2>5
<1> QED BY <1>2, <1>3

(* Variants that have had their answers send the same event.               *)
LEMMA SameFinal ==
    ASSUME IInv, Plain, GaveUp = {}, NEW s \in Chosen, NEW t \in Chosen,
           Len(ToLookUp(s)) <= Len(answers[s]), Len(ToLookUp(t)) <= Len(answers[t])
    PROVE  Final(s) = Final(t)
<1>0. BankTypeOK BY DEF IInv
<1>1. s \in VariantNames /\ t \in VariantNames BY <1>0, AttemptTyped
<1>2. ToLookUp(s) = ToLookUp(t) /\ Len(ToLookUp(s)) \in 0 .. 2
  BY <1>0, <1>1, ReadAlike, LookUpsTyped
<1>3. ASSUME NEW u \in {s, t}, NEW n \in {1, 2}
      PROVE  Id(u, n) = IF n <= Len(ToLookUp(s)) /\ members[session] # {} THEN Result(n) ELSE None
  <2>1. CASE n <= Len(ToLookUp(s))
    <3>1. n \in DOMAIN answers[u] BY <1>0, <1>1, <1>2, <2>1, Lists
    <3>2. CASE members[session] # {}
      <4>1. answers[u][n] # TimedOut /\ answers[u][n] = Result(n)
        BY <1>1, <3>1, <3>2, InStepWithRounds, NoneGaveUp
      <4> QED BY <1>2, <2>1, <3>2, <4>1 DEF Id
    <3>3. CASE members[session] = {}
      <4>1. answers[u][n] = None BY <1>1, <3>1, <3>3 DEF IInv, Unasked
      <4> QED BY <1>2, <2>1, <3>3, <4>1 DEF Id
    <3> QED BY <3>2, <3>3
  <2>2. CASE ~(n <= Len(ToLookUp(s))) BY <1>2, <2>2 DEF Id
  <2> QED BY <2>1, <2>2
<1>4. Id(s, 1) = Id(t, 1) /\ Id(s, 2) = Id(t, 2) BY <1>3
<1> QED BY <1>0, <1>4, ReadAlike

LEMMA SameCalls ==
    ASSUME IInv, Plain, GaveUp = {}, NEW s \in Chosen, NEW t \in Chosen,
           NEW n \in DOMAIN asked[session][s], n \in DOMAIN asked[session][t]
    PROVE  asked[session][s][n] = asked[session][t][n]
<1>0. BankTypeOK BY DEF IInv
<1>1. s \in VariantNames /\ t \in VariantNames BY <1>0, AttemptTyped
<1>2. ToLookUp(s) = ToLookUp(t) BY <1>0, ReadAlike
<1>3. CallsInOrder(s) /\ CallsInOrder(t) BY <1>1 DEF IInv
<1>4. Len(ToLookUp(s)) \in 0 .. 2 /\ n \in Nat BY <1>0, <1>1, LookUpsTyped, Lists
<1>5. CASE n <= Len(ToLookUp(s)) BY <1>2, <1>3, <1>4, <1>5 DEF CallsInOrder
<1>6. CASE ~(n <= Len(ToLookUp(s)))
  <2>1. /\ Len(ToLookUp(s)) <= Len(answers[s]) /\ asked[session][s][n] = Final(s)
        /\ Len(ToLookUp(t)) <= Len(answers[t]) /\ asked[session][t][n] = Final(t)
    BY <1>2, <1>3, <1>6 DEF CallsInOrder
  <2> QED BY <2>1, SameFinal
<1> QED BY <1>5, <1>6

(* Variants in whatever languages, however many are drawn and whoever the  *)
(* clients are, agree on a plain request as long as no sidecar gives up:   *)
(* every round is approved and all replies are the same                    *)
(* (verify_transaction.go:92-156, authorization.go:44-97,                  *)
(* chooser.py:97-125).                                                     *)
THEOREM PlainAgreed == Spec => []PlainRequestsAgree
<1>1. AgreeInv => PlainRequestsAgree
  <2> SUFFICES ASSUME AgreeInv, Plain, GaveUp = {} PROVE
          /\ \A n \in DOMAIN decided[session] : decided[session][n]
          /\ pc \in {"closing", "reporting", "answered"} => attempt[session].verified
    BY DEF PlainRequestsAgree
  <2>0. /\ IInv /\ BankTypeOK /\ SessionIsDraw /\ RoundsCompared /\ RoundsJudged /\ VerdictCompares
        /\ \A s \in VariantNames : Replied(s)
        /\ Chosen \subseteq VariantNames
    BY AttemptTyped DEF AgreeInv, IInv
  <2>1. ASSUME NEW n \in DOMAIN decided[session] PROVE decided[session][n]
    <3>1. members[session] = Chosen BY <2>0, <2>1 DEF SessionIsDraw
    <3>2. ASSUME NEW s \in members[session] PROVE n \in DOMAIN asked[session][s]
      <4>1. s \in VariantNames BY <2>0, <3>1
      <4>2. n <= Len(asked[session][s]) BY <2>0 DEF RoundsCompared
      <4> QED BY <2>0, <4>1, <4>2, Lists
    <3>3. \A s, t \in members[session] : asked[session][s][n] = asked[session][t][n]
      BY <2>0, <3>1, <3>2, SameCalls
    <3> QED BY <2>0, <3>3 DEF RoundsJudged
  <2>2. ASSUME pc \in {"closing", "reporting", "answered"} PROVE attempt[session].verified
    <3>1. ASSUME NEW s \in Chosen, NEW t \in Chosen
          PROVE  attempt[session].reply[s] = attempt[session].reply[t]
      <4>1. /\ Len(ToLookUp(s)) <= Len(answers[s]) /\ attempt[session].reply[s] = Outcome(s)
            /\ Len(ToLookUp(t)) <= Len(answers[t]) /\ attempt[session].reply[t] = Outcome(t)
        BY <2>0, <2>2 DEF VerdictCompares, Replied
      <4>2. Final(s) = Final(t) BY <2>0, <4>1, SameFinal
      <4> QED BY <4>1, <4>2 DEF Outcome
    <3>2. RepliesAgree BY <3>1 DEF RepliesAgree
    <3> QED BY <2>0, <2>2, <3>2 DEF VerdictCompares
  <2> QED BY <2>1, <2>2
<1> QED BY <1>1, Agreement, PTL

(* A reply that says anything is that of an event, the last call of the    *)
(* variant whose reply it is, and was decided on with all that were drawn  *)
(* if that variant waited for its answers: for any clients, requests and   *)
(* number of variants, whichever other sidecars give up, once the session  *)
(* was started (chooser.py:71-84, verify_transaction.go:151-156).          *)
THEOREM RepliesTell == Spec => []RepliesTellTheEvent
<1>1. AgreeInv => RepliesTellTheEvent
  <2> SUFFICES ASSUME AgreeInv, pc = "answered", members[session] # {}, NEW s \in Chosen,
                      attempt[session].reply[s] # Crash
               PROVE  /\ asked[session][s] # <<>>
                      /\ asked[session][s][Len(asked[session][s])] \in Events
                      /\ asked[session][s][Len(asked[session][s])].message = attempt[session].reply[s]
                      /\ Waited(s) => Len(decided[session]) = Len(asked[session][s])
    BY DEF RepliesTellTheEvent, Waited
  <2>0. IInv /\ BankTypeOK /\ SessionIsDraw /\ RoundsCompared /\ VerdictCompares /\ s \in VariantNames
    BY AttemptTyped DEF AgreeInv, IInv
  <2>1. CallsInOrder(s) /\ AnswersInStep(s) /\ Replied(s) BY <2>0 DEF AgreeInv, IInv
  <2>2. /\ Len(answers[s]) \in Nat /\ DOMAIN answers[s] = 1 .. Len(answers[s])
        /\ Len(decided[session]) \in Nat /\ DOMAIN decided[session] = 1 .. Len(decided[session])
        /\ DOMAIN asked[session][s] = 1 .. Len(asked[session][s])
        /\ asked[session][s] \in Seq(Calls)
    BY <2>0, Lists
  <2>3. Len(ToLookUp(s)) \in 0 .. 2 BY <2>0, LookUpsTyped
  <2>4. /\ Len(answers[s]) = Len(asked[session][s]) /\ Len(ToLookUp(s)) <= Len(answers[s])
        /\ Len(answers[s]) = Len(ToLookUp(s)) => Final(s) = None
        /\ attempt[session].reply[s] = Outcome(s)
    BY <2>0, <2>1 DEF VerdictCompares, Replied
  <2>5. Final(s) # None BY <2>4 DEF Outcome
  <2> DEFINE k == Len(asked[session][s])
  <2>6. k \in DOMAIN answers[s] /\ k \in DOMAIN asked[session][s] /\ k > Len(ToLookUp(s))
    BY <2>2, <2>3, <2>4, <2>5
  <2>7. asked[session][s][k] = Final(s) BY <2>1, <2>3, <2>6 DEF CallsInOrder
  <2>8. Final(s) \in Events BY <2>0, <2>4, <2>5, FinalTyped
  <2>9. ASSUME Waited(s) PROVE Len(decided[session]) = k
    <3>1. k <= Len(decided[session]) BY <2>0, <2>6, <2>9, InStepWithRounds
    <3>2. members[session] = Chosen BY <2>0 DEF SessionIsDraw
    <3>3. Len(decided[session]) \in DOMAIN decided[session] BY <2>2, <2>6, <3>1
    <3>4. Len(decided[session]) <= k BY <2>0, <3>2, <3>3 DEF RoundsCompared
    <3> QED BY <2>2, <2>6, <3>1, <3>4
  <2>10. asked[session][s] # <<>> BY <2>2, <2>6
  <2> QED BY <2>4, <2>5, <2>7, <2>8, <2>9, <2>10 DEF Outcome
<1> QED BY <1>1, Agreement, PTL

-----------------------------------------------------------------------------
(* How replies are compared.                                               *)

(* Where all write the names of headers alike, two replies have the same   *)
(* header if both have it, with one value.                                 *)
LEMMA SameHeaderUniform ==
    ASSUME NEW headers, Uniform(headers), NEW i \in DOMAIN headers, NEW j \in DOMAIN headers,
           NEW one, NEW other, one.headers = headers[i], other.headers = headers[j],
           NEW name \in Compared(one, other)
    PROVE  SameHeader(one, other, name) <=>
               /\ name \in DOMAIN headers[i] /\ name \in DOMAIN headers[j]
               /\ headers[i][name] = headers[j][name]
<1>1. name \in DOMAIN headers[i] \cup DOMAIN headers[j] BY DEF Compared
<1>2. ASSUME NEW h \in {i, j}, NEW m \in DOMAIN headers[h], Bare[m] = Bare[name] PROVE m = name
  BY <1>1, <1>2 DEF Uniform
<1>3. ASSUME SameHeader(one, other, name)
      PROVE  /\ name \in DOMAIN headers[i] /\ name \in DOMAIN headers[j]
             /\ headers[i][name] = headers[j][name]
  <2>1. PICK m \in Spelling(one, name), n \in Spelling(other, name) : headers[i][m] = headers[j][n]
    BY <1>3 DEF SameHeader
  <2>2. /\ m \in DOMAIN headers[i] /\ Bare[m] = Bare[name]
        /\ n \in DOMAIN headers[j] /\ Bare[n] = Bare[name]
    BY DEF Spelling
  <2>3. m = name /\ n = name BY <1>2, <2>2
  <2> QED BY <2>1, <2>2, <2>3
<1>4. ASSUME name \in DOMAIN headers[i], name \in DOMAIN headers[j],
             headers[i][name] = headers[j][name]
      PROVE  SameHeader(one, other, name)
  <2>1. name \in Spelling(one, name) /\ name \in Spelling(other, name) BY <1>4 DEF Spelling
  <2> QED BY <1>4, <2>1 DEF SameHeader
<1> QED BY <1>3, <1>4

Agree(one, other) ==
    \A name \in Spellings \ Ignored :
        /\ name \in DOMAIN one <=> name \in DOMAIN other
        /\ name \in DOMAIN one => one[name] = other[name]

LEMMA SameReplyUniform ==
    ASSUME NEW headers, Uniform(headers), NEW i \in DOMAIN headers, NEW j \in DOMAIN headers,
           DOMAIN headers[i] \subseteq Spellings, DOMAIN headers[j] \subseteq Spellings,
           NEW one, NEW other, one.headers = headers[i], other.headers = headers[j]
    PROVE  SameReply(one, other) <=> one.body = other.body /\ Agree(headers[i], headers[j])
<1>1. \A name \in Compared(one, other) :
          SameHeader(one, other, name) <=>
              /\ name \in DOMAIN headers[i] /\ name \in DOMAIN headers[j]
              /\ headers[i][name] = headers[j][name]
  BY SameHeaderUniform
<1>2. Compared(one, other) = DOMAIN headers[i] \cup DOMAIN headers[j] BY DEF Compared
<1>3. ASSUME \A name \in Compared(one, other) : SameHeader(one, other, name) \/ name \in Ignored
      PROVE  Agree(headers[i], headers[j])
  BY <1>1, <1>2, <1>3 DEF Agree
<1>4. ASSUME Agree(headers[i], headers[j]), NEW name \in Compared(one, other), name \notin Ignored
      PROVE  SameHeader(one, other, name)
  <2>1. name \in Spellings BY <1>2
  <2> QED BY <1>1, <1>2, <1>4, <2>1 DEF Agree
<1> QED BY <1>3, <1>4 DEF SameReply

LEMMA VerifyUniform ==
    ASSUME NEW k \in 1 .. MaxReplies, NEW headers \in UniformHeaders[k], NEW replies,
           DOMAIN replies = 1 .. k, \A i \in 1 .. k : replies[i].headers = headers[i]
    PROVE  VerifyReplies(replies) <=>
               /\ \A i \in 1 .. k : replies[i].body = replies[1].body
               /\ headers \in AgreeingHeaders[k]
<1>1. headers \in [1 .. k -> Headers] /\ Uniform(headers) BY DEF UniformHeaders
<1>2. DOMAIN headers = 1 .. k BY <1>1
<1>3. 1 \in 1 .. k BY RepliesAssumption
<1>4. \A i \in 1 .. k : DOMAIN headers[i] \subseteq Spellings
  <2> TAKE i \in 1 .. k
  <2>1. PICK names \in HeaderSets : headers[i] \in [names -> HeaderValues] BY <1>1 DEF Headers
  <2> QED BY <2>1 DEF HeaderSets
<1>5. \A i \in 1 .. k : SameReply(replies[1], replies[i]) <=>
                            replies[1].body = replies[i].body /\ Agree(headers[1], headers[i])
  BY <1>1, <1>2, <1>3, <1>4, SameReplyUniform
<1>6. Agree(headers[1], headers[1]) BY DEF Agree
<1>7. VerifyReplies(replies) <=> \A i \in 1 .. k : SameReply(replies[1], replies[i])
  <2>1. SameReply(replies[1], replies[1]) BY <1>3, <1>5, <1>6
  <2>2. \A i \in 1 .. k : i = 1 \/ i > 1 BY RepliesAssumption
  <2> QED BY <2>1, <2>2 DEF VerifyReplies
<1>8. headers \in AgreeingHeaders[k] <=> HeadersAgree(headers)
  BY DEF AgreeingHeaders
<1>9. HeadersAgree(headers) <=> \A i, j \in 1 .. k : Agree(headers[i], headers[j])
  BY <1>2 DEF HeadersAgree, Agree
<1>10. ASSUME \A i \in 1 .. k : Agree(headers[1], headers[i]), NEW i \in 1 .. k, NEW j \in 1 .. k
       PROVE  Agree(headers[i], headers[j])
  <2>1. Agree(headers[1], headers[i]) /\ Agree(headers[1], headers[j]) BY <1>10
  <2> QED BY <2>1 DEF Agree
<1> QED BY <1>3, <1>5, <1>7, <1>8, <1>9, <1>10

(* The chooser's comparison of each reply with the first is the agreement  *)
(* of all, whatever replies come with what headers, as long as the         *)
(* variants write their names alike (chooser.py:97-125): so it is the same *)
(* whichever variant is drawn first.                                       *)
THEOREM VerdictsAgree == Spec => []VerdictIsAgreement
<1>1. AgreeInv => VerdictIsAgreement
  <2> SUFFICES ASSUME AgreeInv, pc = "closing",
                      NEW headers \in UniformHeaders[Len(attempt[session].chosen)]
               PROVE  VerifyReplies([i \in DOMAIN attempt[session].chosen |->
                                       [body |-> attempt[session].reply[attempt[session].chosen[i]],
                                        headers |-> headers[i]]])
                          <=> /\ attempt[session].verified
                              /\ headers \in AgreeingHeaders[Len(attempt[session].chosen)]
    BY DEF VerdictIsAgreement
  <2> DEFINE l == attempt[session].chosen
             k == Len(attempt[session].chosen)
             replies == [i \in DOMAIN l |-> [body |-> attempt[session].reply[l[i]],
                                             headers |-> headers[i]]]
  <2>0. BankTypeOK /\ DrawnToSize /\ VerdictCompares BY DEF AgreeInv, IInv
  <2>1. l \in Seq(VariantNames) BY <2>0, AttemptTyped DEF C!Attempt
  <2>2. DOMAIN l = 1 .. k /\ k \in Nat BY <2>1, LenProperties
  <2>3. k = resource.concurrency /\ resource.concurrency \in 1 .. Cardinality(Choosable(resource))
    BY <2>0 DEF DrawnToSize
  <2>4. resource \in Resources BY <2>0, InputTyped
  <2>5. k \in 1 .. MaxReplies
    <3>1. k <= MaxReplies BY <2>3, <2>4, RepliesAssumption
    <3>2. k >= 1 BY <2>3
    <3> QED BY <2>2, <3>1, <3>2, RepliesAssumption
  <2>6. /\ DOMAIN replies = 1 .. k
        /\ \A i \in 1 .. k : /\ replies[i].headers = headers[i]
                             /\ replies[i].body = attempt[session].reply[l[i]]
    BY <2>2
  <2>7. VerifyReplies(replies) <=>
            /\ \A i \in 1 .. k : replies[i].body = replies[1].body
            /\ headers \in AgreeingHeaders[k]
    <3> HIDE DEF replies, k
    <3> QED BY <2>5, <2>6, VerifyUniform DEF k
  <2>8. Chosen = {l[i] : i \in 1 .. k} /\ 1 \in 1 .. k BY <2>2, <2>5 DEF Chosen, C!Chosen
  <2>9. RepliesAgree <=> \A i \in 1 .. k : replies[i].body = replies[1].body
    <3>1. RepliesAgree <=>
              \A i, j \in 1 .. k : attempt[session].reply[l[i]] = attempt[session].reply[l[j]]
      BY <2>8 DEF RepliesAgree
    <3> HIDE DEF replies, k, l
    <3> QED BY <2>6, <2>8, <3>1
  <2>10. attempt[session].verified <=> RepliesAgree BY <2>0 DEF VerdictCompares
  <2> QED BY <2>7, <2>9, <2>10
<1> QED BY <1>1, Agreement, PTL

-----------------------------------------------------------------------------
(* The Envoy configuration.                                                *)

(* Every configuration that updateEnvoyAddress can update, whatever its    *)
(* size, sends all calls to the egress proxy, if it has one firewall       *)
(* cluster with one address and no virtual host has two routes with an     *)
(* action; and when the calls of variants are compared none goes another   *)
(* way (envoy_utils.go:27-66, 75-154).                                     *)
THEOREM CallsAreRouted == Spec => []RoutedToEgress
<1>1. ASSUME NEW config \in Configs, Ordinary(config), Updates(config)
      PROVE  Routes(config, UpdateEnvoyAddress(config))
  <2> DEFINE new == UpdateEnvoyAddress(config)
  <2>1. config.clusters \in Seq(Cluster) /\ config.managers \in Seq(Seq(Seq(Addresses \cup {NoAction})))
    BY EnvoyAssumption DEF Config
  <2>2. new.clusters = NewClusters(config)
        /\ new.managers = [m \in DOMAIN config.managers |-> NewManager(config.managers[m])]
    BY DEF UpdateEnvoyAddress
  <2>3. PICK f \in Firewalls(config) :
            IsFirst(f, Firewalls(config)) /\ config.clusters[f].addresses # <<>>
    BY <1>1 DEF Updates
  <2>4. \A i \in Firewalls(config) : i = f BY <1>1 DEF Ordinary
  <2>5. ASSUME NEW i \in DOMAIN new.clusters
        PROVE  IF config.clusters[i].firewall THEN new.clusters[i].addresses = <<Egress>>
               ELSE new.clusters[i] = config.clusters[i]
    <3>1. i \in DOMAIN config.clusters BY <2>2, <2>5 DEF NewClusters
    <3>2. new.clusters[i] = IF i \in Firewalls(config) /\ IsFirst(i, Firewalls(config))
                            THEN [config.clusters[i] EXCEPT !.addresses[1] = Egress]
                            ELSE config.clusters[i]
      BY <2>2, <3>1 DEF NewClusters
    <3> HIDE DEF new
    <3>3. CASE ~config.clusters[i].firewall BY <3>2, <3>3 DEF Firewalls
    <3>4. CASE config.clusters[i].firewall
      <4>1. i \in Firewalls(config) /\ i = f BY <2>4, <3>1, <3>4 DEF Firewalls
      <4>2. config.clusters[i] \in Cluster BY <2>1, <3>1
      <4>3. PICK a \in Seq(Addresses) : a = config.clusters[i].addresses BY <4>2 DEF Cluster
      <4>4. Len(a) <= 1 /\ a # <<>> BY <1>1, <2>3, <4>1, <4>3 DEF Ordinary
      <4>5. Len(a) = 1 /\ DOMAIN a = 1 .. 1
        <5>1. PICK k \in Nat : k = Len(a) BY LenProperties
        <5>2. k # 0 BY <4>4, <5>1, EmptySeq
        <5>3. k = 1 BY <4>4, <5>1, <5>2
        <5> QED BY <5>1, <5>3, LenProperties
      <4>6. [a EXCEPT ![1] = Egress] = <<Egress>> BY <4>5
      <4>7. new.clusters[i] = [config.clusters[i] EXCEPT !.addresses = [a EXCEPT ![1] = Egress]]
        BY <2>3, <3>2, <4>1, <4>3
      <4>8. new.clusters[i].addresses = [a EXCEPT ![1] = Egress] BY <4>2, <4>7 DEF Cluster
      <4> QED BY <3>4, <4>6, <4>8
    <3> QED BY <3>3, <3>4
  <2>6. ASSUME NEW m \in DOMAIN new.managers, NEW h \in DOMAIN new.managers[m],
               NEW i \in DOMAIN new.managers[m][h]
        PROVE  new.managers[m][h][i] \in {Egress, NoAction}
    <3>1. m \in DOMAIN config.managers /\ new.managers[m] = NewManager(config.managers[m])
      BY <2>2
    <3> HIDE DEF new
    <3>2. h \in DOMAIN config.managers[m] /\ new.managers[m][h] = NewRoutes(config.managers[m][h])
      BY <3>1 DEF NewManager
    <3> DEFINE host == config.managers[m][h]
    <3>3. i \in DOMAIN host BY <3>2 DEF NewRoutes
    <3>4. new.managers[m][h][i] = IF i \in Actions(host) /\ IsFirst(i, Actions(host))
                                  THEN Egress ELSE host[i]
      BY <3>2, <3>3 DEF NewRoutes
    <3>5. CASE host[i] = NoAction BY <3>4, <3>5
    <3>6. CASE host[i] # NoAction
      <4>1. i \in Actions(host) BY <3>3, <3>6 DEF Actions
      <4>2. \A j \in Actions(host) : j = i BY <1>1, <3>1, <3>2, <4>1 DEF Ordinary
      <4>3. host \in Seq(Addresses \cup {NoAction})
        <5>1. config.managers[m] \in Seq(Seq(Addresses \cup {NoAction}))
          BY <2>1, <3>1, ElementOfSeq, LenProperties
        <5> QED BY <3>2, <5>1, ElementOfSeq, LenProperties
      <4>4. i \in Nat BY <3>3, <4>3, LenProperties
      <4>5. IsFirst(i, Actions(host)) BY <4>2, <4>4 DEF IsFirst
      <4> QED BY <3>4, <4>1, <4>5
    <3> QED BY <3>5, <3>6
  <2> QED BY <2>5, <2>6 DEF Routes
<1>2. Routed BY <1>1 DEF Routed
<1>3. RoutedToEgress BY <1>2 DEF RoutedToEgress
<1> QED BY <1>3, PTL

-----------------------------------------------------------------------------
(* The egress proxy's promise.                                             *)

(* Whatever the variants do, their session goes by the promise of the      *)
(* egress proxy, the one that EgressProxyOrder!IsGate shows it to keep to  *)
(* callers that wait for their answers (egress-proxy/main.py:43-125): a    *)
(* step of the bank is a step of UnanimityGate or leaves the session       *)
(* alone.  Where a sidecar gave up and a call overlaps the next, rounds    *)
(* and their order are the gate's still, and Received says whom a response *)
(* reaches.                                                                *)
THEOREM SessionIsGated == Spec => G!GateSpec
<1>1. ASSUME IInv, [Next]_vars PROVE [G!GateNext]_(G!gateVars)
  <2>0. BankTypeOK BY <1>1 DEF IInv
  <2>1. session \in {session} OBVIOUS
  <2>2. CASE Dispatch
    <3>1. G!Open(session, Chosen) /\ Chosen \in SUBSET VariantNames
      BY <2>0, <2>2, AttemptTyped DEF Dispatch
    <3> QED BY <2>1, <3>1 DEF G!GateNext
  <2>3. CASE Round
    <3>1. G!Decide(session) BY <2>3 DEF Round
    <3> QED BY <2>1, <3>1 DEF G!GateNext
  <2>4. ASSUME NEW s \in VariantNames, Call(s) PROVE G!GateNext
    <3>1. G!Ask(session, s, NextCall(s)) /\ NextCall(s) # None BY <2>4 DEF Call
    <3>2. NextCall(s) \in Calls BY <2>0, <3>1, NextCallTyped
    <3> QED BY <2>1, <3>1, <3>2 DEF G!GateNext
  <2>5. ASSUME NEW s \in VariantNames, Respond(s) PROVE G!GateNext
    <3>1. G!Tell(session, s) BY <2>5 DEF Respond
    <3> QED BY <2>1, <3>1 DEF G!GateNext
  <2>6. ASSUME NEW s \in VariantNames, CallUnserved(s) \/ Reply(s) \/ GiveUp(s)
        PROVE  UNCHANGED G!gateVars
    BY <2>6 DEF CallUnserved, Reply, GiveUp, gate, G!gateVars
  <2>7. CASE Edit \/ Receive \/ DrawFails \/ DispatchRefused \/ RoundFails \/ Conclude
             \/ UNCHANGED vars
    BY <2>7
    DEF Edit, Receive, DrawFails, DispatchRefused, RoundFails, Conclude, vars, gate, G!gateVars
  <2> QED BY <1>1, <2>2, <2>3, <2>4, <2>5, <2>6, <2>7 DEF Next
<1>2. Init => G!GateInit BY DEF Init
<1> QED BY <1>1, <1>2, Invariant, PTL DEF Spec, G!GateSpec
=============================================================================
