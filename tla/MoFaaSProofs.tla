---------------------------- MODULE MoFaaSProofs ----------------------------
(***************************************************************************)
(* Chooser, variants and egress proxy together: every step of the system   *)
(* is a step of the egress proxy or none of its business, so what was      *)
(* proved of the proxy holds here too; and if no id is started twice, what *)
(* leaves the system follows the program of the honest variants, and what  *)
(* the chooser answers tells what has left.                                *)
(***************************************************************************)
EXTENDS MoFaaS, EgressProxyOrder

-----------------------------------------------------------------------------
(* The attempts of the chooser and the sessions of the egress proxy.       *)

AgreedIn(row) ==
    \A i \in 2 .. Len(row.chosen) : row.reply[row.chosen[i]] = row.reply[row.chosen[1]]

(* An attempt in state row and the launch l of its session: a session runs *)
(* for the id and the variants of its attempt, and the replies of a        *)
(* verified attempt stay what they were when they were compared.           *)
RowOK(row, l) ==
    /\ row.pc # "none" => row.id \in Ids /\ row.chosen \in ServiceLists
    /\ row.pc = "none" => l.id = None
    /\ l.id # None => l.services = row.chosen /\ l.id = row.id
    /\ row.verified => row.pc \notin {"none", "starting", "running"} /\ AgreedIn(row)

AttemptInv == C!AttemptTypeOK /\ \A a \in Sessions : RowOK(attempt[a], launch[a])

LEMMA RowMoves ==
    ASSUME AttemptInv, NEW a \in Sessions, NEW row \in C!Attempt,
           attempt' = [attempt EXCEPT ![a] = row], RowOK(row, launch'[a]),
           \A b \in Sessions \ {a} : launch'[b] = launch[b]
    PROVE  AttemptInv'
  <1>1. attempt \in [Sessions -> C!Attempt]
    BY DEF AttemptInv, C!AttemptTypeOK
  <1>2. attempt' \in [Sessions -> C!Attempt] /\ attempt'[a] = row
        /\ \A b \in Sessions \ {a} : attempt'[b] = attempt[b]
    BY <1>1
  <1>3. \A b \in Sessions : RowOK(attempt'[b], launch'[b])
    BY <1>2 DEF AttemptInv
  <1>4. QED
    BY <1>2, <1>3 DEF AttemptInv, C!AttemptTypeOK

LEMMA RowStands ==
    ASSUME AttemptInv, UNCHANGED <<attempt, launch>>
    PROVE  AttemptInv'
  BY DEF AttemptInv, C!AttemptTypeOK, RowOK, AgreedIn

(* The chooser goes on with an attempt; its session may have been started. *)
LEMMA PcMoves ==
    ASSUME AttemptInv, NEW a \in Sessions, attempt[a].pc # "none",
           NEW p \in C!AttemptPCs \ {"none", "starting"},
           p = "running" => attempt[a].pc = "starting",
           attempt' = [attempt EXCEPT ![a].pc = p],
           \/ launch'[a] = launch[a]
           \/ launch'[a] = [id |-> attempt[a].id, services |-> attempt[a].chosen],
           \A b \in Sessions \ {a} : launch'[b] = launch[b]
    PROVE  AttemptInv'
  <1> DEFINE row == [attempt[a] EXCEPT !.pc = p]
  <1>1. attempt \in [Sessions -> C!Attempt]
    BY DEF AttemptInv, C!AttemptTypeOK
  <1>2. attempt[a] \in C!Attempt /\ RowOK(attempt[a], launch[a])
    BY <1>1 DEF AttemptInv
  <1>3. /\ row \in C!Attempt /\ row.pc = p /\ row.id = attempt[a].id
        /\ row.chosen = attempt[a].chosen /\ row.reply = attempt[a].reply
        /\ row.verified = attempt[a].verified
    BY <1>2 DEF C!Attempt
  <1>4. attempt' = [attempt EXCEPT ![a] = row]
    OBVIOUS
  <1> HIDE DEF row
  <1>5. row.id \in Ids /\ row.chosen \in ServiceLists
    BY <1>2, <1>3 DEF RowOK
  <1>6. launch'[a].id # None => launch'[a].services = row.chosen /\ launch'[a].id = row.id
    <2>1. CASE launch'[a] = launch[a]
      BY <1>2, <1>3, <2>1 DEF RowOK
    <2>2. CASE launch'[a] = [id |-> attempt[a].id, services |-> attempt[a].chosen]
      BY <1>3, <2>2
    <2>3. QED
      BY <2>1, <2>2
  <1>7. row.verified => row.pc \notin {"none", "starting", "running"} /\ AgreedIn(row)
    BY <1>2, <1>3 DEF RowOK, AgreedIn
  <1>8. RowOK(row, launch'[a])
    BY <1>3, <1>5, <1>6, <1>7 DEF RowOK
  <1>9. QED
    BY <1>3, <1>4, <1>8, RowMoves

LEMMA ReceiveMoves ==
    ASSUME IInv, AttemptInv, NEW a \in Sessions, NEW r \in Ids, NEW l \in ServiceLists,
           C!Receive(a, r, l), UNCHANGED launch
    PROVE  AttemptInv'
  <1> DEFINE row == [attempt[a] EXCEPT !.pc = "starting", !.id = r, !.chosen = l]
  <1>1. attempt \in [Sessions -> C!Attempt]
    BY DEF AttemptInv, C!AttemptTypeOK
  <1>2. attempt[a] \in C!Attempt /\ RowOK(attempt[a], launch[a]) /\ attempt[a].pc = "none"
    BY <1>1 DEF AttemptInv, C!Receive
  <1>3. l \in Seq(Services)
    BY ListType
  <1>4. /\ row \in C!Attempt /\ row.pc = "starting" /\ row.id = r /\ row.chosen = l
        /\ row.verified = attempt[a].verified
    BY <1>2, <1>3 DEF C!Attempt, C!AttemptPCs
  <1>5. attempt' = [attempt EXCEPT ![a] = row]
    BY <1>1 DEF C!Receive
  <1> HIDE DEF row
  <1>6. RowOK(row, launch'[a])
    BY <1>2, <1>4 DEF RowOK
  <1>7. QED
    BY <1>4, <1>5, <1>6, RowMoves

LEMMA ReplyMoves ==
    ASSUME AttemptInv, NEW a \in Sessions, NEW s \in Services, NEW v \in {Done, Rejected},
           C!VariantReplies(a, s, v), UNCHANGED launch
    PROVE  AttemptInv'
  <1> DEFINE row == [attempt[a] EXCEPT !.reply[s] = v]
  <1>1. attempt \in [Sessions -> C!Attempt]
    BY DEF AttemptInv, C!AttemptTypeOK
  <1>2. attempt[a] \in C!Attempt /\ RowOK(attempt[a], launch[a]) /\ attempt[a].pc = "running"
    BY <1>1 DEF AttemptInv, C!VariantReplies
  <1>3. /\ row \in C!Attempt /\ row.pc = "running" /\ row.id = attempt[a].id
        /\ row.chosen = attempt[a].chosen /\ row.verified = attempt[a].verified
    BY <1>2 DEF C!Attempt
  <1>4. attempt' = [attempt EXCEPT ![a] = row]
    BY <1>1 DEF C!VariantReplies
  <1> HIDE DEF row
  <1>5. RowOK(row, launch'[a])
    BY <1>2, <1>3 DEF RowOK
  <1>6. QED
    BY <1>3, <1>4, <1>5, RowMoves

LEMMA VerifyMoves ==
    ASSUME AttemptInv, NEW a \in Sessions, C!Verify(a), UNCHANGED launch
    PROVE  AttemptInv'
  <1> DEFINE v   == C!Agreed(a)
             row == [attempt[a] EXCEPT !.pc = "closing", !.verified = v]
  <1>1. attempt \in [Sessions -> C!Attempt]
    BY DEF AttemptInv, C!AttemptTypeOK
  <1>2. attempt[a] \in C!Attempt /\ RowOK(attempt[a], launch[a]) /\ attempt[a].pc = "running"
    BY <1>1 DEF AttemptInv, C!Verify
  <1>3. v \in BOOLEAN /\ (v => AgreedIn(attempt[a]))
    BY DEF C!Agreed, AgreedIn
  <1>4. attempt' = [attempt EXCEPT ![a] = row]
    BY <1>1 DEF C!Verify
  <1> HIDE DEF v
  <1>5. /\ row \in C!Attempt /\ row.pc = "closing" /\ row.id = attempt[a].id
        /\ row.chosen = attempt[a].chosen /\ row.reply = attempt[a].reply
        /\ row.verified = v
    BY <1>2, <1>3 DEF C!Attempt, C!AttemptPCs
  <1> HIDE DEF row
  <1>6. RowOK(row, launch'[a])
    BY <1>2, <1>3, <1>5 DEF RowOK, AgreedIn
  <1>7. QED
    BY <1>4, <1>5, <1>6, RowMoves

-----------------------------------------------------------------------------
(* Every step of the system is a step of the egress proxy, or leaves it    *)
(* alone.                                                                  *)

LEMMA StartsOwn ==
    ASSUME IInv, AttemptInv, NEW a \in Sessions, attempt[a].pc # "none", EgressStarts(a)
    PROVE  /\ Next
           /\ launch'[a] = [id |-> attempt[a].id, services |-> attempt[a].chosen]
           /\ \A b \in Sessions \ {a} : launch'[b] = launch[b]
  <1>1. attempt[a].id \in Ids /\ attempt[a].chosen \in ServiceLists
    BY DEF AttemptInv, RowOK
  <1>2. Start(attempt[a].id, attempt[a].chosen) /\ launch'[a] # launch[a]
    BY DEF EgressStarts
  <1>3. PICK g \in Sessions : launch' = [launch EXCEPT ![g] =
           [id |-> attempt[a].id, services |-> attempt[a].chosen]]
    BY <1>2 DEF Start
  <1>4. launch \in [Sessions -> [id : Ids \cup {None}, services : Seq(Services)]]
    BY DEF IInv, TypeOK
  <1>5. g = a
    BY <1>2, <1>3, <1>4
  <1>6. Next
    BY <1>1, <1>2 DEF Next
  <1>7. QED
    BY <1>3, <1>4, <1>5, <1>6

LEMMA StopsOwn ==
    ASSUME AttemptInv, NEW a \in Sessions, attempt[a].pc # "none", EgressStops(a)
    PROVE  [Next]_vars /\ UNCHANGED launch
  <1>1. attempt[a].id \in Ids
    BY DEF AttemptInv, RowOK
  <1>2. CASE UNCHANGED egress
    BY <1>2 DEF egress, vars
  <1>3. CASE Stop(attempt[a].id)
    BY <1>1, <1>3 DEF Stop, Next
  <1>4. QED
    BY <1>2, <1>3 DEF EgressStops

LEMMA EgressSteps ==
    ASSUME AttemptInv, NEW g \in Sessions, EgressLoop(g)
    PROVE  [Next]_vars /\ AttemptInv'
  <1>1. Next
    BY DEF EgressLoop, Next
  <1>2. UNCHANGED <<attempt, launch>>
    BY DEF EgressLoop, RunLoop, DeliverResponse, RoundFails, HandleCancelled
  <1>3. QED
    BY <1>1, <1>2, RowStands

LEMMA SubmitSteps ==
    ASSUME AttemptInv, UNCHANGED attempt, NEW c \in Calls, NEW a \in Sessions,
           NEW s \in Services, NEW x \in Contents, NEW h \in Hosts, Submit(c, a, s, x, h)
    PROVE  [Next]_vars /\ AttemptInv'
  <1>1. Next
    BY DEF Next
  <1>2. UNCHANGED launch
    BY DEF Submit
  <1>3. QED
    BY <1>1, <1>2, RowStands

(* The content of the next call of an honest variant.                      *)
LEMMA ProgramType ==
    ASSUME NEW n \in Nat, n < Len(Program)
    PROVE  n + 1 \in DOMAIN Program /\ Program[n + 1] \in Contents
  <1>1. Program \in Seq(Contents)
    BY MoFaaSAssumption
  <1>2. Len(Program) \in Nat /\ DOMAIN Program = 1 .. Len(Program)
    BY <1>1, LenProperties
  <1>3. n + 1 \in DOMAIN Program
    BY <1>2
  <1>4. QED
    BY <1>1, <1>3, ElementOfSeq

LEMMA ChooserSteps ==
    ASSUME IInv, AttemptInv, NEW a \in Sessions,
           \/ ChooserRuns(a) \/ StartRefused(a) \/ StopRefused(a)
           \/ StartUnanswered(a) \/ StopUnanswered(a) \/ ReportFails(a)
    PROVE  [Next]_vars /\ AttemptInv'
  <1>1. \A b \in Sessions : UNCHANGED launch => launch'[b] = launch[b]
    OBVIOUS
  <1>2. UNCHANGED egress => [Next]_vars /\ UNCHANGED launch
    BY DEF egress, vars
  <1>3. {"running", "closing", "reporting", "answered", "failed"}
           \subseteq C!AttemptPCs \ {"none", "starting"}
    BY DEF C!AttemptPCs
  <1>4. CASE StartSession(a)
    <2>1. attempt[a].pc = "starting" /\ attempt' = [attempt EXCEPT ![a].pc = "running"]
          /\ EgressStarts(a)
      BY <1>4 DEF StartSession, C!Dispatch
    <2>2. "running" \in C!AttemptPCs \ {"none", "starting"}
      BY <1>3
    <2>3. QED
      BY <2>1, <2>2, StartsOwn, PcMoves
  <1>5. CASE StartUnanswered(a)
    <2>1. attempt[a].pc = "starting" /\ attempt' = [attempt EXCEPT ![a].pc = "failed"]
          /\ (EgressStarts(a) \/ UNCHANGED egress)
      BY <1>5 DEF StartUnanswered, C!PostFails
    <2>2. "failed" \in C!AttemptPCs \ {"none", "starting"}
      BY <1>3
    <2>3. /\ [Next]_vars
          /\ \/ launch'[a] = launch[a]
             \/ launch'[a] = [id |-> attempt[a].id, services |-> attempt[a].chosen]
          /\ \A b \in Sessions \ {a} : launch'[b] = launch[b]
      BY <1>1, <1>2, <2>1, StartsOwn
    <2>4. QED
      BY <2>1, <2>2, <2>3, PcMoves
  <1>6. CASE VerifyReplies(a)
    <2>1. C!Verify(a) /\ UNCHANGED egress
      BY <1>6 DEF VerifyReplies
    <2>2. QED
      BY <1>2, <2>1, VerifyMoves
  <1>7. CASE StopSession(a)
    <2>1. PICK p \in {"answered", "reporting"} :
             attempt' = [attempt EXCEPT ![a].pc = p]
      BY <1>7 DEF StopSession, C!Close
    <2>2. attempt[a].pc = "closing" /\ EgressStops(a)
      BY <1>7 DEF StopSession, C!Close
    <2>3. p \in C!AttemptPCs \ {"none", "starting"} /\ p # "running"
      BY <1>3
    <2>4. [Next]_vars /\ UNCHANGED launch
      BY <2>2, StopsOwn
    <2>5. QED
      BY <2>1, <2>2, <2>3, <2>4, PcMoves
  <1>8. CASE StopUnanswered(a)
    <2>1. attempt[a].pc = "closing" /\ attempt' = [attempt EXCEPT ![a].pc = "failed"]
          /\ (EgressStops(a) \/ UNCHANGED egress)
      BY <1>8 DEF StopUnanswered, C!PostFails
    <2>2. "failed" \in C!AttemptPCs \ {"none", "starting"}
      BY <1>3
    <2>3. [Next]_vars /\ UNCHANGED launch
      BY <1>2, <2>1, StopsOwn
    <2>4. QED
      BY <2>1, <2>2, <2>3, PcMoves
  <1>9. CASE ReportMismatch(a)
    <2>1. attempt[a].pc = "reporting" /\ attempt' = [attempt EXCEPT ![a].pc = "answered"]
          /\ UNCHANGED egress
      BY <1>9 DEF ReportMismatch, C!Report
    <2>2. "answered" \in C!AttemptPCs \ {"none", "starting"}
      BY <1>3
    <2>3. QED
      BY <1>2, <2>1, <2>2, PcMoves
  <1>10. CASE ReportFails(a)
    <2>1. attempt[a].pc = "reporting" /\ attempt' = [attempt EXCEPT ![a].pc = "failed"]
          /\ UNCHANGED egress
      BY <1>10 DEF ReportFails, C!PostFails
    <2>2. "failed" \in C!AttemptPCs \ {"none", "starting"}
      BY <1>3
    <2>3. QED
      BY <1>2, <2>1, <2>2, PcMoves
  <1>11. CASE StartRefused(a)
    <2>1. attempt[a].pc = "starting" /\ attempt' = [attempt EXCEPT ![a].pc = "running"]
          /\ UNCHANGED egress
      BY <1>11 DEF StartRefused, C!Dispatch
    <2>2. "running" \in C!AttemptPCs \ {"none", "starting"}
      BY <1>3
    <2>3. QED
      BY <1>2, <2>1, <2>2, PcMoves
  <1>12. CASE StopRefused(a)
    <2>1. PICK p \in {"answered", "reporting"} :
             attempt' = [attempt EXCEPT ![a].pc = p]
      BY <1>12 DEF StopRefused, C!Close
    <2>2. attempt[a].pc = "closing" /\ UNCHANGED egress
      BY <1>12 DEF StopRefused, C!Close
    <2>3. p \in C!AttemptPCs \ {"none", "starting"} /\ p # "running"
      BY <1>3
    <2>4. QED
      BY <1>2, <2>1, <2>2, <2>3, PcMoves
  <1>13. QED
    BY <1>4, <1>5, <1>6, <1>7, <1>8, <1>9, <1>10, <1>11, <1>12 DEF ChooserRuns

(* The calls made so far are finitely many, each in a session that exists. *)
Made == {c \in Calls : handler[c].origin # None}

MadeInv ==
    /\ IsFiniteSet(Made)
    /\ \A c \in Made : Started(handler[c].origin)

LEMMA OriginSteps ==
    ASSUME IInv, [Next]_vars
    PROVE  \/ \A c \in Calls : handler'[c].origin = handler[c].origin
           \/ \E c \in Calls, g \in Sessions :
                 /\ Started(g) /\ handler'[c].origin = g
                 /\ \A d \in Calls \ {c} : handler'[d].origin = handler[d].origin
  <1>1. handler \in [Calls -> Handler]
    BY DEF IInv, TypeOK
  <1>2. ASSUME NEW c \in Calls, NEW g \in Sessions, NEW s \in Services, NEW x \in Contents,
               NEW h \in Hosts, Submit(c, g, s, x, h)
        PROVE  /\ Started(g) /\ handler'[c].origin = g
               /\ \A d \in Calls \ {c} : handler'[d].origin = handler[d].origin
    <2> DEFINE call == [pc |-> "error", on |-> None, origin |-> g, sender |-> s,
                        content |-> x, host |-> h, answer |-> NoAnswer]
               q    == registry[launch[g].id]
               kept == [call EXCEPT !.pc = "waiting", !.on = q]
               done == [call EXCEPT !.pc = "answered", !.on = q,
                                    !.answer = Head(responses[q][s].items)]
    <2>1. PICK e \in {call, kept, done} : handler' = [handler EXCEPT ![c] = e]
      BY <1>2 DEF Submit
    <2>2. e.origin = g
      <3>1. call.origin = g
        OBVIOUS
      <3>2. kept.origin = g
        OBVIOUS
      <3>3. done.origin = g
        OBVIOUS
      <3> HIDE DEF call, kept, done
      <3>4. QED
        BY <3>1, <3>2, <3>3
    <2> HIDE DEF call, kept, done
    <2>3. handler'[c] = e /\ \A d \in Calls \ {c} : handler'[d] = handler[d]
      BY <1>1, <2>1
    <2>4. Started(g)
      BY <1>2 DEF Submit
    <2>5. QED
      BY <2>2, <2>3, <2>4
  <1>3. ASSUME NEW c \in Calls, ResumeHandler(c)
        PROVE  \A d \in Calls : handler'[d].origin = handler[d].origin
    <2>1. PICK p, w : handler' = [handler EXCEPT ![c].pc = p]
                      \/ handler' = [handler EXCEPT ![c].pc = p, ![c].answer = w]
      BY <1>3 DEF ResumeHandler
    <2>2. QED
      BY <1>1, <2>1 DEF Handler
  <1>4. ASSUME NEW g \in Sessions, DeliverResponse(g)
        PROVE  \A d \in Calls : handler'[d].origin = handler[d].origin
    <2>1. PICK woken : handler' = [c \in Calls |->
             IF c \in woken THEN [handler[c] EXCEPT !.pc = "woken"] ELSE handler[c]]
      BY <1>4 DEF DeliverResponse
    <2>2. QED
      BY <1>1, <2>1 DEF Handler
  <1>5. ASSUME UNCHANGED handler
        PROVE  \A d \in Calls : handler'[d].origin = handler[d].origin
    BY <1>5
  <1>6. \/ \E c \in Calls, g \in Sessions, s \in Services, x \in Contents, h \in Hosts :
              Submit(c, g, s, x, h)
        \/ \E c \in Calls : ResumeHandler(c)
        \/ \E g \in Sessions : DeliverResponse(g)
        \/ UNCHANGED handler
    BY HandlerSteps
  <1>7. QED
    BY <1>2, <1>3, <1>4, <1>5, <1>6

LEMMA NextMade ==
    ASSUME IInv, MadeInv, [Next]_vars
    PROVE  MadeInv'
  <1>1. \A g \in Sessions : Started(g) => Started(g)'
    <2>1. ASSUME NEW g \in Sessions, Started(g) PROVE Started(g)'
      <3>1. loop[g].pc # "none"
        BY <2>1 DEF IInv, LaunchInv, Started
      <3>2. launch'[g] = launch[g]
        BY <3>1, LaunchStands
      <3>3. QED
        BY <2>1, <3>2 DEF Started
    <2>2. QED
      BY <2>1
  <1>2. \A c \in Made : handler[c].origin \in Sessions
    <2>1. \A c \in Calls : handler[c] \in Handler
      BY DEF IInv, TypeOK
    <2>2. QED
      BY <2>1 DEF Made, Handler
  <1>3. CASE \A c \in Calls : handler'[c].origin = handler[c].origin
    <2>1. Made' = Made
      BY <1>3 DEF Made
    <2>2. ASSUME NEW c \in Made PROVE Started(handler[c].origin)'
      <3>1. PICK g \in Sessions : g = handler[c].origin
        BY <1>2
      <3>2. Started(g)'
        BY <1>1, <3>1 DEF MadeInv
      <3>3. handler'[c].origin = g
        BY <1>3, <3>1 DEF Made
      <3>4. QED
        BY <3>2, <3>3 DEF Started
    <2>3. QED
      BY <2>1, <2>2 DEF MadeInv
  <1>4. CASE \E c \in Calls, g \in Sessions :
                /\ Started(g) /\ handler'[c].origin = g
                /\ \A d \in Calls \ {c} : handler'[d].origin = handler[d].origin
    <2>1. PICK c \in Calls, g \in Sessions :
             /\ Started(g) /\ handler'[c].origin = g
             /\ \A d \in Calls \ {c} : handler'[d].origin = handler[d].origin
      BY <1>4
    <2>2. Made' \subseteq Made \cup {c}
      BY <2>1 DEF Made
    <2>3. IsFiniteSet(Made')
      BY <2>2, FS_AddElement, FS_Subset DEF MadeInv
    <2>4. ASSUME NEW d \in Made' PROVE Started(handler[d].origin)'
      <3>1. CASE d = c
        <4>1. Started(g)' /\ handler'[d].origin = g
          BY <1>1, <2>1, <3>1
        <4>2. QED
          BY <4>1 DEF Started
      <3>2. CASE d # c
        <4>1. d \in Made /\ handler'[d].origin = handler[d].origin
          BY <2>1, <3>2 DEF Made
        <4>2. PICK y \in Sessions : y = handler[d].origin
          BY <1>2, <4>1
        <4>3. Started(y)'
          BY <1>1, <4>1, <4>2 DEF MadeInv
        <4>4. QED
          BY <4>1, <4>2, <4>3 DEF Started
      <3>3. QED
        BY <3>1, <3>2
    <2>5. QED
      BY <2>3, <2>4 DEF MadeInv
  <1>5. QED
    BY <1>3, <1>4, OriginSteps

LEMMA CountType ==
    ASSUME MadeInv, NEW a \in Sessions, NEW s \in Services
    PROVE  IsFiniteSet(CallsOf(a, s)) /\ Cardinality(CallsOf(a, s)) \in Nat
  <1>1. CallsOf(a, s) \subseteq Made
    BY NoneAssumption DEF CallsOf, Made
  <1>2. IsFiniteSet(CallsOf(a, s))
    BY <1>1, FS_Subset DEF MadeInv
  <1>3. QED
    BY <1>2, FS_CardinalityType

LEMMA VariantSteps ==
    ASSUME IInv, AttemptInv, MadeInv, NEW a \in Sessions, NEW s \in Services,
           \/ RequestFails(a, s)
           \/ \E c \in Calls, h \in Hosts : HonestCalls(c, a, s, h)
           \/ HonestReplies(a, s)
           \/ HonestUnserved(a, s)
           \/ \E c \in Calls, x \in Contents, h \in Hosts : OtherCalls(c, a, s, x, h)
           \/ \E v \in {Done, Rejected} : OtherReplies(a, s, v)
    PROVE  [Next]_vars /\ AttemptInv'
  <1>1. UNCHANGED egress => [Next]_vars /\ UNCHANGED launch
    BY DEF egress, vars
  <1>2. CASE RequestFails(a, s)
    <2>1. attempt[a].pc = "running" /\ attempt' = [attempt EXCEPT ![a].pc = "failed"]
          /\ UNCHANGED egress
      BY <1>2 DEF RequestFails, C!VariantFails
    <2>2. "failed" \in C!AttemptPCs \ {"none", "starting"}
      BY DEF C!AttemptPCs
    <2>3. launch'[a] = launch[a] /\ \A b \in Sessions \ {a} : launch'[b] = launch[b]
      BY <1>1, <2>1
    <2>4. QED
      BY <1>1, <2>1, <2>2, <2>3, PcMoves
  <1>3. ASSUME NEW c \in Calls, NEW h \in Hosts, HonestCalls(c, a, s, h)
        PROVE  [Next]_vars /\ AttemptInv'
    <2>1. PICK n \in Nat : n = Cardinality(CallsOf(a, s))
      BY CountType
    <2>2. n < Len(Program) /\ Submit(c, a, s, Program[n + 1], h) /\ UNCHANGED attempt
      BY <1>3, <2>1 DEF HonestCalls
    <2>3. Program[n + 1] \in Contents
      BY <2>2, ProgramType
    <2>4. QED
      BY <2>2, <2>3, SubmitSteps
  <1>4. CASE HonestReplies(a, s)
    <2>1. PICK v \in {Done, Rejected} : C!VariantReplies(a, s, v)
      BY <1>4 DEF HonestReplies
    <2>2. UNCHANGED egress
      BY <1>4 DEF HonestReplies
    <2>3. QED
      BY <1>1, <2>1, <2>2, ReplyMoves
  <1>5. ASSUME NEW c \in Calls, NEW x \in Contents, NEW h \in Hosts, OtherCalls(c, a, s, x, h)
        PROVE  [Next]_vars /\ AttemptInv'
    <2>1. Submit(c, a, s, x, h) /\ UNCHANGED attempt
      BY <1>5 DEF OtherCalls
    <2>2. QED
      BY <2>1, SubmitSteps
  <1>6. ASSUME NEW v \in {Done, Rejected}, OtherReplies(a, s, v)
        PROVE  [Next]_vars /\ AttemptInv'
    <2>1. C!VariantReplies(a, s, v) /\ UNCHANGED egress
      BY <1>6 DEF OtherReplies
    <2>2. QED
      BY <1>1, <2>1, ReplyMoves
  <1>7. CASE HonestUnserved(a, s)
    <2>1. C!VariantReplies(a, s, Rejected) /\ UNCHANGED egress
      BY <1>7 DEF HonestUnserved
    <2>2. QED
      BY <1>1, <2>1, ReplyMoves
  <1>8. QED
    BY <1>2, <1>3, <1>4, <1>5, <1>6, <1>7

SysInv == IInv /\ AttemptInv /\ MadeInv

LEMMA SysSteps ==
    ASSUME SysInv, [SysNext]_sysVars
    PROVE  [Next]_vars /\ SysInv'
  <1>1. IInv /\ AttemptInv /\ MadeInv
    BY DEF SysInv
  <1>2. ASSUME NEW a \in Sessions, NEW r \in Ids, NEW l \in ServiceLists, Deliver(a, r, l)
        PROVE  [Next]_vars /\ AttemptInv'
    <2>1. C!Receive(a, r, l) /\ UNCHANGED egress
      BY <1>2 DEF Deliver
    <2>2. UNCHANGED vars /\ UNCHANGED launch
      BY <2>1 DEF egress, vars
    <2>3. QED
      BY <1>1, <2>1, <2>2, ReceiveMoves
  <1>3. ASSUME NEW c \in Calls, EgressHandler(c)
        PROVE  [Next]_vars /\ AttemptInv'
    <2>1. ResumeHandler(c) /\ UNCHANGED attempt
      BY <1>3 DEF EgressHandler
    <2>2. UNCHANGED launch
      BY <2>1 DEF ResumeHandler
    <2>3. QED
      BY <1>1, <2>1, <2>2, RowStands DEF Next
  <1>4. CASE UNCHANGED sysVars
    <2>1. UNCHANGED vars /\ UNCHANGED <<attempt, launch>>
      BY <1>4 DEF sysVars, vars
    <2>2. QED
      BY <1>1, <2>1, RowStands, NextIInv, NextMade DEF SysInv
  <1>5. [Next]_vars /\ AttemptInv'
    <2>1. CASE \E a \in Sessions :
                  \/ \E r \in Ids, l \in ServiceLists : Deliver(a, r, l)
                  \/ ChooserRuns(a) \/ StartRefused(a) \/ StopRefused(a)
                  \/ StartUnanswered(a) \/ StopUnanswered(a) \/ ReportFails(a)
      BY <1>1, <1>2, <2>1, ChooserSteps
    <2>2. CASE \E a \in Sessions, s \in Services :
                  \/ RequestFails(a, s)
                  \/ \E c \in Calls, h \in Hosts : HonestCalls(c, a, s, h)
                  \/ HonestReplies(a, s)
                  \/ HonestUnserved(a, s)
                  \/ \E c \in Calls, x \in Contents, h \in Hosts : OtherCalls(c, a, s, x, h)
                  \/ \E v \in {Done, Rejected} : OtherReplies(a, s, v)
      BY <1>1, <2>2, VariantSteps
    <2>3. CASE \E g \in Sessions : EgressLoop(g)
      BY <1>1, <2>3, EgressSteps
    <2>4. CASE \E c \in Calls : EgressHandler(c)
      BY <1>3, <2>4
    <2>5. CASE UNCHANGED sysVars
      BY <1>4, <2>5 DEF SysInv
    <2>6. QED
      BY <2>1, <2>2, <2>3, <2>4, <2>5 DEF SysNext
  <1>6. QED
    BY <1>1, <1>5, NextIInv, NextMade DEF SysInv

LEMMA SysStart == SysInit => Init /\ SysInv
  <1> SUFFICES ASSUME SysInit PROVE Init /\ SysInv
    OBVIOUS
  <1>1. Init /\ IInv /\ C!ChooserInit
    BY InitIInv DEF SysInit
  <1>2. AttemptInv
    <2> DEFINE row == [pc |-> "none", id |-> None, chosen |-> <<>>,
                       reply |-> [s \in Services |-> None], verified |-> FALSE]
    <2>1. attempt = [a \in Sessions |-> row]
      BY <1>1 DEF C!ChooserInit
    <2>2. row \in C!Attempt
      <3>1. <<>> \in Seq(Services)
        BY EmptySeq
      <3>2. QED
        BY <3>1 DEF C!Attempt, C!AttemptPCs
    <2>3. row.pc = "none" /\ row.verified = FALSE
      OBVIOUS
    <2> HIDE DEF row
    <2>4. \A a \in Sessions : launch[a].id = None
      BY <1>1 DEF Init
    <2>5. \A a \in Sessions : RowOK(attempt[a], launch[a])
      BY <2>1, <2>3, <2>4 DEF RowOK
    <2>6. attempt \in [Sessions -> C!Attempt]
      BY <2>1, <2>2
    <2>7. QED
      BY <2>5, <2>6 DEF AttemptInv, C!AttemptTypeOK
  <1>3. MadeInv
    <2>1. Made = {}
      BY <1>1 DEF Init, Made
    <2>2. QED
      BY <2>1, FS_EmptySet DEF MadeInv
  <1>4. QED
    BY <1>1, <1>2, <1>3 DEF SysInv

(* The composition keeps the types of all its parts, whatever is drawn,    *)
(* called, replied, redelivered or fails (chooser.py and main.py).         *)
THEOREM SysTypeCorrect == SysSpec => []SysTypeOK
  <1>1. SysInv /\ [SysNext]_sysVars => SysInv'
    BY SysSteps
  <1>2. SysInv => SysTypeOK
    BY DEF SysInv, IInv, AttemptInv, SysTypeOK
  <1>3. QED
    BY SysStart, <1>1, <1>2, PTL DEF SysSpec

(* Inside a MoFaaS function the egress proxy does nothing that it does not *)
(* do on its own: whatever is proved of EgressProxy holds of the function  *)
(* (start and stop of chooser.py, the calls of the variants).              *)
THEOREM SysImplementsEgress == SysSpec => Spec
  <1>1. SysInv /\ [SysNext]_sysVars => [Next]_vars /\ SysInv'
    BY SysSteps
  <1>2. QED
    BY SysStart, <1>1, PTL DEF SysSpec, Spec

-----------------------------------------------------------------------------
(* The calls of the honest variants.                                       *)

(* A call is new in a step that makes it, and in no other.                 *)
Calling(c) == handler[c].pc = "idle" /\ handler'[c].pc \in {"error", "waiting", "answered"}

LEMMA SubmitCalls ==
    ASSUME IInv, NEW c \in Calls, NEW g \in Sessions, NEW s \in Services, NEW x, NEW h,
           Submit(c, g, s, x, h)
    PROVE  /\ Calling(c) /\ handler'[c].origin = g /\ handler'[c].sender = s
           /\ handler'[c].content = x
           /\ \A d \in Calls \ {c} : handler'[d] = handler[d]
  <1>1. handler \in [Calls -> Handler]
    BY DEF IInv, TypeOK
  <1> DEFINE call == [pc |-> "error", on |-> None, origin |-> g, sender |-> s,
                      content |-> x, host |-> h, answer |-> NoAnswer]
             q    == registry[launch[g].id]
             kept == [call EXCEPT !.pc = "waiting", !.on = q]
             done == [call EXCEPT !.pc = "answered", !.on = q,
                                  !.answer = Head(responses[q][s].items)]
  <1>2. PICK e \in {call, kept, done} : handler' = [handler EXCEPT ![c] = e]
    BY DEF Submit
  <1>3. /\ e.pc \in {"error", "waiting", "answered"} /\ e.origin = g
        /\ e.sender = s /\ e.content = x
    <2>1. call.pc = "error" /\ call.origin = g /\ call.sender = s /\ call.content = x
      OBVIOUS
    <2>2. kept.pc = "waiting" /\ kept.origin = g /\ kept.sender = s /\ kept.content = x
      OBVIOUS
    <2>3. done.pc = "answered" /\ done.origin = g /\ done.sender = s /\ done.content = x
      OBVIOUS
    <2> HIDE DEF call, kept, done
    <2>4. QED
      BY <2>1, <2>2, <2>3
  <1> HIDE DEF call, kept, done
  <1>4. handler'[c] = e /\ \A d \in Calls \ {c} : handler'[d] = handler[d]
    BY <1>1, <1>2
  <1>5. handler[c].pc = "idle"
    BY DEF Submit
  <1>6. QED
    BY <1>3, <1>4, <1>5 DEF Calling

LEMMA NobodyCalls ==
    ASSUME IInv, NEW c \in Calls,
           \/ UNCHANGED handler
           \/ \E g \in Sessions : DeliverResponse(g)
           \/ \E d \in Calls : ResumeHandler(d)
    PROVE  ~Calling(c)
  <1>1. handler \in [Calls -> Handler]
    BY DEF IInv, TypeOK
  <1>2. CASE UNCHANGED handler
    BY <1>2 DEF Calling
  <1>3. ASSUME NEW g \in Sessions, DeliverResponse(g) PROVE ~Calling(c)
    <2>1. PICK woken : handler' = [d \in Calls |->
             IF d \in woken THEN [handler[d] EXCEPT !.pc = "woken"] ELSE handler[d]]
      BY <1>3 DEF DeliverResponse
    <2>2. handler'[c].pc \in {handler[c].pc, "woken"}
      BY <1>1, <2>1 DEF Handler
    <2>3. QED
      BY <2>2 DEF Calling
  <1>4. ASSUME NEW d \in Calls, ResumeHandler(d) PROVE ~Calling(c)
    <2>1. handler[d].pc = "woken" /\ \A e \in Calls \ {d} : handler'[e] = handler[e]
      BY <1>4, ResumeEffect
    <2>2. QED
      BY <2>1 DEF Calling
  <1>5. QED
    BY <1>2, <1>3, <1>4

(* Nobody but the variant itself makes the call of an honest variant.      *)
LEMMA HonestOnly ==
    ASSUME SysInv, [SysNext]_sysVars, NEW c \in Calls, NEW a \in Sessions,
           NEW s \in Honest, NEW x, NEW h, Submit(c, a, s, x, h)
    PROVE  \E k \in Hosts : HonestCalls(c, a, s, k)
  <1>1. IInv /\ s \in Services
    BY MoFaaSAssumption DEF SysInv
  <1>2. Calling(c) /\ handler'[c].origin = a /\ handler'[c].sender = s
    BY <1>1, SubmitCalls
  <1>3. /\ ~UNCHANGED handler
        /\ \A g \in Sessions : ~DeliverResponse(g)
        /\ \A d \in Calls : ~ResumeHandler(d)
    BY <1>1, <1>2, NobodyCalls
  <1>4. ~UNCHANGED egress
    BY <1>3 DEF egress, vars
  <1>5. \A b \in Sessions : ~EgressStarts(b) /\ ~EgressStops(b)
    BY <1>3, <1>4 DEF EgressStarts, EgressStops, Start, Stop
  <1>6. ~UNCHANGED sysVars
    BY <1>3 DEF sysVars
  <1>7. ASSUME NEW b \in Sessions
        PROVE  /\ ~ChooserRuns(b) /\ ~StartRefused(b) /\ ~StopRefused(b)
               /\ ~StartUnanswered(b) /\ ~StopUnanswered(b) /\ ~ReportFails(b)
               /\ \A r \in Ids, l \in ServiceLists : ~Deliver(b, r, l)
    BY <1>4, <1>5 DEF ChooserRuns, StartSession, VerifyReplies, StopSession, ReportMismatch,
                      StartRefused, StopRefused, StartUnanswered, StopUnanswered,
                      ReportFails, Deliver
  <1>8. ASSUME NEW b \in Sessions, NEW t \in Services
        PROVE  /\ ~RequestFails(b, t) /\ ~HonestReplies(b, t) /\ ~HonestUnserved(b, t)
               /\ \A v \in {Done, Rejected} : ~OtherReplies(b, t, v)
    BY <1>4 DEF RequestFails, HonestReplies, HonestUnserved, OtherReplies
  <1>9. \A g \in Sessions : ~EgressLoop(g)
    BY <1>3 DEF EgressLoop, RunLoop, RoundFails, HandleCancelled
  <1>10. \A d \in Calls : ~EgressHandler(d)
    BY <1>3 DEF EgressHandler
  <1>11. PICK b \in Sessions, t \in Services, d \in Calls, k \in Hosts :
            \/ HonestCalls(d, b, t, k)
            \/ \E y \in Contents : OtherCalls(d, b, t, y, k)
    BY <1>6, <1>7, <1>8, <1>9, <1>10 DEF SysNext
  <1>12. PICK y : Submit(d, b, t, y, k)
    BY <1>11 DEF HonestCalls, OtherCalls
  <1>13. /\ handler'[d].origin = b /\ handler'[d].sender = t
         /\ \A e \in Calls \ {d} : handler'[e] = handler[e]
    BY <1>1, <1>12, SubmitCalls
  <1>14. d = c /\ b = a /\ t = s
    BY <1>2, <1>13 DEF Calling
  <1>15. \A z \in Contents : ~OtherCalls(d, b, t, z, k)
    BY <1>14 DEF OtherCalls
  <1>16. QED
    BY <1>11, <1>14, <1>15

LEMMA SubmitOrStay ==
    ASSUME OrphanInv, [Next]_vars
    PROVE  \/ \E c \in Calls, g \in Sessions, s \in Services, x \in Contents, h \in Hosts :
                 Submit(c, g, s, x, h)
           \/ UNCHANGED accepted /\ \A c \in Calls : Stays(c)
  <1>1. IInv
    BY DEF OrphanInv
  <1>2. ASSUME NEW d \in Calls, ResumeHandler(d)
        PROVE  UNCHANGED accepted /\ \A c \in Calls : Stays(c)
    <2>1. Stays(d) /\ \A c \in Calls \ {d} : handler'[c] = handler[c]
      BY <1>1, <1>2, ResumeEffect
    <2>2. \A c \in Calls \ {d} : Stays(c)
      BY <2>1, SameSettled DEF Settled
    <2>3. UNCHANGED accepted
      BY <1>2 DEF ResumeHandler
    <2>4. QED
      BY <2>1, <2>2, <2>3
  <1>3. ASSUME NEW g \in Sessions, DeliverResponse(g)
        PROVE  UNCHANGED accepted /\ \A c \in Calls : Stays(c)
    <2>1. \A c \in Calls : Stays(c)
      BY <1>3, DeliversToAll DEF Settled
    <2>2. QED
      BY <1>3, <2>1 DEF DeliverResponse
  <1>4. ASSUME UNCHANGED <<handler, responses, accepted>>
        PROVE  UNCHANGED accepted /\ \A c \in Calls : Stays(c)
    BY <1>4, SameSettled DEF Settled
  <1>5. QED
    BY <1>2, <1>3, <1>4, HandlerSteps

(* A session is entered for its id once, when it is started.               *)
LEMMA RegistryStep ==
    ASSUME Retry = FALSE, IInv, [Next]_vars, NEW a \in Sessions, Started(a),
           (registry[launch[a].id] = a)'
    PROVE  registry[launch[a].id] = a /\ launch'[a] = launch[a]
  <1>1. loop[a].pc # "none"
    BY DEF IInv, LaunchInv, Started
  <1>2. launch'[a] = launch[a] /\ launch[a].id \in Ids
    BY <1>1, LaunchStands DEF IInv, LaunchInv
  <1>3. registry'[launch[a].id] = a
    BY <1>2
  <1>4. registry \in [Ids -> Sessions \cup {None}]
    BY DEF IInv, TypeOK
  <1>5. ASSUME NEW r \in Ids, NEW l \in ServiceLists, Start(r, l)
        PROVE  registry[launch[a].id] = a
    <2>1. r # launch[a].id
      BY <1>5 DEF Start
    <2>2. PICK g \in Sessions : registry' = [registry EXCEPT ![r] = g]
      BY <1>5 DEF Start
    <2>3. QED
      BY <1>2, <1>3, <1>4, <2>1, <2>2
  <1>6. ASSUME NEW r \in Ids, Stop(r)
        PROVE  registry[launch[a].id] = a
    <2>1. registry' = [registry EXCEPT ![r] = None] /\ a # None
      BY <1>6, NoneAssumption DEF Stop
    <2>2. QED
      BY <1>2, <1>3, <1>4, <2>1
  <1>7. ASSUME UNCHANGED registry PROVE registry[launch[a].id] = a
    BY <1>3, <1>7
  <1>8. \/ \E r \in Ids, l \in ServiceLists : Start(r, l)
        \/ \E r \in Ids : Stop(r)
        \/ UNCHANGED registry
    <2>1. \A c \in Calls, g \in Sessions, s \in Services, x \in Contents, h \in Hosts :
             Submit(c, g, s, x, h) => UNCHANGED registry
      BY DEF Submit
    <2>2. \A c \in Calls : ResumeHandler(c) => UNCHANGED registry
      BY DEF ResumeHandler
    <2>3. \A g \in Sessions :
             RunLoop(g) \/ DeliverResponse(g) \/ RoundFails(g) \/ HandleCancelled(g)
                => UNCHANGED registry
      BY DEF RunLoop, DeliverResponse, RoundFails, HandleCancelled
    <2>4. UNCHANGED vars => UNCHANGED registry
      BY DEF vars
    <2>5. QED
      BY <2>1, <2>2, <2>3, <2>4 DEF Next
  <1>9. QED
    BY <1>2, <1>5, <1>6, <1>7, <1>8

(* Calls that joined a queue joined that of their variant, in their order. *)
LEMMA CountsCalls ==
    ASSUME JoinedInv, NEW a \in Sessions, NEW s \in Services,
           \A c \in CallsOf(a, s) : Joined(c)
    PROVE  Cardinality(CallsOf(a, s)) = Len(accepted[a][s])
  <1>1. IInv /\ OrderSound(a, s)
    BY DEF JoinedInv, OrderInv, OrphanInv
  <1>2. PICK w : w = accepted[a][s]
    OBVIOUS
  <1>3. /\ w \in Seq(Calls) /\ Len(w) \in Nat /\ DOMAIN w = 1 .. Len(w)
        /\ \A k \in DOMAIN w : w[k] \in Calls
    BY <1>1, <1>2, AcceptedType
  <1>4. \A k \in DOMAIN w : w[k] \in CallsOf(a, s)
    BY <1>1, <1>2, <1>3 DEF OrderSound, JoinedAt, CallsOf
  <1>5. \A c \in CallsOf(a, s) : \E k \in DOMAIN w : w[k] = c
    <2>1. ASSUME NEW c \in CallsOf(a, s) PROVE \E k \in DOMAIN w : w[k] = c
      <3>1. c \in Calls /\ Joined(c) /\ handler[c].origin = a /\ handler[c].sender = s
        BY DEF CallsOf
      <3>2. PICK g \in Sessions, t \in Services :
               \E k \in DOMAIN accepted[g][t] : accepted[g][t][k] = c
        BY <3>1 DEF JoinedInv
      <3>3. JoinedAt(c, g, t)
        BY <3>2 DEF JoinedInv, OrderSound
      <3>4. g = a /\ t = s
        BY <3>1, <3>3 DEF JoinedAt
      <3>5. QED
        BY <1>2, <3>2, <3>4
    <2>2. QED
      BY <2>1
  <1>6. \A i, j \in DOMAIN w : w[i] = w[j] => i = j
    BY <1>1, <1>2 DEF OrderSound, Distinct
  <1>7. PICK n \in Nat : n = Len(w)
    BY <1>3
  <1>8. w \in [1 .. n -> CallsOf(a, s)]
    BY <1>3, <1>4, <1>7, LenProperties
  <1>9. w \in Bijection(1 .. n, CallsOf(a, s))
    <2>1. w \in Injection(1 .. n, CallsOf(a, s))
      BY <1>3, <1>6, <1>7, <1>8 DEF Injection, IsInjective
    <2>2. w \in Surjection(1 .. n, CallsOf(a, s))
      BY <1>3, <1>5, <1>7, <1>8 DEF Surjection
    <2>3. QED
      BY <2>1, <2>2 DEF Bijection
  <1>10. ExistsBijection(1 .. n, CallsOf(a, s))
    BY <1>9 DEF ExistsBijection
  <1>11. IsFiniteSet(1 .. n) /\ Cardinality(1 .. n) = n
    <2>1. 1 \in Int /\ n \in Int
      OBVIOUS
    <2>2. IsFiniteSet(1 .. n)
      BY <2>1, FS_Interval
    <2>3. QED
      BY <2>2, UpTo
  <1>12. QED
    BY <1>2, <1>7, <1>10, <1>11, FS_Bijection

(* A call joins the queue of its variant exactly if the session is still   *)
(* entered for its id.                                                     *)
LEMMA SubmitQueues ==
    ASSUME OrphanInv, NEW c \in Calls, NEW g \in Sessions, NEW s \in Services,
           NEW x \in Contents, NEW h \in Hosts, Submit(c, g, s, x, h)
    PROVE  /\ registry[launch[g].id] = g =>
                 JoinedAt(c, g, s)' /\ accepted'[g][s] = Append(accepted[g][s], c)
           /\ registry[launch[g].id] # g => UNCHANGED accepted
  <1>1. registry[launch[g].id] \in {g, None} /\ s \in ServicesOf(g) /\ g # None /\ IInv
    BY SubmitOwn, NoneAssumption DEF OrphanInv
  <1>2. CASE registry[launch[g].id] = g
    <2>1. HasQueue(registry[launch[g].id], s)
      BY <1>1, <1>2 DEF HasQueue
    <2>2. accepted' = [accepted EXCEPT ![g][s] = Append(@, c)]
      BY <1>2, <2>1 DEF Submit
    <2>3. accepted \in [Sessions -> [Services -> Seq(Calls)]]
      BY <1>1 DEF IInv, TypeOK
    <2>4. accepted'[g][s] = Append(accepted[g][s], c)
      BY <2>2, <2>3
    <2>5. accepted'[g][s] # accepted[g][s]
      <3>1. accepted[g][s] \in Seq(Calls)
        BY <2>3
      <3>2. Len(Append(accepted[g][s], c)) = Len(accepted[g][s]) + 1
            /\ Len(accepted[g][s]) \in Nat
        BY <3>1, AppendKeeps
      <3>3. QED
        BY <2>4, <3>2
    <2>6. JoinedAt(c, g, s)'
      BY <2>5, SubmitEffect
    <2>7. QED
      BY <1>2, <2>4, <2>6
  <1>3. CASE registry[launch[g].id] # g
    <2>1. ~HasQueue(registry[launch[g].id], s)
      BY <1>1, <1>3 DEF HasQueue
    <2>2. QED
      BY <1>3, <2>1 DEF Submit
  <1>4. QED
    BY <1>2, <1>3

(* The n-th call of an honest variant in a queue is the n-th of Program,   *)
(* and as long as its session is entered all of its calls are there.       *)
Tracked(a, s) ==
    /\ \A k \in DOMAIN accepted[a][s] :
          k \in DOMAIN Program /\ handler[accepted[a][s][k]].content = Program[k]
    /\ Started(a) /\ registry[launch[a].id] = a => \A c \in CallsOf(a, s) : Joined(c)

LEMMA NobodyBefore ==
    ASSUME MadeInv, NEW a \in Sessions, ~Started(a), NEW s
    PROVE  CallsOf(a, s) = {}
  BY NoneAssumption DEF CallsOf, MadeInv, Made

LEMMA TrackedStays ==
    ASSUME Retry = FALSE, SysInv, [Next]_vars, NEW a \in Sessions, NEW s \in Services,
           Tracked(a, s), UNCHANGED accepted, \A c \in Calls : Stays(c)
    PROVE  Tracked(a, s)'
  <1>1. IInv /\ MadeInv
    BY DEF SysInv
  <1>2. \A k \in DOMAIN accepted[a][s] : accepted[a][s][k] \in Calls
    BY <1>1, AcceptedType
  <1>3. \A k \in DOMAIN accepted'[a][s] :
           k \in DOMAIN Program /\ handler'[accepted'[a][s][k]].content = Program[k]
    BY <1>2 DEF Tracked, Stays
  <1>4. CallsOf(a, s)' = CallsOf(a, s)
    BY DEF CallsOf, Stays
  <1>5. ASSUME (Started(a) /\ registry[launch[a].id] = a)', NEW c \in CallsOf(a, s)
        PROVE  Joined(c)'
    <2>1. Started(a)
      BY <1>1, <1>5, NobodyBefore
    <2>2. registry[launch[a].id] = a
      BY <1>1, <1>5, <2>1, RegistryStep
    <2>3. Joined(c) /\ c \in Calls
      BY <1>5, <2>1, <2>2 DEF Tracked, CallsOf
    <2>4. QED
      BY <2>3 DEF Stays
  <1>6. QED
    BY <1>3, <1>4, <1>5 DEF Tracked

(* The call of another variant, or in another session.                     *)
LEMMA TrackedElsewhere ==
    ASSUME SysInv, JoinedInv, NEW a \in Sessions, NEW s \in Services, Tracked(a, s),
           NEW c \in Calls, NEW g \in Sessions, NEW t \in Services, NEW x \in Contents,
           NEW h \in Hosts, Submit(c, g, t, x, h), ~(g = a /\ t = s)
    PROVE  Tracked(a, s)'
  <1>1. IInv /\ OrphanInv
    BY DEF JoinedInv, OrderInv, OrphanInv
  <1>2. /\ ~Joined(c) /\ \A d \in Calls \ {c} : handler'[d] = handler[d]
        /\ handler'[c].origin = g /\ handler'[c].sender = t
        /\ accepted'[a][s] = accepted[a][s] /\ UNCHANGED <<registry, launch>>
    BY <1>1, SubmitEffect, SubmitOwn
  <1>3. \A k \in DOMAIN accepted[a][s] : accepted[a][s][k] \in Calls \ {c}
    BY <1>1, <1>2, AcceptedType DEF JoinedInv, OrderSound, JoinedAt
  <1>4. \A k \in DOMAIN accepted'[a][s] :
           k \in DOMAIN Program /\ handler'[accepted'[a][s][k]].content = Program[k]
    BY <1>2, <1>3 DEF Tracked
  <1>5. CallsOf(a, s)' \subseteq CallsOf(a, s) \ {c}
    BY <1>2 DEF CallsOf
  <1>6. \A d \in CallsOf(a, s) \ {c} : Joined(d)' <=> Joined(d)
    BY <1>2 DEF CallsOf, Joined
  <1>7. Started(a)' <=> Started(a)
    BY <1>2 DEF Started
  <1>8. QED
    BY <1>2, <1>4, <1>5, <1>6, <1>7 DEF Tracked

(* The next call of an honest variant is the next of its program.          *)
LEMMA TrackedCall ==
    ASSUME SysInv, JoinedInv, IInv', [SysNext]_sysVars, NEW a \in Sessions, NEW s \in Honest,
           s \in Services, Tracked(a, s), NEW c \in Calls, NEW x \in Contents, NEW h \in Hosts,
           Submit(c, a, s, x, h)
    PROVE  Tracked(a, s)'
  <1>1. IInv /\ OrphanInv /\ MadeInv
    BY DEF JoinedInv, OrderInv, OrphanInv, SysInv
  <1>2. PICK n \in Nat : n = Cardinality(CallsOf(a, s))
    BY <1>1, CountType
  <1>3. PICK k \in Hosts : HonestCalls(c, a, s, k)
    BY HonestOnly
  <1>4. n < Len(Program) /\ Submit(c, a, s, Program[n + 1], k) /\ Serving(a, s)
    BY <1>2, <1>3 DEF HonestCalls
  <1>5. /\ handler'[c].content = Program[n + 1] /\ n + 1 \in DOMAIN Program
        /\ ~Joined(c) /\ \A d \in Calls \ {c} : handler'[d] = handler[d]
        /\ UNCHANGED <<registry, launch>> /\ registry[launch[a].id] \in {a, None}
        /\ handler'[c].origin = a /\ handler'[c].sender = s
    BY <1>1, <1>4, SubmitCalls, SubmitOwn, SubmitEffect, ProgramType
  <1>6. \A i \in DOMAIN accepted[a][s] : accepted[a][s][i] \in Calls \ {c}
    BY <1>1, <1>5, AcceptedType, SubmitEffect DEF JoinedInv, OrderSound, JoinedAt
  <1>7. CASE registry[launch[a].id] = a
    <2>1. Started(a)
      BY <1>4 DEF Serving
    <2>2. \A d \in CallsOf(a, s) : Joined(d)
      BY <1>7, <2>1 DEF Tracked
    <2>3. n = Len(accepted[a][s])
      BY <1>2, <2>2, CountsCalls
    <2>4. JoinedAt(c, a, s)' /\ accepted'[a][s] = Append(accepted[a][s], c)
      BY <1>1, <1>7, SubmitQueues
    <2>5. /\ DOMAIN accepted[a][s] = 1 .. n /\ DOMAIN accepted'[a][s] = 1 .. n + 1
          /\ \A i \in 1 .. n : accepted'[a][s][i] = accepted[a][s][i]
          /\ accepted'[a][s][n + 1] = c
      <3>1. accepted[a][s] \in Seq(Calls)
        BY <1>1, AcceptedType
      <3>2. QED
        BY <2>3, <2>4, <3>1, AppendKeeps
    <2>6. ASSUME NEW i \in 1 .. n + 1
          PROVE  i \in DOMAIN Program /\ handler'[accepted'[a][s][i]].content = Program[i]
      <3>1. CASE i \in 1 .. n
        <4>1. i \in DOMAIN Program /\ handler[accepted[a][s][i]].content = Program[i]
          BY <2>5, <3>1 DEF Tracked
        <4>2. handler'[accepted'[a][s][i]] = handler[accepted[a][s][i]]
          BY <1>5, <1>6, <2>5, <3>1
        <4>3. QED
          BY <4>1, <4>2
      <3>2. CASE i = n + 1
        BY <1>5, <2>5, <3>2
      <3>3. QED
        BY <3>1, <3>2
    <2>7. \A d \in CallsOf(a, s)' : Joined(d)'
      <3>1. \A d \in CallsOf(a, s)' : d = c \/ d \in CallsOf(a, s)
        BY <1>5 DEF CallsOf
      <3>2. Joined(c)'
        BY <2>4 DEF JoinedAt
      <3>3. \A d \in CallsOf(a, s) : d # c => Joined(d)'
        BY <1>5, <2>2 DEF CallsOf, Joined
      <3>4. QED
        BY <3>1, <3>2, <3>3
    <2>8. QED
      BY <2>5, <2>6, <2>7 DEF Tracked
  <1>8. CASE registry[launch[a].id] = None
    <2>1. registry[launch[a].id] # a
      BY <1>8, NoneAssumption
    <2>2. UNCHANGED accepted /\ ~(registry[launch[a].id] = a)'
      BY <1>1, <1>5, <2>1, SubmitQueues
    <2>3. \A i \in DOMAIN accepted'[a][s] :
             i \in DOMAIN Program /\ handler'[accepted'[a][s][i]].content = Program[i]
      BY <1>5, <1>6, <2>2 DEF Tracked
    <2>4. QED
      BY <2>2, <2>3 DEF Tracked
  <1>9. QED
    BY <1>5, <1>7, <1>8

LEMMA NextTracked ==
    ASSUME Retry = FALSE, SysInv, JoinedInv, [SysNext]_sysVars, NEW a \in Sessions,
           NEW s \in Honest, Tracked(a, s)
    PROVE  Tracked(a, s)'
  <1>1. [Next]_vars /\ OrphanInv /\ IInv' /\ s \in Services
    BY SysSteps, MoFaaSAssumption DEF SysInv, JoinedInv, OrderInv
  <1>2. CASE UNCHANGED accepted /\ \A c \in Calls : Stays(c)
    BY <1>1, <1>2, TrackedStays
  <1>3. ASSUME NEW c \in Calls, NEW g \in Sessions, NEW t \in Services, NEW x \in Contents,
               NEW h \in Hosts, Submit(c, g, t, x, h)
        PROVE  Tracked(a, s)'
    <2>1. CASE g = a /\ t = s
      BY <1>1, <1>3, <2>1, TrackedCall
    <2>2. CASE ~(g = a /\ t = s)
      BY <1>1, <1>3, <2>2, TrackedElsewhere
    <2>3. QED
      BY <2>1, <2>2
  <1>4. QED
    BY <1>1, <1>2, <1>3, SubmitOrStay

-----------------------------------------------------------------------------
(* What the replies of the honest variants stand for.                      *)

(* A loop only adds to its rounds.                                         *)
LEMMA RoundsGrow ==
    ASSUME OrderInv, [Next]_vars, NEW g \in Sessions, NEW k \in DOMAIN rounds[g]
    PROVE  k \in DOMAIN rounds'[g] /\ rounds'[g][k] = rounds[g][k]
  <1>1. IInv /\ OrphanInv /\ rounds \in [Sessions -> Seq(Round)]
    BY DEF OrderInv, OrphanInv, IInv, TypeOK
  <1>2. CASE rounds'[g] = rounds[g]
    BY <1>2
  <1>3. ASSUME NEW store, Collect(g, store), rounds'[g] # rounds[g]
        PROVE  k \in DOMAIN rounds'[g] /\ rounds'[g][k] = rounds[g][k]
    <2>1. PICK R : rounds' = [rounds EXCEPT ![g] = Append(@, R)]
      BY <1>3 DEF Collect
    <2>2. PICK w : w = rounds[g]
      OBVIOUS
    <2>3. w \in Seq(Round) /\ rounds'[g] = Append(w, R)
      BY <1>1, <2>1, <2>2
    <2>4. w \in Seq(Round \cup {R}) /\ R \in Round \cup {R}
      <3>1. w \in [1 .. Len(w) -> Round] /\ Len(w) \in Nat
        BY <2>3, LenProperties
      <3>2. w \in [1 .. Len(w) -> Round \cup {R}]
        BY <3>1
      <3>3. QED
        BY <3>1, <3>2, SeqDef
    <2>5. \A i \in DOMAIN w : i \in DOMAIN Append(w, R) /\ Append(w, R)[i] = w[i]
      BY <2>4, AppendKeeps
    <2>6. QED
      BY <2>2, <2>3, <2>5
  <1>4. CASE RunLoop(g)
    BY <1>2, <1>3, <1>4 DEF RunLoop
  <1>5. CASE DeliverResponse(g)
    <2>1. Collect(g, <<>>)
      BY <1>1, <1>5, DeliversToAll
    <2>2. QED
      BY <1>2, <1>3, <2>1
  <1>6. QED
    BY <1>2, <1>4, <1>5, LoopSteps

(* A variant replies for itself.                                           *)
LEMMA ReplySteps ==
    ASSUME AttemptInv, [SysNext]_sysVars, NEW a \in Sessions, NEW s \in Honest, s \in Services,
           attempt'[a].reply[s] # attempt[a].reply[s]
    PROVE  HonestReplies(a, s) \/ HonestUnserved(a, s)
  <1>1. attempt \in [Sessions -> C!Attempt]
    BY DEF AttemptInv, C!AttemptTypeOK
  <1>2. /\ \A b \in Sessions : attempt[b] \in C!Attempt
        /\ \A b \in Sessions : attempt[b].reply \in [Services -> {Done, Rejected, None}]
    BY <1>1 DEF C!Attempt
  <1>3. ASSUME NEW b \in Sessions, NEW t \in Services, NEW v, C!VariantReplies(b, t, v)
        PROVE  b = a /\ t = s
    <2>1. attempt' = [attempt EXCEPT ![b].reply[t] = v]
      BY <1>3 DEF C!VariantReplies
    <2>2. PICK row : row = [attempt[b] EXCEPT !.reply[t] = v]
      OBVIOUS
    <2>3. attempt'[b] = row /\ \A e \in Sessions \ {b} : attempt'[e] = attempt[e]
      BY <1>1, <2>1, <2>2
    <2>4. row.reply = [attempt[b].reply EXCEPT ![t] = v]
      BY <1>2, <2>2 DEF C!Attempt
    <2>5. \A u \in Services \ {t} : row.reply[u] = attempt[b].reply[u]
      BY <1>2, <2>4
    <2>6. QED
      BY <2>3, <2>5
  <1>4. ASSUME NEW b \in Sessions, NEW row,
               attempt' = [attempt EXCEPT ![b] = row], row.reply = attempt[b].reply
        PROVE  FALSE
    BY <1>1, <1>4
  <1>5. ASSUME NEW b \in Sessions, NEW p, attempt' = [attempt EXCEPT ![b].pc = p]
        PROVE  FALSE
    <2>1. attempt' = [attempt EXCEPT ![b] = [attempt[b] EXCEPT !.pc = p]]
      BY <1>1, <1>5
    <2>2. [attempt[b] EXCEPT !.pc = p].reply = attempt[b].reply
      BY <1>2 DEF C!Attempt
    <2>3. QED
      BY <1>4, <2>1, <2>2
  <1>6. ASSUME NEW b \in Sessions, NEW r \in Ids, NEW l \in ServiceLists, Deliver(b, r, l)
        PROVE  FALSE
    <2>1. attempt' = [attempt EXCEPT ![b] =
             [attempt[b] EXCEPT !.pc = "starting", !.id = r, !.chosen = l]]
      BY <1>1, <1>6 DEF Deliver, C!Receive
    <2>2. [attempt[b] EXCEPT !.pc = "starting", !.id = r, !.chosen = l].reply = attempt[b].reply
      BY <1>2 DEF C!Attempt
    <2>3. QED
      BY <1>4, <2>1, <2>2
  <1>7. ASSUME NEW b \in Sessions, VerifyReplies(b)
        PROVE  FALSE
    <2>1. attempt' = [attempt EXCEPT ![b] =
             [attempt[b] EXCEPT !.pc = "closing", !.verified = C!Agreed(b)]]
      BY <1>1, <1>7 DEF VerifyReplies, C!Verify
    <2>2. [attempt[b] EXCEPT !.pc = "closing", !.verified = C!Agreed(b)].reply = attempt[b].reply
      BY <1>2 DEF C!Attempt
    <2>3. QED
      BY <1>4, <2>1, <2>2
  <1>8. ASSUME NEW b \in Sessions,
               StartSession(b) \/ StopSession(b) \/ ReportMismatch(b)
                  \/ StartRefused(b) \/ StopRefused(b)
                  \/ StartUnanswered(b) \/ StopUnanswered(b) \/ ReportFails(b)
        PROVE  FALSE
    <2>1. PICK p : attempt' = [attempt EXCEPT ![b].pc = p]
      BY <1>8 DEF StartSession, StopSession, ReportMismatch, StartRefused, StopRefused,
                  StartUnanswered, StopUnanswered, ReportFails, C!Dispatch, C!Close, C!Report, C!PostFails
    <2>2. QED
      BY <1>5, <2>1
  <1>9. ASSUME NEW b \in Sessions, NEW t \in Services, RequestFails(b, t)
        PROVE  FALSE
    BY <1>5, <1>9 DEF RequestFails, C!VariantFails
  <1>10. ~UNCHANGED attempt
    OBVIOUS
  <1>11. ASSUME NEW b \in Sessions, NEW t \in Services, NEW v \in {Done, Rejected},
                OtherReplies(b, t, v)
         PROVE  FALSE
    BY <1>3, <1>11 DEF OtherReplies
  <1>12. PICK b \in Sessions, t \in Services : HonestReplies(b, t) \/ HonestUnserved(b, t)
    BY <1>6, <1>7, <1>8, <1>9, <1>10, <1>11
       DEF SysNext, ChooserRuns, HonestCalls, OtherCalls, EgressLoop, EgressHandler, sysVars
  <1>13. b = a /\ t = s
    BY <1>3, <1>12 DEF HonestReplies, HonestUnserved
  <1>14. QED
    BY <1>12, <1>13

(* An honest variant that replies that it is done has made all calls of    *)
(* its program, and each of them went through, in a round of its own.      *)
DoneBy(a, s) ==
    attempt[a].reply[s] = Done =>
        /\ Len(accepted[a][s]) = Len(Program)
        /\ \A k \in 1 .. Len(Program) : k \in DOMAIN rounds[a] /\ rounds[a][k].forwarded

LEMMA ReplyTells ==
    ASSUME AttemptInv, JoinedInv, NEW a \in Sessions, NEW s \in Services, Served(a, s),
           HonestReplies(a, s)
    PROVE  DoneBy(a, s)'
  <1>1. IInv /\ UNCHANGED <<accepted, rounds>>
    BY DEF JoinedInv, OrderInv, OrphanInv, HonestReplies, egress, vars
  <1>2. PICK v : /\ attempt' = [attempt EXCEPT ![a].reply[s] = v]
                 /\ v = IF \A c \in CallsOf(a, s) : WentThrough(c) THEN Done ELSE Rejected
    BY DEF HonestReplies, C!VariantReplies
  <1>3. attempt'[a].reply[s] = v
    <2>1. attempt \in [Sessions -> C!Attempt]
      BY DEF AttemptInv, C!AttemptTypeOK
    <2>2. attempt[a] \in C!Attempt
      BY <2>1
    <2>3. attempt[a].reply \in [Services -> {Done, Rejected, None}]
      BY <2>2 DEF C!Attempt
    <2>4. attempt'[a] = [attempt[a] EXCEPT !.reply[s] = v]
      BY <1>2, <2>1
    <2>5. attempt'[a].reply = [attempt[a].reply EXCEPT ![s] = v]
      BY <2>2, <2>4 DEF C!Attempt
    <2>6. QED
      BY <2>3, <2>5
  <1>4. ASSUME attempt'[a].reply[s] = Done
        PROVE  /\ Len(accepted[a][s]) = Len(Program)
               /\ \A k \in 1 .. Len(Program) : k \in DOMAIN rounds[a] /\ rounds[a][k].forwarded
    <2>1. \A c \in CallsOf(a, s) : WentThrough(c)
      BY <1>2, <1>3, <1>4 DEF Done, Rejected
    <2>2. \A c \in CallsOf(a, s) : Joined(c)
      BY <2>1 DEF WentThrough, Joined
    <2>3. Len(accepted[a][s]) = Len(Program)
      BY <2>2, CountsCalls DEF HonestReplies
    <2>4. /\ DOMAIN accepted[a][s] = 1 .. Len(accepted[a][s])
          /\ \A k \in DOMAIN accepted[a][s] : accepted[a][s][k] \in Calls
      BY <1>1, AcceptedType
    <2>5. ASSUME NEW k \in 1 .. Len(Program)
          PROVE  k \in DOMAIN rounds[a] /\ rounds[a][k].forwarded
      <3>1. k \in DOMAIN accepted[a][s]
        BY <2>3, <2>4
      <3>2. PICK c \in Calls : c = accepted[a][s][k]
        BY <2>4, <3>1
      <3>3. JoinedAt(c, a, s)
        BY <3>1, <3>2 DEF JoinedInv, OrderSound
      <3>4. WentThrough(c)
        BY <2>1, <3>3 DEF JoinedAt, CallsOf
      <3>5. handler[c].pc = "answered"
        BY <3>4 DEF WentThrough
      <3>6. handler[c].answer = [by |-> a, nth |-> k] /\ k \in DOMAIN rounds[a]
        BY <3>1, <3>2, <3>5, AnswerIsOwn
      <3>7. handler[c].answer.by = a /\ handler[c].answer.nth = k
        BY <3>6
      <3>8. QED
        BY <3>4, <3>6, <3>7 DEF WentThrough
    <2>6. QED
      BY <2>3, <2>5
  <1>5. QED
    BY <1>1, <1>4 DEF DoneBy

(* Without a session an honest variant is rejected.                        *)
LEMMA UnservedTells ==
    ASSUME AttemptInv, NEW a \in Sessions, NEW s \in Services, HonestUnserved(a, s)
    PROVE  DoneBy(a, s)'
  <1>1. attempt \in [Sessions -> C!Attempt]
    BY DEF AttemptInv, C!AttemptTypeOK
  <1>2. attempt[a] \in C!Attempt /\ attempt[a].reply \in [Services -> {Done, Rejected, None}]
    BY <1>1 DEF C!Attempt
  <1>3. attempt' = [attempt EXCEPT ![a].reply[s] = Rejected]
    BY DEF HonestUnserved, C!VariantReplies
  <1>4. attempt'[a] = [attempt[a] EXCEPT !.reply[s] = Rejected]
    BY <1>1, <1>3
  <1>5. attempt'[a].reply = [attempt[a].reply EXCEPT ![s] = Rejected]
    BY <1>2, <1>4 DEF C!Attempt
  <1>6. attempt'[a].reply[s] = Rejected
    BY <1>2, <1>5
  <1>7. QED
    BY <1>6 DEF DoneBy, Done, Rejected

LEMMA NextDone ==
    ASSUME SysInv, JoinedInv, [SysNext]_sysVars, NEW a \in Sessions, NEW s \in Honest,
           s \in Services, Served(a, s), DoneBy(a, s)
    PROVE  DoneBy(a, s)'
  <1>1. [Next]_vars /\ OrderInv /\ OrphanInv /\ IInv /\ AttemptInv
    BY SysSteps DEF SysInv, JoinedInv, OrderInv
  <1>2. CASE attempt'[a].reply[s] # attempt[a].reply[s]
    BY <1>1, <1>2, ReplySteps, ReplyTells, UnservedTells
  <1>3. ASSUME attempt'[a].reply[s] = attempt[a].reply[s], attempt[a].reply[s] = Done
        PROVE  DoneBy(a, s)'
    <2>1. /\ Len(accepted[a][s]) = Len(Program)
          /\ \A k \in 1 .. Len(Program) : k \in DOMAIN rounds[a] /\ rounds[a][k].forwarded
      BY <1>3 DEF DoneBy
    <2>2. accepted'[a][s] = accepted[a][s]
      <3>1. ASSUME NEW c \in Calls, NEW g \in Sessions, NEW t \in Services, NEW x \in Contents,
                   NEW h \in Hosts, Submit(c, g, t, x, h)
            PROVE  accepted'[a][s] = accepted[a][s]
        <4>1. CASE g = a /\ t = s
          <5>1. PICK k \in Hosts : HonestCalls(c, a, s, k)
            BY <3>1, <4>1, HonestOnly
          <5>2. attempt[a].reply[s] = None
            BY <5>1 DEF HonestCalls, Serving
          <5>3. QED
            BY <1>3, <5>2, MoFaaSAssumption
        <4>2. CASE ~(g = a /\ t = s)
          BY <1>1, <3>1, <4>2, SubmitEffect
        <4>3. QED
          BY <4>1, <4>2
      <3>2. QED
        BY <1>1, <3>1, SubmitOrStay
    <2>3. \A k \in 1 .. Len(Program) : k \in DOMAIN rounds'[a] /\ rounds'[a][k].forwarded
      BY <1>1, <2>1, RoundsGrow
    <2>4. QED
      BY <2>1, <2>2, <2>3 DEF DoneBy
  <1>4. QED
    BY <1>2, <1>3 DEF DoneBy

-----------------------------------------------------------------------------
(* The theorems of the composition.                                        *)

HonestInv ==
    /\ SysInv /\ JoinedInv
    /\ \A a \in Sessions : \A s \in Honest : Tracked(a, s) /\ Served(a, s) /\ DoneBy(a, s)

LEMMA NextHonest ==
    ASSUME Retry = FALSE, HonestInv, [SysNext]_sysVars
    PROVE  HonestInv'
  <1>1. /\ SysInv /\ JoinedInv /\ [Next]_vars /\ SysInv'
        /\ \A s \in Honest : s \in Services
    BY SysSteps, MoFaaSAssumption DEF HonestInv
  <1>2. JoinedInv'
    BY <1>1, NextJoined
  <1>3. ASSUME NEW a \in Sessions, NEW s \in Honest
        PROVE  (Tracked(a, s) /\ Served(a, s) /\ DoneBy(a, s))'
    <2>1. Tracked(a, s) /\ Served(a, s) /\ DoneBy(a, s) /\ s \in Services
      BY <1>1 DEF HonestInv
    <2>2. Tracked(a, s)' /\ DoneBy(a, s)'
      BY <1>1, <2>1, NextTracked, NextDone
    <2>3. \A c \in Calls, x \in Contents, h \in Hosts :
             Submit(c, a, s, x, h) => ~Outstanding(a, s)
      BY <1>1, HonestOnly DEF HonestCalls
    <2>4. PICK r \in Nat : ServedUpTo(a, s, r)
      BY <2>1 DEF Served
    <2>5. ServedUpTo(a, s, r)' \/ ServedUpTo(a, s, r + 1)'
      BY <1>1, <2>1, <2>3, <2>4, NextServed
    <2>6. r + 1 \in Nat
      OBVIOUS
    <2>7. Served(a, s)'
      BY <2>5, <2>6 DEF Served
    <2>8. QED
      BY <2>2, <2>7
  <1>4. QED
    BY <1>1, <1>2, <1>3 DEF HonestInv

LEMMA InitHonest == SysInit => HonestInv
  <1> SUFFICES ASSUME SysInit PROVE HonestInv
    OBVIOUS
  <1>1. Init /\ SysInv /\ JoinedInv
    BY SysStart, InitJoined
  <1>2. ASSUME NEW a \in Sessions, NEW s \in Honest
        PROVE  Tracked(a, s) /\ Served(a, s) /\ DoneBy(a, s)
    <2>1. s \in Services
      BY MoFaaSAssumption
    <2>2. Served(a, s)
      BY <1>1, <2>1, InitServed DEF Served
    <2>3. accepted[a][s] = <<>> /\ launch[a].id = None
      BY <1>1, <2>1 DEF Init
    <2>4. Tracked(a, s)
      <3>1. DOMAIN accepted[a][s] = {}
        BY <2>3, EmptySeq
      <3>2. QED
        BY <2>3, <3>1 DEF Tracked, Started
    <2>5. attempt[a].reply[s] = None
      BY <2>1 DEF SysInit, C!ChooserInit
    <2>6. DoneBy(a, s)
      BY <2>5, MoFaaSAssumption DEF DoneBy
    <2>7. QED
      BY <2>2, <2>4, <2>6
  <1>3. QED
    BY <1>1, <1>2 DEF HonestInv

(* The variants of a session are those that were drawn.                    *)
LEMMA ChosenServe ==
    ASSUME HonestInv, NEW a \in Sessions, Started(a)
    PROVE  launch[a].services = attempt[a].chosen /\ C!Chosen(a) = ServicesOf(a)
  <1>1. RowOK(attempt[a], launch[a])
    BY DEF HonestInv, SysInv, AttemptInv
  <1>2. launch[a].services = attempt[a].chosen
    BY <1>1 DEF RowOK, Started
  <1>3. QED
    BY <1>2 DEF C!Chosen, ServicesOf

LEMMA NoRoundBefore ==
    ASSUME HonestInv, NEW a \in Sessions, ~Started(a)
    PROVE  rounds[a] = <<>>
  <1>1. IInv /\ RoundsSorted(a)
    BY DEF HonestInv, JoinedInv, OrderInv, OrphanInv, SortedInv
  <1>2. loop[a].pc = "none"
    BY <1>1, NoneAssumption DEF IInv, LaunchInv, Started
  <1>3. QED
    BY <1>1, <1>2 DEF RoundsSorted

LEMMA HonestForwarded ==
    ASSUME HonestInv, NEW a \in Sessions, NEW s \in Honest, s \in ServicesOf(a),
           NEW n \in DOMAIN rounds[a], rounds[a][n].forwarded
    PROVE  n \in DOMAIN Program /\ ContentOf(rounds[a][n]) = Program[n]
  <1>1. /\ IInv /\ RoundsSorted(a) /\ RoundsInStep(a) /\ Tracked(a, s)
        /\ s \in Services
    BY MoFaaSAssumption
       DEF HonestInv, JoinedInv, OrderInv, OrphanInv, SortedInv, SessionOrdered
  <1>2. PICK i \in DOMAIN launch[a].services : launch[a].services[i] = s
    BY DEF ServicesOf
  <1>3. rounds[a][n].store \in Seq(Calls) /\ RoundSound(a, rounds[a][n])
        /\ launch[a].services \in Seq(Services)
    BY <1>1, RoundType, StoreType DEF RoundsSorted
  <1>4. PICK w \in Seq(Calls) : w = rounds[a][n].store
    BY <1>3
  <1>5. Len(w) = Len(launch[a].services) /\ DOMAIN w = 1 .. Len(w) /\ Len(w) \in Nat
        /\ DOMAIN launch[a].services = 1 .. Len(launch[a].services)
    BY <1>3, <1>4, LenProperties DEF RoundSound
  <1>6. i \in DOMAIN w /\ 1 \in DOMAIN w
    BY <1>2, <1>5
  <1>7. handler[w[1]].content = handler[w[i]].content
    BY <1>3, <1>4, <1>6 DEF RoundSound
  <1>8. n \in DOMAIN accepted[a][s] /\ w[i] = accepted[a][s][n]
    BY <1>1, <1>2, <1>4, <1>6 DEF RoundsInStep
  <1>9. n \in DOMAIN Program /\ handler[w[i]].content = Program[n]
    BY <1>1, <1>8 DEF Tracked
  <1>10. QED
    BY <1>4, <1>7, <1>9 DEF ContentOf

(* If an event is not redelivered, what an honest variant was drawn for    *)
(* has no effects but those of its program, in the order of the program,   *)
(* whatever the other variants do (random.sample of chooser.py and the     *)
(* comparison of main.py).                                                 *)
THEOREM EffectsFollow ==
    ASSUME Retry = FALSE
    PROVE  SysSpec => []EffectsFollowProgram
  <1>1. HonestInv /\ [SysNext]_sysVars => HonestInv'
    BY NextHonest
  <1>2. ASSUME HonestInv, NEW a \in Sessions, HonestIn(a), NEW n \in DOMAIN rounds[a],
               rounds[a][n].forwarded
        PROVE  n \in DOMAIN Program /\ ContentOf(rounds[a][n]) = Program[n]
    <2>1. Started(a)
      BY <1>2, NoRoundBefore, EmptySeq
    <2>2. PICK s \in Honest : s \in C!Chosen(a)
      BY <1>2 DEF HonestIn
    <2>3. s \in ServicesOf(a)
      BY <1>2, <2>1, <2>2, ChosenServe
    <2>4. QED
      BY <1>2, <2>3, HonestForwarded
  <1>3. HonestInv => EffectsFollowProgram
    BY <1>2 DEF EffectsFollowProgram
  <1>4. QED
    BY InitHonest, <1>1, <1>3, PTL DEF SysSpec

LEMMA DoneSettles ==
    ASSUME HonestInv, NEW a \in Sessions, HonestIn(a), attempt[a].verified,
           NEW t \in C!Chosen(a), attempt[a].reply[t] = Done
    PROVE  /\ Len(rounds[a]) = Len(Program)
           /\ \A n \in DOMAIN rounds[a] : rounds[a][n].forwarded
  <1>1. PICK s \in Honest : s \in C!Chosen(a)
    BY DEF HonestIn
  <1>2. /\ OrderInv /\ IInv /\ RowOK(attempt[a], launch[a]) /\ DoneBy(a, s)
        /\ s \in Services
    BY MoFaaSAssumption DEF HonestInv, SysInv, JoinedInv, OrderInv, OrphanInv, AttemptInv
  <1>3. attempt[a].chosen \in Seq(Services)
    <2>1. attempt[a] \in C!Attempt
      BY DEF HonestInv, SysInv, AttemptInv, C!AttemptTypeOK
    <2>2. QED
      BY <2>1 DEF C!Attempt
  <1>4. PICK w : w = attempt[a].chosen
    OBVIOUS
  <1>5. DOMAIN w = 1 .. Len(w) /\ Len(w) \in Nat
    BY <1>3, <1>4, LenProperties
  <1>6. \A i \in 2 .. Len(w) : attempt[a].reply[w[i]] = attempt[a].reply[w[1]]
    BY <1>2, <1>4 DEF RowOK, AgreedIn
  <1>7. \A i \in DOMAIN w : attempt[a].reply[w[i]] = attempt[a].reply[w[1]]
    <2>1. \A i \in DOMAIN w : i = 1 \/ i \in 2 .. Len(w)
      BY <1>5
    <2>2. QED
      BY <1>6, <2>1
  <1>8. PICK i \in DOMAIN w, j \in DOMAIN w : w[i] = s /\ w[j] = t
    BY <1>1, <1>4 DEF C!Chosen
  <1>9. attempt[a].reply[s] = Done
    BY <1>7, <1>8
  <1>10. PICK m \in Nat, p \in Nat : m = Len(rounds[a]) /\ p = Len(Program)
    <2>1. Program \in Seq(Contents)
      BY MoFaaSAssumption
    <2>2. QED
      BY <1>2, <2>1, StoreType, LenProperties
  <1>11. /\ Len(accepted[a][s]) = p /\ DOMAIN rounds[a] = 1 .. m
         /\ \A k \in 1 .. p : k \in 1 .. m /\ rounds[a][k].forwarded
    BY <1>2, <1>9, <1>10, StoreType DEF DoneBy
  <1>12. m <= p
    <2>1. CASE Started(a)
      <3>1. s \in ServicesOf(a)
        BY <1>1, <2>1, ChosenServe
      <3>2. QED
        BY <1>2, <1>10, <1>11, <3>1, RoundsHeard
    <2>2. CASE ~Started(a)
      <3>1. m = 0
        BY <1>10, <2>2, NoRoundBefore, EmptySeq
      <3>2. QED
        BY <1>10, <3>1
    <2>3. QED
      BY <2>1, <2>2
  <1>13. m = p
    <2>1. p = 0 \/ p \in 1 .. m
      BY <1>11
    <2>2. QED
      BY <1>12, <2>1
  <1>14. QED
    BY <1>10, <1>11, <1>13

(* If an event is not redelivered and an honest variant was drawn, a reply *)
(* that passed the comparison and says that the request was done means     *)
(* that every call of the program was forwarded, and forwarded once        *)
(* (__verify_responses of chooser.py with handle_requests of main.py).     *)
THEOREM DoneIsDone ==
    ASSUME Retry = FALSE
    PROVE  SysSpec => []DoneMeansDone
  <1>1. HonestInv /\ [SysNext]_sysVars => HonestInv'
    BY NextHonest
  <1>2. HonestInv => DoneMeansDone
    BY DoneSettles DEF DoneMeansDone
  <1>3. QED
    BY InitHonest, <1>1, <1>2, PTL DEF SysSpec
=============================================================================
