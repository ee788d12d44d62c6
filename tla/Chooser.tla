------------------------------- MODULE Chooser -------------------------------
(***************************************************************************)
(* The function chooser of a MoFaaS function                               *)
(* (src/function-chooser/chooser.py).                                      *)
(*                                                                         *)
(* Each request it receives is one run of proxy_handler: draw some of the  *)
(* variants, tell the egress proxy to start a session, send the request to *)
(* the variants drawn, compare their replies, tell the egress proxy to     *)
(* stop, answer.  Runs interleave at every await.  What the egress proxy   *)
(* does on a start or a stop, and when and what the variants reply, is the *)
(* choice of the module that composes this one with them.                  *)
(***************************************************************************)
EXTENDS Sequences, Naturals

CONSTANTS
    Attempts,    \* requests received, a redelivered event counted again
    Ids,         \* their Ce-Id headers
    Services,    \* names of the variants, the keys of self.services
    Replies,     \* what the comparison of replies sees of one
    None

VARIABLE attempt

(* starting, closing: a request to the egress proxy is under way.          *)
(* answered: a response was returned; failed: an exception was raised and  *)
(* the caller got a 500.                                                   *)
AttemptPCs == {"none", "starting", "running", "closing", "reporting", "answered", "failed"}
Attempt    == [pc : AttemptPCs, id : Ids \cup {None}, chosen : Seq(Services),
               reply : [Services -> Replies \cup {None}], verified : BOOLEAN]

AttemptTypeOK == attempt \in [Attempts -> Attempt]

ChooserInit ==
    attempt = [a \in Attempts |->
                 [pc |-> "none", id |-> None, chosen |-> <<>>,
                  reply |-> [s \in Services |-> None], verified |-> FALSE]]

(* random.sample(names, k): k of them in any order, no one twice.          *)
Samples(names, k) ==
    {l \in [1 .. k -> names] : \A i, j \in DOMAIN l : l[i] = l[j] => i = j}

Chosen(a) == {attempt[a].chosen[i] : i \in DOMAIN attempt[a].chosen}

(* A request arrives; the start is sent to the egress proxy.               *)
Receive(a, r, l) ==
    /\ attempt[a].pc = "none"
    /\ attempt' = [attempt EXCEPT ![a].pc = "starting", ![a].id = r, ![a].chosen = l]

(* random.sample raises a ValueError, or with nothing drawn there is no    *)
(* first reply: an exception before anyone is asked.                       *)
DrawFails(a) ==
    /\ attempt[a].pc = "none"
    /\ attempt' = [attempt EXCEPT ![a].pc = "failed"]

(* The egress proxy answered, whatever its status; the request is sent to  *)
(* the chosen variants.                                                    *)
Dispatch(a) ==
    /\ attempt[a].pc = "starting"
    /\ attempt' = [attempt EXCEPT ![a].pc = "running"]

VariantReplies(a, s, v) ==
    /\ attempt[a].pc = "running" /\ s \in Chosen(a) /\ attempt[a].reply[s] = None
    /\ attempt' = [attempt EXCEPT ![a].reply[s] = v]

(* A connection breaks, a request times out, or a reply is not the JSON it *)
(* says it is: gather raises at once and nothing stops the session.        *)
VariantFails(a, s) ==
    /\ attempt[a].pc = "running" /\ s \in Chosen(a) /\ attempt[a].reply[s] = None
    /\ attempt' = [attempt EXCEPT ![a].pc = "failed"]

(* __verify_responses: every reply is compared with the first one.         *)
Agreed(a) ==
    LET chosen == attempt[a].chosen
    IN  \A i \in 2 .. Len(chosen) : attempt[a].reply[chosen[i]] = attempt[a].reply[chosen[1]]

(* Mutant of Verify: the replies that have come in are compared.           *)
VerifyEarly(a) ==
    /\ attempt[a].pc = "running" /\ \E s \in Chosen(a) : attempt[a].reply[s] # None
    /\ attempt' = [attempt EXCEPT ![a].pc = "closing", ![a].verified = TRUE]

(* All chosen variants have replied; the stop is sent.                     *)
Verify(a) ==
    /\ attempt[a].pc = "running" /\ \A s \in Chosen(a) : attempt[a].reply[s] # None
    /\ attempt' = [attempt EXCEPT ![a].pc = "closing", ![a].verified = Agreed(a)]

(* The egress proxy answered the stop, whatever its status: return the     *)
(* response, or report the mismatch first.                                 *)
Close(a) ==
    /\ attempt[a].pc = "closing"
    /\ attempt' = [attempt EXCEPT ![a].pc = IF attempt[a].verified THEN "answered" ELSE "reporting"]

(* The mismatch was sent to K_SINK, or there is none.                      *)
Report(a) ==
    /\ attempt[a].pc = "reporting"
    /\ attempt' = [attempt EXCEPT ![a].pc = "answered"]

(* A request to the egress proxy or to K_SINK raises an exception.         *)
PostFails(a) ==
    /\ attempt[a].pc \in {"starting", "closing", "reporting"}
    /\ attempt' = [attempt EXCEPT ![a].pc = "failed"]
=============================================================================
