--------------------------- MODULE VerifyResponses ---------------------------
(***************************************************************************)
(* How the chooser compares the replies of the variants                    *)
(* (src/function-chooser/chooser.py, __verify_responses): each with the    *)
(* first, status and body as they are, headers as follows.  A header is    *)
(* found whatever the case its name is written in, but the list of headers *)
(* to ignore is searched for the name as it is written in the reply.       *)
(***************************************************************************)
EXTENDS Naturals, Sequences

CONSTANTS
    Spellings,    \* names of headers, as written
    Bare,         \* of each, the name without regard to case
    Ignored,      \* self.ignore_headers
    HeaderValues,
    MaxReplies    \* bound on the replies that are compared

ASSUME IgnoredAssumption == Ignored \subseteq Spellings

(* A reply does not repeat a header. *)
HeaderSets ==
    {names \in SUBSET Spellings : \A m, n \in names : Bare[m] = Bare[n] => m = n}

Headers == UNION {[names -> HeaderValues] : names \in HeaderSets}

Spelling(reply, name) == {m \in DOMAIN reply.headers : Bare[m] = Bare[name]}

SameHeader(one, other, name) ==
    \E m \in Spelling(one, name), n \in Spelling(other, name) : one.headers[m] = other.headers[n]

(* Mutant of Compared: only the headers of the first reply.                *)
ComparedNames(one, other) == DOMAIN one.headers

Compared(one, other) == DOMAIN one.headers \cup DOMAIN other.headers

SameReply(one, other) ==
    /\ one.body = other.body
    /\ \A name \in Compared(one, other) : SameHeader(one, other, name) \/ name \in Ignored

VerifyReplies(replies) == \A i \in DOMAIN replies : i > 1 => SameReply(replies[1], replies[i])

-----------------------------------------------------------------------------
(* What the property of the verdict, in BankMC, is about.                  *)

(* All replies write the names of headers alike. *)
Uniform(headers) ==
    \A i, j \in DOMAIN headers :
        \A m \in DOMAIN headers[i], n \in DOMAIN headers[j] : Bare[m] = Bare[n] => m = n

UniformHeaders ==
    [k \in 1 .. MaxReplies |-> {headers \in [1 .. k -> Headers] : Uniform(headers)}]

(* What a caller would call agreement: every header that is not to be      *)
(* ignored is the same everywhere, or nowhere.                             *)
HeadersAgree(headers) ==
    \A i, j \in DOMAIN headers : \A name \in Spellings \ Ignored :
        /\ name \in DOMAIN headers[i] <=> name \in DOMAIN headers[j]
        /\ name \in DOMAIN headers[i] => headers[i][name] = headers[j][name]

AgreeingHeaders ==
    [k \in 1 .. MaxReplies |-> {headers \in UniformHeaders[k] : HeadersAgree(headers)}]
=============================================================================
