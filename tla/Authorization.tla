---------------------------- MODULE Authorization ----------------------------
(***************************************************************************)
(* The bank's authorization function in its five languages                 *)
(* (src/apps/bank/authorization).                                          *)
(*                                                                         *)
(* Each sends one event with its verdict on the request's token and the    *)
(* name of the client in it, and replies with the verdict.  Signatures are *)
(* not modelled: a token that can be read at all comes from the login      *)
(* function.                                                               *)
(***************************************************************************)
EXTENDS BankClients

(* lowercase: granted, but the header says "bearer".  named: the client    *)
(* that the body of the request names.                                     *)
Tokens  == {"missing", "malformed", "expired", "denied", "granted", "lowercase"}
Request == [token : Tokens, holder : Users, named : Users \cup {Absent}]

Event == [message : {"Missing or invalid token", "Invalid token", "Access denied", "Forwarded"},
          client : Users \cup {None}]

(* The verdict on a header that passes for a bearer token or does not. *)
Judged(request, bearer) ==
    IF ~bearer THEN [message |-> "Missing or invalid token", client |-> None]
    ELSE IF request.token \in {"malformed", "expired"}
    THEN [message |-> "Invalid token", client |-> None]
    ELSE [message |-> IF request.token = "denied" THEN "Access denied" ELSE "Forwarded",
          client |-> request.holder]

(* Mutant of GoEvent: the name in the body is kept. *)
GoEventNamed(request) ==
    LET judged == Judged(request, request.token # "missing")
    IN  IF request.named = Absent THEN judged ELSE [judged EXCEPT !.client = request.named]

GoEvent(request)   == Judged(request, request.token # "missing")
PhpEvent(request)  == Judged(request, request.token # "missing")
JsEvent(request)   == Judged(request, request.token \notin {"missing", "lowercase"})
JavaEvent(request) == Judged(request, request.token \notin {"missing", "lowercase"})

(* The token is decoded whatever the header says, which raises on a        *)
(* missing header or a malformed token: no event, and a 500.  The body's   *)
(* client overrides the token's.                                           *)
PythonEvent(request) ==
    LET judged == Judged(request, request.token # "lowercase")
        client == IF request.token = "expired" THEN None ELSE request.holder
    IN  IF request.token \in {"missing", "malformed"} THEN None
        ELSE [judged EXCEPT !.client = IF request.named = Absent THEN client ELSE request.named]
=============================================================================
