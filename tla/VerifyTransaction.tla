-------------------------- MODULE VerifyTransaction --------------------------
(***************************************************************************)
(* The bank's verify-transaction function in its five languages            *)
(* (src/apps/bank/verify-transaction).                                     *)
(*                                                                         *)
(* Each looks the ids of the two clients up in the database, one after the *)
(* other, sends an event with its verdict, which decides whether the       *)
(* transaction is done, and replies with the verdict.  What a variant does *)
(* is a function of the order and of the ids it found.  An amount is told  *)
(* by how it is written, since that is what the languages read             *)
(* differently.                                                            *)
(***************************************************************************)
EXTENDS BankClients, Sequences

(* small: a number up to MAX_AMOUNT, or a string of one.  large: above it. *)
(* The others are strings, but for missing, null and boolean (true).       *)
Amounts == {"small", "large", "missing", "null", "boolean", "empty", "text",
            "prefixed", \* "12abc" or "0x10", begins with a small number
            "suffixed", \* "12d", a number in Java
            "grouped",  \* "1_0", a number in Go and Python
            "nan",      \* "NaN"
            "infinite", \* "Infinity"
            "binary",   \* "0x1p30", above MAX_AMOUNT in Go and Java
            "huge"}     \* "1e400", above every double
Order   == [amount : Amounts, otp : BOOLEAN, client : Names,
            destination : Names \cup {Absent, EmptyString}]

Messages == {"Forwarded", "Invalid amount provided", "OTP required or incorrect",
             "Invalid client usernames"}

Found == [from : Users \cup {None}, to : Users \cup {None}]

-----------------------------------------------------------------------------
(* What each language makes of an amount: small, large, or invalid.  A     *)
(* NaN is not above MAX_AMOUNT, so it passes for small.                    *)

Read(amount, small, large) ==
    IF amount \in small THEN "small" ELSE IF amount \in large THEN "large" ELSE "invalid"

(* ParseFloat takes a Go literal, and an overflow for an error. *)
GoAmount(amount) == Read(amount, {"small", "grouped", "nan"}, {"large", "infinite", "binary"})

JavaAmount(amount) ==
    Read(amount, {"small", "suffixed", "nan"}, {"large", "infinite", "binary", "huge"})

(* float(True) is 1.0. *)
PythonAmount(amount) ==
    Read(amount, {"small", "boolean", "grouped", "nan"}, {"large", "infinite", "huge"})

(* isNaN and parseFloat disagree on null, "" and true: a NaN that is kept. *)
JsAmount(amount) ==
    LET large == {"large", "infinite", "huge"}
    IN  Read(amount, Amounts \ (large \cup {"missing", "text", "nan"}), large)

(* The cast to float takes what it can, and its result is always numeric.  *)
PhpAmount(amount) ==
    LET large == {"large", "huge"}
    IN  Read(amount, Amounts \ (large \cup {"missing", "null"}), large)

-----------------------------------------------------------------------------
(* The names that are looked up: some languages skip an absent or empty    *)
(* one.                                                                    *)

Lookups(order, skipped) ==
    IF order.destination \in skipped THEN <<order.client>> ELSE <<order.client, order.destination>>

GoLookups(order)     == Lookups(order, {Absent, EmptyString})
JsLookups(order)     == Lookups(order, {Absent, EmptyString})
PhpLookups(order)    == Lookups(order, {Absent, EmptyString})
JavaLookups(order)   == Lookups(order, {Absent})
PythonLookups(order) == Lookups(order, {})

-----------------------------------------------------------------------------
(* The verdicts.                                                           *)

(* Mutant of Verdict: a recipient that is not found is none. *)
VerdictOfSender(amount, order, found) ==
    IF amount = "invalid" THEN "Invalid amount provided"
    ELSE IF amount = "large" /\ ~order.otp THEN "OTP required or incorrect"
    ELSE IF None = found.from THEN "Invalid client usernames"
    ELSE "Forwarded"

(* The first check that fails; the OTP is asked for above MAX_AMOUNT. *)
Verdict(amount, order, found) ==
    IF amount = "invalid" THEN "Invalid amount provided"
    ELSE IF amount = "large" /\ ~order.otp THEN "OTP required or incorrect"
    ELSE IF None \in {found.from, found.to} THEN "Invalid client usernames"
    ELSE "Forwarded"

GoVerdict(order, found)   == Verdict(GoAmount(order.amount), order, found)
JavaVerdict(order, found) == Verdict(JavaAmount(order.amount), order, found)
JsVerdict(order, found)   == Verdict(JsAmount(order.amount), order, found)
PhpVerdict(order, found)  == Verdict(PhpAmount(order.amount), order, found)

(* (code == 200 and not from_id) or not to_id: a recipient that is not     *)
(* found overrides any other verdict.                                      *)
PythonVerdict(order, found) ==
    IF found.to = None
    THEN "Invalid client usernames"
    ELSE Verdict(PythonAmount(order.amount), order, found)
=============================================================================
