----------------------------- MODULE BankClients -----------------------------
(* The clients of the bank, as its functions name them. *)

CONSTANTS
    Users,       \* usernames the database knows; login issues tokens to them
    Strangers,   \* usernames it does not know
    Absent,      \* a field that is not there
    EmptyString, \* the value "" of a field
    None         \* no client, no id

Names == Users \cup Strangers

ASSUME ClientsAssumption ==
    /\ Names \cap {Absent, EmptyString, None} = {}
    /\ EmptyString # Absent /\ None \notin {Absent, EmptyString}
=============================================================================
