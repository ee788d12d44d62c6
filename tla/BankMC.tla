------------------------------- MODULE BankMC -------------------------------
(* An instance of the bank, and of what is computed before it runs, for TLC. *)
EXTENDS BankDeployment, TLC

CONSTANTS alice, bob, stranger, elsewhere

S == INSTANCE SequencesExt

TestedIdentities == {"verify-transaction", "authorization"}

(* One or two of the five languages, or as many as three; what is admitted  *)
(* and cannot be served; and what is refused.                               *)
TestedResources ==
    LET five == <<"go", "java", "js", "php", "python">>
    IN  [identity : TestedIdentities, concurrency : {-1, 0, 1, 2, 6}, variants : {five}]
        \cup [identity : {"verify-transaction"}, concurrency : {3}, variants : {<<"java", "php", "python">>}]
        \cup [identity : {"authorization"}, concurrency : {2}, variants : {<<"go", "go">>}]

(* Every way to write an amount, with the other fields at their usual      *)
(* values, and with an amount above the limit every value of one of them.  *)
TestedOrders ==
    LET usual == [amount |-> "large", otp |-> TRUE, client |-> alice, destination |-> bob]
    IN  {[usual EXCEPT !.amount = a] : a \in Amounts}
        \cup {[usual EXCEPT !.client = stranger], [usual EXCEPT !.otp = FALSE]}
        \cup {[usual EXCEPT !.destination = d] : d \in {stranger, Absent, EmptyString}}
        \cup {[usual EXCEPT !.otp = FALSE, !.destination = stranger]}

TestedRequests == {r \in Request : r.holder = alice}

(* Up to two clusters and two managers, lists of up to two of anything.     *)
TestedConfigs ==
    LET clusters == S!SeqOf([firewall : BOOLEAN, addresses : S!SeqOf({elsewhere}, 2)], 2)
        hosts    == {<<>>, <<elsewhere>>, <<NoAction, elsewhere>>, <<elsewhere, elsewhere>>}
    IN  [clusters : clusters, managers : S!SeqOf(S!SeqOf(hosts, 2), 2)]

(* One header, in the spelling that is on the list of headers to ignore and *)
(* in another: it may be missing, ignored, or compared.                     *)
TestedSpellings == {"Date", "date"}
TestedBare      == [n \in TestedSpellings |-> "date"]
=============================================================================
