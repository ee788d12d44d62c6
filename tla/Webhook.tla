------------------------------- MODULE Webhook -------------------------------
(***************************************************************************)
(* The validating webhook of MoFaaSFunction resources                      *)
(* (src/mofaas-contoller/api/v1/mofaasfunction_webhook.go), and what the   *)
(* chooser makes of a resource that was admitted.                          *)
(***************************************************************************)
EXTENDS Integers, Sequences, FiniteSets

CONSTANTS
    Identities,   \* kind, apiVersion, name, namespace and UID of a resource
    VariantNames,
    Resources     \* resources as users may write them

(* spec.private and spec.ignore-headers are left out. *)
ASSUME ResourcesAssumption ==
    Resources \subseteq [identity : Identities, concurrency : Int, variants : Seq(VariantNames)]

(* Mutant of ValidateConcurrency: one too many. *)
ValidateOneMore(resource) == resource.concurrency <= Len(resource.variants) + 1

ValidateConcurrency(resource) == resource.concurrency <= Len(resource.variants)

ValidateCreate(resource) == ValidateConcurrency(resource)

ValidateUpdate(old, resource) ==
    resource.identity = old.identity /\ ValidateConcurrency(resource)

-----------------------------------------------------------------------------
(* The keys of the dictionary that main fills from SERVICES: a name that   *)
(* is listed twice is there once (chooser.py).                             *)
Choosable(resource) == {resource.variants[i] : i \in DOMAIN resource.variants}
=============================================================================
