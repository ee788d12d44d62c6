---------------------------- MODULE EnvoyAddress ----------------------------
(***************************************************************************)
(* updateEnvoyAddress: puts the address of the egress proxy in an Envoy    *)
(* configuration, whose shape whoever installs the controller may change   *)
(* (src/mofaas-contoller/internal/controller/envoy_utils.go).              *)
(*                                                                         *)
(* A configuration has clusters, each with a list of addresses (empty if a *)
(* part on the way to the first is missing), and HTTP connection managers, each *)
(* a list of virtual hosts (empty if a part is missing) that are lists of  *)
(* routes.  A route has a host to rewrite to, or no action.  Listeners,    *)
(* filter chains and other filters hold nothing that is changed.           *)
(***************************************************************************)
EXTENDS Naturals, Sequences

CONSTANTS
    Addresses,
    Egress,   \* the address of the egress proxy
    NoAction, \* a route without an action, such as a redirect
    Configs   \* configurations

Cluster == [firewall : BOOLEAN, addresses : Seq(Addresses)]
Config  == [clusters : Seq(Cluster), managers : Seq(Seq(Seq(Addresses \cup {NoAction})))]

ASSUME EnvoyAssumption ==
    /\ Egress \in Addresses /\ NoAction \notin Addresses
    /\ Configs \subseteq Config

Firewalls(config) == {i \in DOMAIN config.clusters : config.clusters[i].firewall}

IsFirst(i, indices) == \A j \in indices : i <= j

NewClusters(config) ==
    [i \in DOMAIN config.clusters |->
        IF i \in Firewalls(config) /\ IsFirst(i, Firewalls(config))
        THEN [config.clusters[i] EXCEPT !.addresses[1] = Egress]
        ELSE config.clusters[i]]

Actions(host) == {i \in DOMAIN host : host[i] # NoAction}

(* The loop over the routes ends at the first that has an action. *)
NewRoutes(host) ==
    [i \in DOMAIN host |-> IF i \in Actions(host) /\ IsFirst(i, Actions(host)) THEN Egress ELSE host[i]]

(* Mutant of NewManager: the loop over the virtual hosts ends as well. *)
NewManagerOnce(manager) == [h \in DOMAIN manager |-> IF h = 1 THEN NewRoutes(manager[h]) ELSE manager[h]]

NewManager(manager) == [h \in DOMAIN manager |-> NewRoutes(manager[h])]

Updates(config) ==
    /\ \E i \in Firewalls(config) :
          IsFirst(i, Firewalls(config)) /\ config.clusters[i].addresses # <<>>
    /\ \A m \in DOMAIN config.managers : config.managers[m] # <<>>
    /\ \E m \in DOMAIN config.managers : \E h \in DOMAIN config.managers[m] :
          Actions(config.managers[m][h]) # {}

(* The new configuration, if no error is returned. *)
UpdateEnvoyAddress(config) ==
    [clusters |-> NewClusters(config),
     managers |-> [m \in DOMAIN config.managers |-> NewManager(config.managers[m])]]

-----------------------------------------------------------------------------
(* What the property of the calls, in BankMC, is about.                    *)

(* As in the configuration that comes with the controller: one address for *)
(* the firewall cluster, one route with an action in a virtual host.       *)
Ordinary(config) ==
    /\ \A i, j \in Firewalls(config) : i = j
    /\ \A i \in Firewalls(config) : Len(config.clusters[i].addresses) <= 1
    /\ \A m \in DOMAIN config.managers : \A h \in DOMAIN config.managers[m] :
          \A i, j \in Actions(config.managers[m][h]) : i = j

(* An Envoy that gets new sends every call it routes to the egress proxy,  *)
(* under that one's host name, and other clusters are as they were in old. *)
Routes(old, new) ==
    /\ \A i \in DOMAIN new.clusters :
          IF old.clusters[i].firewall
          THEN new.clusters[i].addresses = <<Egress>>
          ELSE new.clusters[i] = old.clusters[i]
    /\ \A m \in DOMAIN new.managers : \A h \in DOMAIN new.managers[m] :
          \A i \in DOMAIN new.managers[m][h] : new.managers[m][h][i] \in {Egress, NoAction}

Routed ==
    \A config \in {c \in Configs : Ordinary(c) /\ Updates(c)} :
        Routes(config, UpdateEnvoyAddress(config))
=============================================================================
