-------------------------- MODULE BootstrapRegistry --------------------------
(***************************************************************************)
(* The registry of operator descriptors (discovery/bootstrap.py): a        *)
(* dictionary by operator, filled from the node's own descriptor and then  *)
(* from a bundle.  It is a set of descriptors here, one for each operator; *)
(* the order of a dictionary is not modelled.                              *)
(***************************************************************************)
EXTENDS Integers, Sequences

CONSTANTS
    Peer,           \* operators, by identifier (a hash of their key)
    Self,           \* the operator of this node
    TTL,            \* how long its own descriptor is good for
    MaxTime         \* bound: the clock stops there

ASSUME RegistryAssumption ==
    /\ Self \in Peer
    /\ TTL \in Nat \ {0}
    /\ MaxTime \in Nat

(* What a bundle may list.  An entry that is no descriptor is one that is not
   genuine: both are counted as rejected. *)
Descriptor == [operator_id : Peer, updated_at : Nat, expires_at : Nat, genuine : BOOLEAN]

(* A descriptor that is valid for no time is refused when it is parsed. *)
VerifySignature(d) == d.genuine /\ d.updated_at < d.expires_at

(* build_local_descriptor: a new one for each request. *)
LocalDescriptor(now) ==
    [operator_id |-> Self, updated_at |-> now, expires_at |-> now + TTL, genuine |-> TRUE]

Expired(d, now) == d.expires_at <= now

(* Mutation: the bundle's first descriptor of an operator is kept. *)
NoneBefore(listed, i) ==
    \A j \in DOMAIN listed :
       j < i => ~ (VerifySignature(listed[j]) /\ listed[j].operator_id = listed[i].operator_id)

(* add_descriptor replaces: the last one stays, whenever it was issued. *)
NotReplaced(listed, i) ==
    \A j \in DOMAIN listed :
       j > i => ~ (VerifySignature(listed[j]) /\ listed[j].operator_id = listed[i].operator_id)

Accepted(listed) == {i \in DOMAIN listed : VerifySignature(listed[i])}

ImportBundle(registry, listed) ==
    {d \in registry : \A i \in Accepted(listed) : listed[i].operator_id # d.operator_id}
       \cup {listed[i] : i \in {j \in Accepted(listed) : NotReplaced(listed, j)}}

RemoveExpired(registry, now) == {d \in registry : ~ Expired(d, now)}

(* A bundle that lists the descriptors of each operator as they were issued. *)
InOrderOfIssue(listed) ==
    \A i, j \in Accepted(listed) :
       i < j /\ listed[i].operator_id = listed[j].operator_id
          => listed[i].updated_at <= listed[j].updated_at
=============================================================================
