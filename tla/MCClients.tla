------------------------------ MODULE MCClients ------------------------------
(***************************************************************************)
(* Small instances of what stands on both sides of the write channel: the  *)
(* life cycle of the store, and the subscriptions that get what was        *)
(* written.  They share no state, so a behaviour is one of a single part;  *)
(* the other stays in its initial state, in which no fair action is        *)
(* enabled.                                                                *)
(***************************************************************************)
EXTENDS Lifecycle, Publisher

CONSTANT Parts
VARIABLE part

clientVars == <<part, lifeVars, publisherVars>>

ClientsInit == part \in Parts /\ LifecycleInit /\ PublisherInit

ClientsNext ==
  \/ part = "lifecycle" /\ LifecycleNext /\ UNCHANGED <<part, publisherVars>>
  \/ part = "publisher" /\ PublisherNext /\ UNCHANGED <<part, lifeVars>>

ClientsSpec ==
  /\ ClientsInit /\ [][ClientsNext]_clientVars
  /\ LifecycleFairness /\ PublisherFairness

-----------------------------------------------------------------------------
prefixMatch(p, ignored) == [prefix |-> p, ignore |-> ignored, parses |-> TRUE]

OneKey == {<<"a", "a">>}
(* One subscriber with a plain prefix, one with an ignored position.       *)
TwoSubscribers ==
  [s \in {"s1", "s2"} |-> IF s = "s1" THEN <<prefixMatch(<<"a">>, {})>> ELSE <<prefixMatch(<<"a", "b">>, {2})>>]
==============================================================================
