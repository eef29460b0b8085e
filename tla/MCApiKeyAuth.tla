----------------------------- MODULE MCApiKeyAuth ------------------------------
EXTENDS ApiKeyAuth, TLC

\* An object for every cache entry and for every request, so that a load never
\* fails for want of an identity.
ASSUME EnoughObjs ==
  Cardinality(Workers) * Cardinality(Keys) + Cardinality(Requests) <= Cardinality(Objs)

\* Sets of webhook events for the runs.
NoEvents == {}
Suspend == [type |-> "set_status", status |-> "CANCELED"]
Resumed == [type |-> "reactivate"]
Activate(l) == [type |-> "activate", limit |-> l]
Upgrade(l) == [type |-> "update_plan", limit |-> l]

SuspendOnly == {Suspend}
AllEvents == {Activate(2), Upgrade(1), Suspend, Resumed}

Symmetry == Permutations(Requests) \cup Permutations(Objs) \cup Permutations(Workers)
================================================================================
