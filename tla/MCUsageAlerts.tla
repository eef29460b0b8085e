----------------------------- MODULE MCUsageAlerts -----------------------------
EXTENDS UsageAlerts, TLC, FiniteSets

\* Every request and task can have an object of its own.  The entry of the one
\* worker needs no other: the slot that filled it has this object, or none, until
\* it misses again, and then the entry is gone.
ASSUME EnoughObjs ==
  /\ Cardinality(Workers) = 1
  /\ Cardinality(Requests) + Cardinality(Tasks) <= Cardinality(Objs)

Symmetry == Permutations(Workers) \cup Permutations(Requests)
              \cup Permutations(Tasks) \cup Permutations(Objs)
================================================================================
