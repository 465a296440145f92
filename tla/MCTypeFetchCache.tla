-------------------------- MODULE MCTypeFetchCache --------------------------
(***************************************************************************)
(* Instances of TypeFetchCache.                                            *)
(***************************************************************************)
EXTENDS TypeFetchCache, TLC

\* An address for each pointer there may be: allocation never has to wait.
ASSUME EnoughEntries ==
  Cardinality(Entries) >= Cardinality(Callers) + Cardinality(Urls)

\* The requests before the first call are never read: one choice stands for all.
MCInit == Init /\ \E r \in Requests : req = [c \in Callers |-> r]

MCSpec == MCInit /\ [][Next]_vars
MCFairSpec == MCSpec /\ Fairness

Symmetric == Permutations(Callers) \cup Permutations(Urls) \cup Permutations(Kinds)
=============================================================================
