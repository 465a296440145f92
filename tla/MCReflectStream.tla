-------------------------- MODULE MCReflectStream --------------------------
\* ReflectStream for TLC: two goroutines and two different requests.
EXTENDS ReflectStream, TLC

CONSTANTS c1, c2, r1, r2

MCCallers == {c1, c2}
MCRequests == {r1, r2}
MCOneRequest == {r1}
CallerSymmetry == Permutations(MCCallers) \cup Permutations(MCRequests)

\* For the liveness run: a client with both stubs (NewClientAuto), the only one
\* whose calls can move between versions.
LiveInit == Init /\ stubs = Versions
LiveSpec == LiveInit /\ [][Next]_vars /\ Fairness
=============================================================================
