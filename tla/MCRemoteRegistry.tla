-------------------------- MODULE MCRemoteRegistry --------------------------
(***************************************************************************)
(* Instances of RemoteRegistry.                                            *)
(*                                                                         *)
(* A and B are messages of f1.  A has fields of B and of T, which only the *)
(* fallback resolver has; B has one of the enum E, of f2, and a message    *)
(* nested in it one of T.  G, of a file of its own, has fields of B and of *)
(* itself.  D refers to X, which nobody has.                               *)
(***************************************************************************)
EXTENDS RemoteRegistry

CONSTANTS c1, c2, A, B, E, T, D, X, G, f1, f2, f3, f4, f5, f6

\* A URL is written as a tuple.  The program may also register E under another one
\* than that of the fields.
Url(n) == <<"url", n>>

MCNames == {A, B, E, T, D, X, G}
MCUrls == {Url(n) : n \in MCNames} \cup {<<"custom", E>>}
MCFiles == {f1, f2, f3, f4, f5, f6}
MCTypeName == [u \in MCUrls |-> u[2]]
MCDefaultURL == [n \in MCNames |-> Url(n)]
MCEnums == {E}
MCHome == [n \in MCNames |->
  CASE n \in {A, B} -> f1 [] n = E -> f2 [] n = D -> f3 [] n = T -> f4 [] n = X -> f5
    [] n = G -> f6]
MCFields == [n \in MCNames |->
  CASE n = A -> <<Url(B), Url(T)>> [] n = B -> <<Url(E)>>
    [] n = D -> <<Url(X)>> [] n = G -> <<Url(B), Url(G)>> [] OTHER -> <<>>]
MCNestedRefs == [n \in MCNames |-> IF n = B THEN {T} ELSE {}]
MCServed == {Url(n) : n \in {A, B, E, D, G}}
MCFallback == {T}
MCProgram == {B, E, T}

\* Two finds may get B and E at the same time, each for a message of its own, and
\* store them; one may need only a type of the fallback resolver, or what is missing.
MCWanted == [c \in {c1, c2} |-> {Url(n) : n \in IF c = c1 THEN {A, D} ELSE {G, T}}]

\* The URLs wanted before the first find are never read.
MCInit == Init /\ \E u \in Urls : want = [c \in Callers |-> u]

MCSpec == MCInit /\ [][Next]_vars
MCFairSpec == MCSpec /\ \A c \in Callers : WF_vars(Work(c))
=============================================================================
