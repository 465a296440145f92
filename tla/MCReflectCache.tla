--------------------------- MODULE MCReflectCache ---------------------------
\* ReflectCache for TLC: a server of four files.  "a" uses types of "b", and
\* imports "opts", which the server does not have, and "base", which only the
\* fallback resolver has; "b" uses types of "d"; "x" uses types of "opts" and so
\* cannot be had; "d" imports nothing.
EXTENDS ReflectCache, TLC

CONSTANTS c1, c2

MCCallers == {c1, c2}
CallerSymmetry == Permutations(MCCallers)

MCFiles == {"a", "b", "d", "x", "opts", "base"}

MCImports == [f \in MCFiles |->
  CASE f = "a" -> <<"opts", "b", "base">>
    [] f = "b" -> <<"d">>
    [] f = "x" -> <<"d", "opts">>
    [] OTHER   -> <<>>]

MCNeeds == [f \in MCFiles |->
  CASE f = "a" -> {"b"}
    [] f = "b" -> {"d"}
    [] f = "x" -> {"opts"}
    [] OTHER   -> {}]

\* The file alone, with an import after it, or with its imports before it.  A
\* query for "base" gets a response that does not include it.
MCAnswers == [f \in MCFiles |->
  CASE f = "a"    -> {<<"a">>, <<"a", "b">>}
    [] f = "b"    -> {<<"b">>, <<"d", "b">>}
    [] f = "d"    -> {<<"d">>}
    [] f = "x"    -> {<<"x">>}
    [] f = "base" -> {<<"d">>}
    [] OTHER      -> {}]

\* A smaller server for the liveness run: "a" uses types of "b"; "x" imports
\* "opts", which nobody has.
MCSmallFiles == {"a", "b", "x", "opts"}

MCSmallImports == [f \in MCSmallFiles |->
  CASE f = "a" -> <<"b">>
    [] f = "x" -> <<"b", "opts">>
    [] OTHER   -> <<>>]

MCSmallNeeds == [f \in MCSmallFiles |-> IF f = "a" THEN {"b"} ELSE {}]

MCSmallAnswers == [f \in MCSmallFiles |->
  CASE f = "a" -> {<<"a">>, <<"b", "a">>}
    [] f = "opts" -> {}
    [] OTHER -> {<<f>>}]

\* What a caller that has asked nothing would have asked does not matter.
MCInit == /\ Init
          /\ \A t \in Callers : query[t] = [kind |-> "file", path |-> "a"]

MCSpec == MCInit /\ [][Next]_vars
MCFairSpec == MCSpec /\ Fairness
=============================================================================
