---------------------------- MODULE MCSourceInfo ----------------------------
(***************************************************************************)
(* SourceInfo with two goroutines and three files, "top" over "left" and   *)
(* "base", "left" over "base".                                             *)
(***************************************************************************)
EXTENDS SourceInfo, TLC

CONSTANTS c1, c2

MCCallers == {c1, c2}
MCFiles == {"base", "left", "top"}
MCImports ==
  [f \in MCFiles |-> CASE f = "base" -> {} [] f = "left" -> {"base"} [] OTHER -> {"left", "base"}]
MCNeeds == [f \in MCFiles |-> MCImports[f] \cup {f}]

\* The files before the first calls are never read: one choice stands for all.
MCInit == Init /\ file = [c \in Callers |-> "base"]
MCSpec == MCInit /\ [][Next]_vars

CallerSymmetry == Permutations(Callers)
=============================================================================
