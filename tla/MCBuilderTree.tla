---------------------------- MODULE MCBuilderTree ----------------------------
(***************************************************************************)
(* BuilderTree with a file, two messages, a oneof, two fields, a group     *)
(* field with its message and an extension.  Names clash on purpose: the   *)
(* names are few and elements of every kind share them.                    *)
(***************************************************************************)
EXTENDS BuilderTree

CONSTANTS F, M1, M2, O, x, y, gf, G, e

MCPlain == {F}
MCMessages == {M1, M2, G}
MCOneofs == {O}
MCFields == {x, y, gf}
MCLeaves == {e}
MCNames == {"a", "b", "c", "A", "B"}
MCFirstName ==
  [k \in {F, M1, M2, O, x, y, gf, G, e} |->
     CASE k \in {x, gf} -> "a" [] k = y -> "b" [] k = O -> "c" [] OTHER -> "A"]
MCCapital == {"A", "B"}
MCGroupName == [n \in MCCapital |-> IF n = "A" THEN "a" ELSE "b"]
MCGroup == [f \in MCFields |-> IF f = gf THEN G ELSE NoBuilder]
MCHolds ==
  {<<F, G>>, <<M1, x>>, <<M1, gf>>, <<M1, O>>, <<M1, G>>, <<M1, e>>,
   <<M2, O>>, <<O, x>>, <<O, y>>}
MCRenamed == {x, G}
MCNewNames == [k \in MCRenamed |-> IF k = x THEN {"a", "b"} ELSE {"A", "B", "c"}]

\* Two fields may have number 1, and two number 2.
MCNewNumbers ==
  [f \in MCFields |-> CASE f = x -> {0, 1, 2} [] f = y -> {0, 2} [] f = gf -> {0, 1}]
=============================================================================
