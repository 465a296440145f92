-------------------------- MODULE MCBuilderResolve --------------------------
(***************************************************************************)
(* BuilderResolve for every graph of references between two files, two     *)
(* standalone messages and a descriptor, with one path for all of them,    *)
(* and an enum that is not valid; the descriptor declares the name of M.   *)
(***************************************************************************)
EXTENDS BuilderResolve

CONSTANTS A, B, M, N, E, X, tempM, tempN, tempE, samePath

MCFiles == {A, B}
MCStandalone == {M, N, E}
MCForeign == {X}
MCTemps == {tempM, tempN, tempE}
MCTemp == [m \in MCStandalone |-> CASE m = M -> tempM [] m = N -> tempN [] m = E -> tempE]
MCPaths == {samePath}
MCForeignPath == [f \in MCForeign |-> samePath]

MCMayRefer ==
  {<<A, B>>, <<A, M>>, <<M, A>>, <<M, N>>, <<N, M>>, <<B, N>>, <<N, B>>, <<A, A>>,
   <<A, X>>, <<N, X>>, <<M, E>>}

MCInvalid == {E}
MCSameName == {{M, X}}
=============================================================================
