--------------------------- MODULE BuilderResolve ---------------------------
(***************************************************************************)
(* Build (protobuilder, resolver.go): from the root of one builder, every  *)
(* root it refers to is built first, depth first, each into one file that  *)
(* imports the files of the roots it refers to.  A root that is no file is *)
(* hung below a temporary one while it is built.                           *)
(*                                                                         *)
(* A root stands for the whole tree under it, and refers to what any       *)
(* element of the tree refers to.  References are followed in any order:   *)
(* those a file lists itself are in a map.  Files of one path are never    *)
(* equal.  Custom options are left out.                                    *)
(***************************************************************************)
EXTENDS Integers, Sequences, FiniteSets

CONSTANTS
  Files,        \* file builders
  Standalone,   \* messages, enums, extensions and services that are in no file
  Foreign,      \* files that are not built: descriptors
  Temps, Temp,  \* the temporary file of each standalone builder
  MayRefer,     \* the references there may be
  Paths, NoPath,
  ForeignPath,  \* the path of each descriptor
  Invalid,      \* builders of which no valid file can be made
  SameName,     \* the pairs that declare one name, or extend a message at one number
  NoFile

Builders == Files \cup Standalone
Roots == Builders \cup Temps

ASSUME ResolveAssumption ==
  /\ Temp \in [Standalone -> Temps]
  /\ \A e \in Temps : \E m \in Standalone : Temp[m] = e
  /\ \A m, n \in Standalone : Temp[m] = Temp[n] => m = n
  /\ MayRefer \subseteq Builders \X (Builders \cup Foreign)
  /\ ForeignPath \in [Foreign -> Paths]
  /\ Invalid \subseteq Builders
  /\ \A s \in SameName : s \subseteq Builders \cup Foreign /\ Cardinality(s) = 2
  /\ Files \cap Standalone = {} /\ Temps \cap Builders = {} /\ Roots \cap Foreign = {}
  /\ NoPath \notin Paths /\ NoFile \notin Roots \cup Foreign
  /\ Paths \cap Roots = {}                      \* a root stands for a generated path
  /\ IsFiniteSet(Roots \cup Foreign)

VARIABLES
  refs,      \* the references there are
  path,      \* the path of each file builder, NoPath to have one generated
  parent,    \* the parent of each standalone builder
  stack,     \* a frame for each root that is being resolved: seen
  files,     \* the registry of the resolver; its roots are the resolvedRoots
  built,     \* the paths and imports of the roots in files
  target,    \* history: the root of the latest Build
  outcome

vars == <<refs, path, parent, stack, files, built, target, outcome>>

Init ==
  /\ refs \in SUBSET MayRefer
  /\ path \in [Files -> Paths \cup {NoPath}]
  /\ parent = [m \in Standalone |-> NoFile]
  /\ stack = <<>> /\ files = {} /\ built = [e \in {} |-> {}]
  /\ target = NoFile /\ outcome = "idle"

-----------------------------------------------------------------------------

\* getRoot.
RootOf(b) == IF b \in Standalone /\ parent[b] # NoFile THEN parent[b] ELSE b

\* The builder whose tree is in the file of root e.
Content(e) == IF e \in Temps THEN CHOOSE m \in Standalone : Temp[m] = e ELSE e

RefsOf(b) == {r \in Builders \cup Foreign : <<b, r>> \in refs}

\* todo are the references left, deps the files found so far.
Frame(e) == [root |-> e, todo |-> RefsOf(Content(e)), deps |-> {}]

\* resolveSyntheticFile sets the parent of the builder, which stays the root that its
\* frame compares with.
Adopted(e) == IF e \in Standalone THEN [parent EXCEPT ![e] = Temp[e]] ELSE parent

Top == stack[Len(stack)]
Below == SubSeq(stack, 1, Len(stack) - 1)
Seen(e) == \E i \in 1..Len(stack) : stack[i].root = e

\* Fault: a parent is reset only when its file is built.
ParentsAfterFailureKept == parent

\* The deferred functions of all the calls on the stack have run.
ParentsAfterFailure == [m \in Standalone |-> NoFile]

Failed ==
  /\ outcome' = "failed"
  /\ stack' = <<>>
  /\ parent' = ParentsAfterFailure
  /\ UNCHANGED <<files, built>>

\* BuilderOptions.Build, with a resolver of its own.
Build(b) ==
  /\ outcome # "running"
  /\ outcome' = "running" /\ target' = b
  /\ stack' = <<Frame(b)>>
  /\ parent' = Adopted(b)
  /\ files' = {} /\ built' = [e \in {} |-> {}]
  /\ UNCHANGED <<refs, path>>

\* Fault: what is resolved already is not imported a second time.
FollowedToNew(r, deps) == Append(Below, [Top EXCEPT !.todo = @ \ {r}])

\* The top frame once it has followed r, with what r gave it.
FollowedTo(r, deps) ==
  Append(Below, [Top EXCEPT !.todo = @ \ {r}, !.deps = @ \cup deps])

\* resolveType and resolveElement, of a reference to a descriptor, to the frame's own
\* tree, to a root that is resolved, to one that is being resolved, or to a new one.
Follow(r) ==
  LET e == RootOf(r) IN
  /\ outcome = "running" /\ r \in Top.todo
  /\ CASE r \in Foreign \/ e = Top.root \/ e \in files ->
            /\ stack' = FollowedTo(r, IF e = Top.root THEN {} ELSE {e})
            /\ UNCHANGED <<parent, files, built, outcome>>
       [] r \in Builders /\ e # Top.root /\ e \notin files /\ Seen(e) -> Failed
       [] OTHER ->
            /\ stack' = Append(FollowedTo(r, {}), Frame(e))
            /\ parent' = Adopted(e)
            /\ UNCHANGED <<files, built, outcome>>
  /\ UNCHANGED <<refs, path, target>>

-----------------------------------------------------------------------------

\* A path that was made unique has a number behind it.
PathOf(f) == IF f \in Foreign THEN <<ForeignPath[f], 0>> ELSE built[f].path

\* addFileNames: with the imports of imports.
NamesOf(deps) == UNION {IF f \in Foreign THEN {PathOf(f)} ELSE built[f].names : f \in deps}

\* A generated path is like no other.
GivenPath(e) == IF e \in Files /\ path[e] # NoPath THEN path[e] ELSE e

\* Fault: the path of a file is never made unique.
UniquePathGiven(e, deps) == <<GivenPath(e), 0>>

\* makeUnique.
UniquePath(e, deps) ==
  LET Taken(k) == <<GivenPath(e), k>> \in NamesOf(deps)
  IN <<GivenPath(e), CHOOSE k \in 0..Cardinality(NamesOf(deps)) :
                       ~Taken(k) /\ \A j \in 0..k - 1 : Taken(j)>>

\* isDuplicateDependency, among the imports and then against the registry; what is in
\* the registry already is passed over.
Duplicate(deps) ==
  \E f \in deps, g \in deps \cup files : f # g /\ PathOf(f) = PathOf(g)

Conflict(f, g) == {Content(f), Content(g)} \in SameName

\* RegisterFile, of the imports that are new.
ImportsConflict(deps) == \E f \in deps, g \in deps \cup files : f # g /\ Conflict(f, g)

\* RegisterFileProto: no path and no element twice.
Registers(e, p, known) ==
  \A f \in known :
    /\ PathOf(f) # p /\ ~Conflict(f, e)
    /\ f \in Roots => Content(f) # Content(e)

\* What is wrong with a file whose imports are all there: two imports of one path, an
\* error of buildProto or of the validation, names.
Refused(e, deps) ==
  \/ Duplicate(deps) \/ Content(e) \in Invalid \/ ImportsConflict(deps)
  \/ ~Registers(e, UniquePath(e, deps), files \cup deps)

\* resolveFile once the references are resolved, and the return to the caller.
Finish ==
  LET e == Top.root
      p == UniquePath(e, Top.deps)
  IN
  /\ outcome = "running" /\ Top.todo = {}
  /\ IF Refused(e, Top.deps) THEN Failed
     ELSE
       /\ files' = files \cup Top.deps \cup {e}
       /\ built' = [f \in DOMAIN built \cup {e} |->
            IF f = e THEN [path |-> p, imports |-> Top.deps, names |-> NamesOf(Top.deps) \cup {p}]
            ELSE built[f]]
       /\ parent' = IF e \in Standalone THEN [parent EXCEPT ![e] = NoFile] ELSE parent
       /\ outcome' = IF Below = <<>> THEN "built" ELSE "running"
       /\ stack' = IF Below = <<>> THEN <<>>
                   ELSE [Below EXCEPT ![Len(Below)].deps = @ \cup {e}]
  /\ UNCHANGED <<refs, path, target>>

Next ==
  \/ \E b \in Builders : Build(b)
  \/ \E r \in Builders \cup Foreign : Follow(r)
  \/ Finish

Spec == Init /\ [][Next]_vars

-----------------------------------------------------------------------------

\* What can be reached from a set by references between different trees: the least set
\* that has it and what its members refer to.
ReachFrom(s) ==
  {x \in Builders \cup Foreign :
     \A C \in SUBSET (Builders \cup Foreign) :
       s \subseteq C /\ (\A b \in C \cap Builders : RefsOf(b) \ {b} \subseteq C) => x \in C}

NeededBy(b) == ReachFrom({b})
Cyclic(b) == b \in ReachFrom(RefsOf(b) \ {b})

\* A Build that succeeds has built every root its target needs, and each of them once:
\* every file imports exactly the files of what it refers to, they are in the registry,
\* and no two files of the registry have one path or declare one name (resolvedRoots;
\* makeUnique; RegisterFile).
BuiltIsComplete ==
  outcome = "built" =>
    /\ files = NeededBy(target)
    /\ \A b \in files \cap Builders :
         /\ built[b].imports = RefsOf(b) \ {b}
         /\ ~Cyclic(b)
    /\ \A f, g \in files : PathOf(f) = PathOf(g) \/ {f, g} \in SameName => f = g

GivenName(f) == IF f \in Foreign THEN ForeignPath[f] ELSE GivenPath(f)

Circular == \E b \in NeededBy(target) \cap Builders : Cyclic(b)
PathsClash ==
  \E f, g \in NeededBy(target) :
    /\ f # g /\ GivenName(f) = GivenName(g)
    /\ f \in Builders => g \notin NeededBy(f)
    /\ g \in Builders => f \notin NeededBy(g)

NamesClash == \E f, g \in NeededBy(target) : {f, g} \in SameName
InvalidNeeded == NeededBy(target) \cap Invalid # {}

\* A standalone builder that refers to itself is taken for another root, its own
\* temporary file (RootOf): no program that relies on Build has one.
NoSelfReference == \A m \in Standalone : <<m, m>> \notin MayRefer

\* A Build fails only for what is wrong with the builders: the target needs roots that
\* refer to each other in a circle, two files of one path neither of which is needed by
\* the other, two that declare one name, or one that is not valid.  In particular no
\* order in which references are followed, no file that is needed twice and no path
\* that can be made unique is a reason (resolver.go; doc.go on what Build validates).
FailuresHaveReason ==
  outcome = "failed" => Circular \/ PathsClash \/ NamesClash \/ InvalidNeeded

\* When Build returns, with an error or not, the builders it was given are as they
\* were: the temporary files are gone, and the next Build starts from the same trees.
BuildersRestored == outcome # "running" => \A m \in Standalone : parent[m] = NoFile
=============================================================================
