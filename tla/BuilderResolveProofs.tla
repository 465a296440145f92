------------------------ MODULE BuilderResolveProofs ------------------------
(***************************************************************************)
(* For any builders and any references between them: a Build leaves no     *)
(* builder below a temporary file, no two files of the resolver's registry *)
(* have one path, a Build that succeeds has built exactly what its target  *)
(* needs, and one that fails has a reason to (if none refers to itself).   *)
(***************************************************************************)
EXTENDS BuilderResolve, SequenceTheorems, FiniteSetTheorems, Induction, TLAPS

Elements == Builders \cup Foreign

Frames == [root : Roots, todo : SUBSET Elements, deps : SUBSET (Roots \cup Foreign)]

\* A builder with a temporary parent is being resolved; nothing is once Build returns.
StackInv ==
  /\ stack \in Seq(Frames)
  /\ parent \in [Standalone -> Temps \cup {NoFile}]
  /\ outcome = "running" <=> stack # <<>>
  /\ \A m \in Standalone : parent[m] # NoFile =>
       \E i \in 1..Len(stack) : stack[i].root = m

\* A sequence without its last element.
LEMMA FrontFacts ==
  ASSUME NEW F, NEW s \in Seq(F), s # <<>>
  PROVE  /\ Len(s) \in Nat \ {0} /\ s[Len(s)] \in F
         /\ SubSeq(s, 1, Len(s) - 1) \in Seq(F)
         /\ Len(SubSeq(s, 1, Len(s) - 1)) = Len(s) - 1
         /\ \A i \in 1..Len(s) - 1 : SubSeq(s, 1, Len(s) - 1)[i] = s[i]
<1>1. Len(s) \in Nat \ {0} /\ s[Len(s)] \in F
  OBVIOUS
<1> QED
  BY <1>1, SubSeqProperties

LEMMA SingletonFacts ==
  ASSUME NEW F, NEW x \in F
  PROVE  <<x>> \in Seq(F) /\ <<x>> # <<>> /\ Len(<<x>>) = 1 /\ <<x>>[1] = x
  OBVIOUS

LEMMA FrameFacts ==
  ASSUME NEW e \in Roots
  PROVE  Frame(e) \in Frames /\ Frame(e).root = e /\ Frame(e).deps = {}
  BY DEF Frame, Frames, RefsOf, Elements

LEMMA AppendFacts ==
  ASSUME NEW F, NEW s \in Seq(F), NEW x \in F
  PROVE  /\ Append(s, x) \in Seq(F) /\ Len(Append(s, x)) = Len(s) + 1 /\ Len(s) \in Nat
         /\ \A i \in 1..Len(s) : Append(s, x)[i] = s[i]
         /\ Append(s, x)[Len(s) + 1] = x /\ Append(s, x) # <<>>
  OBVIOUS

\* What is on the stack when it is not empty.
LEMMA TopFacts ==
  ASSUME stack \in Seq(Frames), stack # <<>>
  PROVE  /\ Len(stack) \in Nat \ {0} /\ Top \in Frames /\ Below \in Seq(Frames)
         /\ Len(Below) = Len(stack) - 1
         /\ \A i \in 1..Len(Below) : Below[i] = stack[i]
  BY FrontFacts DEF Top, Below

\* Hanging a standalone builder below its temporary file, if e is one.
LEMMA AdoptedFacts ==
  ASSUME parent \in [Standalone -> Temps \cup {NoFile}], NEW e \in Roots
  PROVE  /\ Adopted(e) \in [Standalone -> Temps \cup {NoFile}]
         /\ \A m \in Standalone : Adopted(e)[m] # NoFile => m = e \/ parent[m] # NoFile
  BY ResolveAssumption DEF Adopted

\* The frame that has followed a reference is the one before.
LEMMA FollowedFacts ==
  ASSUME stack \in Seq(Frames), stack # <<>>, NEW r, NEW d \in SUBSET (Roots \cup Foreign)
  PROVE  /\ FollowedTo(r, d) \in Seq(Frames)
         /\ Len(FollowedTo(r, d)) = Len(stack)
         /\ \A i \in 1..Len(stack) : FollowedTo(r, d)[i].root = stack[i].root
         /\ \A i \in 1..Len(stack) : FollowedTo(r, d)[i].deps \subseteq stack[i].deps \cup d
<1> DEFINE t == [Top EXCEPT !.todo = @ \ {r}, !.deps = @ \cup d]
<1>1. t \in Frames /\ t.root = Top.root /\ t.deps = Top.deps \cup d
  BY TopFacts DEF Frames
<1>2. FollowedTo(r, d) = Append(Below, t)
  BY DEF FollowedTo
<1>3. /\ Append(Below, t) \in Seq(Frames) /\ Len(Append(Below, t)) = Len(stack)
      /\ \A i \in 1..Len(stack) - 1 : Append(Below, t)[i] = stack[i]
      /\ Append(Below, t)[Len(stack)] = t
  BY <1>1, TopFacts
<1> HIDE DEF t
<1>4. ASSUME NEW i \in 1..Len(stack)
      PROVE  /\ FollowedTo(r, d)[i].root = stack[i].root
             /\ FollowedTo(r, d)[i].deps \subseteq stack[i].deps \cup d
  <2>1. CASE i = Len(stack)
    BY <1>1, <1>2, <1>3, <2>1 DEF Top
  <2>2. CASE i # Len(stack)
    <3>1. i \in 1..Len(stack) - 1
      BY <2>2, TopFacts
    <3> QED
      BY <1>2, <1>3, <3>1
  <2> QED
    BY <2>1, <2>2
<1> QED
  BY <1>2, <1>3, <1>4

\* The root of a reference that is not a descriptor.
LEMMA RootFacts ==
  ASSUME parent \in [Standalone -> Temps \cup {NoFile}], NEW r \in Builders
  PROVE  RootOf(r) \in Roots
  BY DEF RootOf, Roots, Builders

LEMMA FailedStep == ASSUME Failed PROVE StackInv'
<1>1. stack' = <<>> /\ outcome' = "failed" /\ parent' = [m \in Standalone |-> NoFile]
  BY DEF Failed, ParentsAfterFailure
<1>2. <<>> \in Seq(Frames)
  OBVIOUS
<1> QED
  BY <1>1, <1>2 DEF StackInv

LEMMA BuildStep == ASSUME StackInv, NEW b \in Builders, Build(b) PROVE StackInv'
<1>1. b \in Roots /\ outcome # "running" /\ stack = <<>>
  BY DEF StackInv, Build, Roots
<1>2. stack' = <<Frame(b)>> /\ parent' = Adopted(b) /\ outcome' = "running"
  BY DEF Build
<1>3. \A m \in Standalone : parent[m] = NoFile
  BY <1>1 DEF StackInv
<1>4. stack' \in Seq(Frames) /\ stack' # <<>> /\ Len(stack') = 1 /\ stack'[1].root = b
  <2>1. \E x \in Frames : stack' = <<x>> /\ x.root = b
    BY <1>1, <1>2, FrameFacts
  <2> QED
    BY <2>1, SingletonFacts
<1>5. ASSUME NEW m \in Standalone, parent'[m] # NoFile
      PROVE  \E i \in 1..Len(stack') : stack'[i].root = m
  BY <1>1, <1>2, <1>3, <1>4, <1>5, AdoptedFacts DEF StackInv
<1> QED
  BY <1>1, <1>2, <1>4, <1>5, AdoptedFacts DEF StackInv

LEMMA FollowStep == ASSUME StackInv, NEW r \in Elements, Follow(r) PROVE StackInv'
<1> DEFINE e == RootOf(r)
           d == IF e = Top.root THEN {} ELSE {e}
           known == r \in Foreign \/ e = Top.root \/ e \in files
           met == r \in Builders /\ e # Top.root /\ e \notin files /\ Seen(e)
<1>1. stack \in Seq(Frames) /\ stack # <<>> /\ outcome = "running"
      /\ parent \in [Standalone -> Temps \cup {NoFile}]
  BY DEF StackInv, Follow
<1>2. e \in Roots \cup Foreign
  BY <1>1, RootFacts, ResolveAssumption DEF Elements, RootOf, Roots, Builders
<1>3. CASE known
  <2>1. stack' = FollowedTo(r, d) /\ parent' = parent /\ outcome' = "running"
    BY <1>1, <1>3, ResolveAssumption DEF Follow, Roots
  <2>2. d \in SUBSET (Roots \cup Foreign)
    BY <1>2
  <2> HIDE DEF d
  <2>3. /\ stack' \in Seq(Frames) /\ Len(stack') = Len(stack)
        /\ \A i \in 1..Len(stack) : stack'[i].root = stack[i].root
    BY <1>1, <2>1, <2>2, FollowedFacts
  <2>4. stack' # <<>>
    BY <1>1, <2>3
  <2> QED
    BY <1>1, <2>1, <2>3, <2>4 DEF StackInv
<1>4. CASE ~known /\ met
  BY <1>4, FailedStep DEF Follow
<1>5. CASE ~known /\ ~met
  <2>1. stack' = Append(FollowedTo(r, {}), Frame(e)) /\ parent' = Adopted(e) /\ outcome' = "running"
    BY <1>1, <1>5 DEF Follow
  <2>2. e \in Roots
    BY <1>1, <1>5, RootFacts DEF Elements
  <2> HIDE DEF e
  <2>3. /\ FollowedTo(r, {}) \in Seq(Frames) /\ Len(FollowedTo(r, {})) = Len(stack)
        /\ \A i \in 1..Len(stack) : FollowedTo(r, {})[i].root = stack[i].root
    BY <1>1, FollowedFacts
  <2>4. /\ stack' \in Seq(Frames) /\ Len(stack') = Len(stack) + 1
        /\ \A i \in 1..Len(stack) : stack'[i].root = stack[i].root
        /\ stack'[Len(stack) + 1].root = e
    BY <2>1, <2>2, <2>3, FrameFacts, AppendFacts
  <2>5. stack' # <<>> /\ Len(stack) \in Nat
    BY <1>1, <2>4
  <2>6. ASSUME NEW m \in Standalone, parent'[m] # NoFile
        PROVE  \E i \in 1..Len(stack') : stack'[i].root = m
    <3>1. m = e \/ \E i \in 1..Len(stack) : stack[i].root = m
      BY <1>1, <2>1, <2>2, <2>6, AdoptedFacts DEF StackInv
    <3> QED
      BY <2>4, <2>5, <3>1
  <2> QED
    BY <1>1, <2>1, <2>2, <2>4, <2>5, <2>6, AdoptedFacts DEF StackInv
<1> QED
  BY <1>3, <1>4, <1>5

LEMMA LastFacts ==
  ASSUME NEW F, NEW s \in Seq(F), s # <<>>, NEW x \in F
  PROVE  /\ [s EXCEPT ![Len(s)] = x] \in Seq(F) /\ [s EXCEPT ![Len(s)] = x] # <<>>
         /\ Len([s EXCEPT ![Len(s)] = x]) = Len(s)
         /\ \A i \in 1..Len(s) : [s EXCEPT ![Len(s)] = x][i] = IF i = Len(s) THEN x ELSE s[i]
  OBVIOUS

\* The frames below the top once the top is done.
Returned(S, e) == [S EXCEPT ![Len(S)].deps = @ \cup {e}]

LEMMA ReturnFacts ==
  ASSUME NEW S \in Seq(Frames), S # <<>>, NEW e \in Roots \cup Foreign
  PROVE  /\ Returned(S, e) \in Seq(Frames) /\ Returned(S, e) # <<>>
         /\ Len(Returned(S, e)) = Len(S)
         /\ \A i \in 1..Len(S) : Returned(S, e)[i].root = S[i].root
         /\ \A i \in 1..Len(S) : Returned(S, e)[i].deps \subseteq S[i].deps \cup {e}
<1> DEFINE x == [S[Len(S)] EXCEPT !.deps = @ \cup {e}]
<1>1. Len(S) \in Nat \ {0} /\ S[Len(S)] \in Frames
  BY FrontFacts
<1>2. x \in Frames /\ x.root = S[Len(S)].root /\ x.deps = S[Len(S)].deps \cup {e}
  BY <1>1 DEF Frames
<1>3. Returned(S, e) = [S EXCEPT ![Len(S)] = x]
  BY DEF Returned
<1> HIDE DEF x
<1>4. /\ Returned(S, e) \in Seq(Frames) /\ Returned(S, e) # <<>> /\ Len(Returned(S, e)) = Len(S)
      /\ \A i \in 1..Len(S) : Returned(S, e)[i] = IF i = Len(S) THEN x ELSE S[i]
  BY <1>2, <1>3, LastFacts
<1> QED
  BY <1>1, <1>2, <1>4

\* The files of the registry differ in their paths; an import is in it or a descriptor.
PathInv ==
  /\ files \subseteq Roots \cup Foreign
  /\ files \subseteq Foreign \cup DOMAIN built
  /\ \A i \in 1..Len(stack) : stack[i].deps \subseteq Foreign \cup files
  /\ \A f, g \in files : PathOf(f) = PathOf(g) => f = g

Inv == StackInv /\ PathInv

LEMMA FinishStack == ASSUME StackInv, Finish PROVE StackInv'
<1> DEFINE e == Top.root
           ok == ~Refused(e, Top.deps)
<1>1. stack \in Seq(Frames) /\ stack # <<>> /\ outcome = "running"
      /\ parent \in [Standalone -> Temps \cup {NoFile}]
  BY DEF StackInv, Finish
<1>2. e \in Roots
  BY <1>1, TopFacts DEF Frames
<1>3. CASE ~ok
  BY <1>3, FailedStep DEF Finish
<1>4. CASE ok
  <2>1. /\ parent' = IF e \in Standalone THEN [parent EXCEPT ![e] = NoFile] ELSE parent
        /\ outcome' = IF Below = <<>> THEN "built" ELSE "running"
        /\ stack' = IF Below = <<>> THEN <<>>
                    ELSE Returned(Below, e)
    BY <1>4 DEF Finish, Returned
  <2> HIDE DEF ok
  <2>2. parent' \in [Standalone -> Temps \cup {NoFile}]
    BY <1>1, <2>1
  <2>3. /\ stack' \in Seq(Frames) /\ Len(stack') = Len(Below)
        /\ \A i \in 1..Len(Below) : stack'[i].root = stack[i].root
        /\ stack' # <<>> <=> Below # <<>>
    <3>1. CASE Below = <<>>
      BY <2>1, <3>1
    <3>2. CASE Below # <<>>
      <4>1. Below \in Seq(Frames) /\ \A i \in 1..Len(Below) : Below[i] = stack[i]
        BY <1>1, TopFacts
      <4>2. stack' = Returned(Below, e) /\ e \in Roots \cup Foreign
        BY <1>2, <2>1, <3>2
      <4> HIDE DEF e
      <4>3. /\ stack' \in Seq(Frames) /\ stack' # <<>> /\ Len(stack') = Len(Below)
            /\ \A i \in 1..Len(Below) : stack'[i].root = Below[i].root
        BY <3>2, <4>1, <4>2, ReturnFacts
      <4> QED
        BY <3>2, <4>1, <4>3
    <3> QED
      BY <3>1, <3>2
  <2>4. ASSUME NEW m \in Standalone, parent'[m] # NoFile
        PROVE  \E i \in 1..Len(stack') : stack'[i].root = m
    <3>1. m # e /\ parent[m] # NoFile
      BY <1>1, <2>1, <2>4
    <3>2. PICK i \in 1..Len(stack) : stack[i].root = m
      BY <3>1 DEF StackInv
    <3>3. i # Len(stack)
      BY <3>1, <3>2 DEF Top
    <3> QED
      BY <1>1, <2>3, <3>2, <3>3, TopFacts
  <2> QED
    BY <2>1, <2>2, <2>3, <2>4 DEF StackInv
<1> QED
  BY <1>3, <1>4

LEMMA StackStep == StackInv /\ [Next]_vars => StackInv'
<1> SUFFICES ASSUME StackInv, [Next]_vars PROVE StackInv'
  OBVIOUS
<1>1. ASSUME NEW b \in Builders, Build(b) PROVE StackInv'
  BY <1>1, BuildStep
<1>2. ASSUME NEW r \in Elements, Follow(r) PROVE StackInv'
  BY <1>2, FollowStep
<1>3. CASE Finish
  BY <1>3, FinishStack
<1>4. CASE UNCHANGED vars
  BY <1>4 DEF vars, StackInv
<1> QED
  BY <1>1, <1>2, <1>3, <1>4 DEF Next, Elements

LEMMA StackInit == Init => StackInv
  BY DEF Init, StackInv

\* Whatever roots a Build meets and however it ends, no builder is left below a
\* temporary file.
THEOREM ParentsAreReset == Spec => []BuildersRestored
<1>1. StackInv => BuildersRestored
  BY DEF StackInv, BuildersRestored
<1> QED
  BY <1>1, StackInit, StackStep, PTL DEF Spec

-----------------------------------------------------------------------------

LEMMA FinishPaths == ASSUME StackInv, PathInv, Finish PROVE PathInv'
<1> DEFINE e == Top.root
           D == Top.deps
           p == UniquePath(e, D)
           ok == ~Refused(e, D)
<1>1. stack \in Seq(Frames) /\ stack # <<>>
  BY DEF StackInv, Finish
<1>2. e \in Roots /\ D \subseteq Foreign \cup files
  BY <1>1, TopFacts DEF Frames, PathInv, Top
<1>3. CASE ~ok
  <2>1. stack' = <<>> /\ files' = files /\ built' = built
    BY <1>3 DEF Finish, Failed
  <2> QED
    BY <2>1 DEF PathInv, PathOf
<1>4. CASE ok
  <2>1. /\ files' = files \cup D \cup {e}
        /\ DOMAIN built' = DOMAIN built \cup {e}
        /\ built'[e].path = p
        /\ \A f \in DOMAIN built : f # e => built'[f] = built[f]
        /\ stack' = IF Below = <<>> THEN <<>>
                    ELSE Returned(Below, e)
    BY <1>4 DEF Finish, Returned
  <2>2. /\ \A f \in D, g \in D \cup files : f # g => PathOf(f) # PathOf(g)
        /\ \A f \in files \cup D : PathOf(f) # p /\ f # e
    <3>1. \A f \in files \cup D : f \in Roots \/ f \in Foreign
      BY <1>2 DEF PathInv
    <3> QED
      BY <1>2, <1>4, <3>1, ResolveAssumption DEF Refused, Duplicate, Registers
  <2> HIDE DEF p, ok
  <2>3. \A f \in files \cup D : PathOf(f)' = PathOf(f)
    BY <1>2, <2>1, <2>2 DEF PathInv, PathOf
  <2>4. \A x \in {e} : PathOf(x)' = p
    BY <1>2, <2>1, ResolveAssumption DEF PathOf
  <2>5. \A f, g \in files \cup D : PathOf(f) = PathOf(g) => f = g
    BY <2>2 DEF PathInv
  <2>6. \A f, g \in files' : PathOf(f)' = PathOf(g)' => f = g
    <3> SUFFICES ASSUME NEW f \in files \cup D \cup {e}, NEW g \in files \cup D \cup {e},
                        PathOf(f)' = PathOf(g)'
                 PROVE  f = g
      BY <2>1
    <3> HIDE DEF e, D
    <3>1. CASE f \in files \cup D /\ g \in files \cup D
      BY <2>3, <2>5, <3>1
    <3>2. CASE f \in files \cup D /\ g = e
      BY <2>2, <2>3, <2>4, <3>2
    <3>3. CASE f = e /\ g \in files \cup D
      BY <2>2, <2>3, <2>4, <3>3
    <3> QED
      BY <3>1, <3>2, <3>3
  <2>7. \A i \in 1..Len(stack') : stack'[i].deps \subseteq Foreign \cup files'
    <3>1. CASE Below = <<>>
      BY <2>1, <3>1
    <3>2. CASE Below # <<>>
      <4>1. /\ Len(stack') = Len(Below)
            /\ \A i \in 1..Len(Below) : stack'[i].deps \subseteq stack[i].deps \cup {e}
        BY <1>1, <1>2, <2>1, <3>2, TopFacts, ReturnFacts
      <4>2. 1..Len(Below) \subseteq 1..Len(stack)
        BY <1>1, TopFacts
      <4> QED
        BY <2>1, <4>1, <4>2 DEF PathInv
    <3> QED
      BY <3>1, <3>2
  <2> QED
    BY <1>2, <2>1, <2>6, <2>7 DEF PathInv
<1> QED
  BY <1>3, <1>4

LEMMA FollowPaths ==
  ASSUME StackInv, PathInv, NEW r \in Elements, Follow(r) PROVE PathInv'
<1> DEFINE e == RootOf(r)
           d == IF e = Top.root THEN {} ELSE {e}
           known == r \in Foreign \/ e = Top.root \/ e \in files
           met == r \in Builders /\ e # Top.root /\ e \notin files /\ Seen(e)
<1>1. stack \in Seq(Frames) /\ stack # <<>>
      /\ parent \in [Standalone -> Temps \cup {NoFile}]
  BY DEF StackInv, Follow
<1>2. e \in Roots \cup Foreign
  BY <1>1, RootFacts, ResolveAssumption DEF Elements, RootOf, Roots, Builders
<1>3. files' = files /\ built' = built
  BY ResolveAssumption DEF Follow, Failed, Roots
<1>4. SUFFICES \A i \in 1..Len(stack') : stack'[i].deps \subseteq Foreign \cup files
  BY <1>3 DEF PathInv, PathOf
<1>5. CASE known
  <2>1. stack' = FollowedTo(r, d)
    BY <1>5, ResolveAssumption DEF Follow, Roots
  <2>2. d \in SUBSET (Roots \cup Foreign) /\ d \subseteq Foreign \cup files
    BY <1>2, <1>5, ResolveAssumption DEF RootOf, Roots, Builders
  <2> HIDE DEF d
  <2> QED
    BY <1>1, <2>1, <2>2, FollowedFacts DEF PathInv
<1>6. CASE ~known /\ met
  <2>1. stack' = <<>>
    BY <1>6 DEF Follow, Failed
  <2> QED
    BY <2>1
<1>7. CASE ~known /\ ~met
  <2>1. stack' = Append(FollowedTo(r, {}), Frame(e))
    BY <1>7 DEF Follow
  <2>2. e \in Roots
    BY <1>1, <1>7, RootFacts DEF Elements
  <2> HIDE DEF e
  <2>3. /\ FollowedTo(r, {}) \in Seq(Frames) /\ Len(FollowedTo(r, {})) = Len(stack)
        /\ \A i \in 1..Len(stack) : FollowedTo(r, {})[i].deps \subseteq stack[i].deps
    BY <1>1, FollowedFacts
  <2>4. /\ Len(stack') = Len(stack) + 1
        /\ \A i \in 1..Len(stack) : stack'[i].deps \subseteq stack[i].deps
        /\ stack'[Len(stack) + 1].deps = {}
    BY <2>1, <2>2, <2>3, FrameFacts, AppendFacts
  <2>5. Len(stack) \in Nat
    BY <1>1
  <2> QED
    BY <2>4, <2>5 DEF PathInv
<1> QED
  BY <1>5, <1>6, <1>7

LEMMA PathStep == Inv /\ [Next]_vars => Inv'
<1> SUFFICES ASSUME StackInv, PathInv, [Next]_vars PROVE PathInv'
  BY StackStep DEF Inv
<1>1. ASSUME NEW b \in Builders, Build(b) PROVE PathInv'
  <2>1. files' = {} /\ stack' = <<Frame(b)>> /\ b \in Roots
    BY <1>1 DEF Build, Roots
  <2>2. Frame(b) \in Frames /\ Frame(b).deps = {}
    BY <2>1, FrameFacts
  <2>3. \A i \in 1..Len(stack') : stack'[i].deps = {}
    <3>1. \E x \in Frames : stack' = <<x>> /\ x.deps = {}
      BY <2>1, <2>2
    <3> QED
      BY <3>1, SingletonFacts
  <2> QED
    BY <2>1, <2>3 DEF PathInv
<1>2. ASSUME NEW r \in Elements, Follow(r) PROVE PathInv'
  BY <1>2, FollowPaths
<1>3. CASE Finish
  BY <1>3, FinishPaths
<1>4. CASE UNCHANGED vars
  BY <1>4 DEF vars, PathInv, PathOf
<1> QED
  BY <1>1, <1>2, <1>3, <1>4 DEF Next, Elements

\* No two files that a resolver has registered have one path, whatever paths were given
\* to the builders and to the descriptors they refer to.
THEOREM PathsDiffer == Spec => [](\A f, g \in files : PathOf(f) = PathOf(g) => f = g)
<1>1. Init => Inv
  BY StackInit DEF Init, Inv, PathInv
<1>2. Inv => \A f, g \in files : PathOf(f) = PathOf(g) => f = g
  BY DEF Inv, PathInv
<1> QED
  BY <1>1, <1>2, PathStep, PTL DEF Spec

-----------------------------------------------------------------------------
(* The graph of references. *)

LEMMA RefsIn == \A b : RefsOf(b) \subseteq Elements
  BY DEF RefsOf, Elements

LEMMA ReachLeast ==
  ASSUME NEW s, NEW C \in SUBSET Elements, s \subseteq C,
         \A b \in C \cap Builders : RefsOf(b) \ {b} \subseteq C
  PROVE  ReachFrom(s) \subseteq C
  BY DEF ReachFrom, Elements

LEMMA ReachFacts ==
  ASSUME NEW s \in SUBSET Elements
  PROVE  /\ ReachFrom(s) \subseteq Elements /\ s \subseteq ReachFrom(s)
         /\ \A b \in ReachFrom(s) \cap Builders : RefsOf(b) \ {b} \subseteq ReachFrom(s)
<1>1. ReachFrom(s) \subseteq Elements /\ s \subseteq ReachFrom(s)
  BY DEF ReachFrom, Elements
<1>2. ASSUME NEW b \in ReachFrom(s) \cap Builders, NEW r \in RefsOf(b) \ {b}
      PROVE  r \in ReachFrom(s)
  <2>1. r \in Elements
    BY RefsIn
  <2>2. ASSUME NEW C \in SUBSET Elements, s \subseteq C,
               \A x \in C \cap Builders : RefsOf(x) \ {x} \subseteq C
        PROVE  r \in C
    BY <1>2, <2>2, ReachLeast
  <2> QED
    BY <2>1, <2>2 DEF ReachFrom, Elements
<1> QED
  BY <1>1, <1>2

\* What is reached is there at the start, or reached from there by one reference or more.
LEMMA ReachSplit ==
  ASSUME NEW s \in SUBSET Elements, NEW x \in ReachFrom(s)
  PROVE  x \in s \/ \E y \in s \cap Builders : x \in ReachFrom(RefsOf(y) \ {y})
<1> DEFINE C == s \cup UNION {ReachFrom(RefsOf(y) \ {y}) : y \in s \cap Builders}
<1>1. \A y \in Builders :
        /\ ReachFrom(RefsOf(y) \ {y}) \subseteq Elements /\ RefsOf(y) \ {y} \subseteq ReachFrom(RefsOf(y) \ {y})
        /\ \A b \in ReachFrom(RefsOf(y) \ {y}) \cap Builders : RefsOf(b) \ {b} \subseteq ReachFrom(RefsOf(y) \ {y})
  <2> SUFFICES ASSUME NEW y \in Builders
               PROVE  /\ ReachFrom(RefsOf(y) \ {y}) \subseteq Elements /\ RefsOf(y) \ {y} \subseteq ReachFrom(RefsOf(y) \ {y})
                      /\ \A b \in ReachFrom(RefsOf(y) \ {y}) \cap Builders : RefsOf(b) \ {b} \subseteq ReachFrom(RefsOf(y) \ {y})
    OBVIOUS
  <2>1. RefsOf(y) \ {y} \in SUBSET Elements
    BY RefsIn
  <2> QED
    BY <2>1, ReachFacts
<1>2. C \in SUBSET Elements /\ s \subseteq C
  <2>1. \A y \in s \cap Builders : ReachFrom(RefsOf(y) \ {y}) \subseteq Elements
    BY <1>1
  <2> QED
    BY <2>1
<1>3. ASSUME NEW b \in C \cap Builders
      PROVE  RefsOf(b) \ {b} \subseteq C
  <2>1. CASE b \in s
    BY <1>1, <1>3, <2>1
  <2>2. CASE b \notin s
    <3>1. PICK y \in s \cap Builders : b \in ReachFrom(RefsOf(y) \ {y})
      BY <1>3, <2>2
    <3>2. RefsOf(b) \ {b} \subseteq ReachFrom(RefsOf(y) \ {y})
      BY <1>1, <1>3, <3>1
    <3> QED
      BY <3>2
  <2> QED
    BY <2>1, <2>2
<1>4. ReachFrom(s) \subseteq C
  <2> HIDE DEF C
  <2> QED
    BY <1>2, <1>3, ReachLeast
<1>5. x \in C
  BY <1>4
<1> QED
  BY <1>5

LEMMA NeededFacts ==
  ASSUME NEW b \in Elements
  PROVE  /\ NeededBy(b) \subseteq Elements /\ b \in NeededBy(b)
         /\ \A x \in NeededBy(b) \cap Builders : RefsOf(x) \subseteq NeededBy(b)
  BY ReachFacts DEF NeededBy

\* What a root needs is itself and what its references need.
LEMMA NeededSplit ==
  ASSUME NEW b \in Elements, NEW z \in NeededBy(b)
  PROVE  z = b \/ (b \in Builders /\ \E r \in RefsOf(b) \ {b} : z \in NeededBy(r))
<1> DEFINE R == IF b \in Builders THEN RefsOf(b) \ {b} ELSE {}
           C == {b} \cup UNION {NeededBy(r) : r \in R}
<1>1. R \subseteq Elements
  BY RefsIn
<1>2. \A r \in R : NeededBy(r) \subseteq Elements /\ r \in NeededBy(r)
                   /\ \A x \in NeededBy(r) \cap Builders : RefsOf(x) \subseteq NeededBy(r)
  BY <1>1, NeededFacts
<1>3. C \in SUBSET Elements /\ {b} \subseteq C
  BY <1>2
<1>4. ASSUME NEW x \in C \cap Builders
      PROVE  RefsOf(x) \ {x} \subseteq C
  <2>1. CASE x = b
    BY <1>2, <2>1
  <2>2. CASE x # b
    <3>1. PICK r \in R : x \in NeededBy(r)
      BY <1>4, <2>2
    <3>2. RefsOf(x) \subseteq NeededBy(r)
      BY <1>2, <1>4, <3>1
    <3> QED
      BY <3>2
  <2> QED
    BY <2>1, <2>2
<1>5. ReachFrom({b}) \subseteq C
  <2> HIDE DEF C
  <2> QED
    BY <1>3, <1>4, ReachLeast
<1>6. z \in C
  BY <1>5 DEF NeededBy
<1>7. z = b \/ \E r \in R : z \in NeededBy(r)
  BY <1>6
<1>8. CASE b \in Builders
  BY <1>7, <1>8
<1>9. CASE b \notin Builders
  BY <1>7, <1>9
<1> QED
  BY <1>8, <1>9

\* The builder of a root: one root has it for each builder, but for the temporary files.
LEMMA ContentFacts ==
  /\ \A b \in Builders \cup Foreign : Content(b) = b
  /\ \A m \in Standalone : Temp[m] \in Temps /\ Content(Temp[m]) = m
  /\ \A e \in Temps : Content(e) \in Standalone /\ e = Temp[Content(e)]
  /\ \A e \in Roots : Content(e) \in Builders
  /\ \A e \in Roots \cup Foreign : Content(e) \in Elements
<1>1. \A b \in Builders \cup Foreign : Content(b) = b
  BY ResolveAssumption DEF Content, Roots
<1>2. \A e \in Temps : Content(e) \in Standalone /\ Temp[Content(e)] = e
  BY ResolveAssumption DEF Content
<1>3. \A m \in Standalone : Temp[m] \in Temps /\ Content(Temp[m]) = m
  BY <1>2, ResolveAssumption
<1> QED
  BY <1>1, <1>2, <1>3 DEF Roots, Builders, Elements

LEMMA SameContent ==
  ASSUME NEW e \in Roots \cup Foreign, NEW f \in Roots \cup Foreign, Content(e) = Content(f), e # f
  PROVE  \E m \in Standalone : (e = m /\ f = Temp[m]) \/ (f = m /\ e = Temp[m])
  BY ContentFacts, ResolveAssumption DEF Roots, Builders

\* The graph does not change.
LEMMA SameGraph ==
  ASSUME refs' = refs
  PROVE  /\ \A b : RefsOf(b)' = RefsOf(b)
         /\ \A s : ReachFrom(s)' = ReachFrom(s)
         /\ \A b : NeededBy(b)' = NeededBy(b)
         /\ \A b : Cyclic(b)' = Cyclic(b)
<1>1. \A b : RefsOf(b)' = RefsOf(b)
  BY DEF RefsOf
<1>2. \A s : ReachFrom(s)' = ReachFrom(s)
  BY <1>1 DEF ReachFrom
<1>3. \A b : NeededBy(b)' = NeededBy(b)
  BY <1>2 DEF NeededBy
<1>4. \A b : Cyclic(b)' = Cyclic(b)
  BY <1>1, <1>2 DEF Cyclic
<1> QED
  BY <1>1, <1>2, <1>3, <1>4

-----------------------------------------------------------------------------

(* What each step does. *)

LEMMA FollowedExactly ==
  ASSUME stack \in Seq(Frames), stack # <<>>, NEW r, NEW d \in SUBSET (Roots \cup Foreign)
  PROVE  LET n == Len(stack)
             s == FollowedTo(r, d)
         IN /\ s \in Seq(Frames) /\ n \in Nat \ {0} /\ Len(s) = n
            /\ \A i \in 1..n - 1 : s[i] = stack[i]
            /\ s[n].root = stack[n].root
            /\ s[n].todo = stack[n].todo \ {r}
            /\ s[n].deps = stack[n].deps \cup d
<1> DEFINE t == [Top EXCEPT !.todo = @ \ {r}, !.deps = @ \cup d]
<1>1. t \in Frames /\ t.root = Top.root /\ t.deps = Top.deps \cup d /\ t.todo = Top.todo \ {r}
  BY TopFacts DEF Frames
<1>2. FollowedTo(r, d) = Append(Below, t)
  BY DEF FollowedTo
<1>3. /\ Append(Below, t) \in Seq(Frames) /\ Len(Append(Below, t)) = Len(stack)
      /\ \A i \in 1..Len(stack) - 1 : Append(Below, t)[i] = stack[i]
      /\ Append(Below, t)[Len(stack)] = t
      /\ Len(stack) \in Nat \ {0}
  BY <1>1, TopFacts
<1> HIDE DEF t
<1> QED
  BY <1>1, <1>2, <1>3 DEF Top

\* A reference to a root that needs no resolving.
Known(r) == r \in Foreign \/ RootOf(r) = Top.root \/ RootOf(r) \in files

LEMMA Followed ==
  ASSUME StackInv, NEW r \in Elements, Follow(r)
  PROVE  /\ stack \in Seq(Frames) /\ Len(stack) \in Nat \ {0} /\ outcome = "running"
         /\ parent \in [Standalone -> Temps \cup {NoFile}]
         /\ Top = stack[Len(stack)] /\ r \in stack[Len(stack)].todo
         /\ RootOf(r) \in Roots \cup Foreign /\ (r \in Builders => RootOf(r) \in Roots)
         /\ (r \in Foreign => RootOf(r) = r)
         /\ refs' = refs /\ path' = path /\ target' = target
<1>1. stack \in Seq(Frames) /\ stack # <<>> /\ outcome = "running"
      /\ parent \in [Standalone -> Temps \cup {NoFile}] /\ r \in Top.todo
  BY DEF StackInv, Follow
<1>2. (r \in Builders => RootOf(r) \in Roots) /\ (r \in Foreign => RootOf(r) = r)
  BY <1>1, RootFacts, ResolveAssumption DEF RootOf, Roots, Builders
<1>3. Len(stack) \in Nat \ {0}
  BY <1>1
<1> QED
  BY <1>1, <1>2, <1>3 DEF Follow, Top, Elements

LEMMA KnownStep ==
  ASSUME StackInv, NEW r \in Elements, Follow(r), Known(r)
  PROVE  LET n == Len(stack)
             d == IF RootOf(r) = stack[n].root THEN {} ELSE {RootOf(r)}
         IN /\ parent' = parent /\ files' = files /\ built' = built /\ outcome' = outcome
            /\ Len(stack') = n
            /\ \A i \in 1..n - 1 : stack'[i] = stack[i]
            /\ stack'[n].root = stack[n].root
            /\ stack'[n].todo = stack[n].todo \ {r}
            /\ stack'[n].deps = stack[n].deps \cup d
<1> DEFINE d == IF RootOf(r) = Top.root THEN {} ELSE {RootOf(r)}
<1>1. /\ stack' = FollowedTo(r, d)
      /\ parent' = parent /\ files' = files /\ built' = built /\ outcome' = outcome
  BY ResolveAssumption DEF Follow, Roots, Known
<1>2. d \in SUBSET (Roots \cup Foreign) /\ stack \in Seq(Frames) /\ stack # <<>>
  BY Followed
<1>3. d = IF RootOf(r) = stack[Len(stack)].root THEN {} ELSE {RootOf(r)}
  BY DEF Top
<1> HIDE DEF d
<1> QED
  BY <1>1, <1>2, <1>3, FollowedExactly

LEMMA CircleStep ==
  ASSUME StackInv, NEW r \in Elements, Follow(r), ~Known(r), Seen(RootOf(r))
  PROVE  Failed /\ r \in Builders
  BY DEF Follow, Known, Elements

LEMMA PushStep ==
  ASSUME StackInv, NEW r \in Elements, Follow(r), ~Known(r), ~Seen(RootOf(r))
  PROVE  LET n == Len(stack) IN
         /\ r \in Builders
         /\ parent' = Adopted(RootOf(r)) /\ files' = files /\ built' = built /\ outcome' = outcome
         /\ Len(stack') = n + 1
         /\ \A i \in 1..n - 1 : stack'[i] = stack[i]
         /\ stack'[n].root = stack[n].root
         /\ stack'[n].todo = stack[n].todo \ {r}
         /\ stack'[n].deps = stack[n].deps
         /\ stack'[n + 1].root = RootOf(r)
         /\ stack'[n + 1].todo = RefsOf(Content(RootOf(r)))
         /\ stack'[n + 1].deps = {}
<1> DEFINE e == RootOf(r)
           s == FollowedTo(r, {})
           n == Len(stack)
<1>1. /\ stack' = Append(s, Frame(e)) /\ parent' = Adopted(e)
      /\ files' = files /\ built' = built /\ outcome' = outcome
  BY DEF Follow, Known
<1>2. r \in Builders /\ e \in Roots /\ stack \in Seq(Frames) /\ stack # <<>>
  BY Followed DEF Known, Elements
<1>3. Frame(e) \in Frames /\ Frame(e).root = e /\ Frame(e).deps = {} /\ Frame(e).todo = RefsOf(Content(e))
  BY <1>2, FrameFacts DEF Frame
<1>4. /\ s \in Seq(Frames) /\ n \in Nat \ {0} /\ Len(s) = n
      /\ \A i \in 1..n - 1 : s[i] = stack[i]
      /\ s[n].root = stack[n].root /\ s[n].todo = stack[n].todo \ {r}
      /\ s[n].deps = stack[n].deps
  <2>1. PICK d \in SUBSET (Roots \cup Foreign) : d = {}
    OBVIOUS
  <2>2. s = FollowedTo(r, d)
    BY <2>1
  <2>3. stack[n].deps \cup d = stack[n].deps
    BY <2>1
  <2> HIDE DEF s, n, e
  <2>4. LET N == Len(stack)
            S == FollowedTo(r, d)
        IN /\ S \in Seq(Frames) /\ N \in Nat \ {0} /\ Len(S) = N
           /\ \A i \in 1..N - 1 : S[i] = stack[i]
           /\ S[N].root = stack[N].root
           /\ S[N].todo = stack[N].todo \ {r}
           /\ S[N].deps = stack[N].deps \cup d
    BY <1>2, FollowedExactly
  <2> QED
    BY <2>2, <2>3, <2>4 DEF n
<1> HIDE DEF e, s
<1>5. /\ Len(stack') = n + 1 /\ \A i \in 1..n : stack'[i] = s[i]
      /\ stack'[n + 1] = Frame(e)
  BY <1>1, <1>3, <1>4, AppendFacts
<1>6. n \in 1..n /\ 1..n - 1 \subseteq 1..n
  BY <1>4
<1> QED
  BY <1>1, <1>2, <1>3, <1>4, <1>5, <1>6 DEF e

LEMMA ReturnExactly ==
  ASSUME NEW S \in Seq(Frames), S # <<>>, NEW e \in Roots \cup Foreign
  PROVE  LET n == Len(S)
             s == Returned(S, e)
         IN /\ s \in Seq(Frames) /\ Len(s) = n /\ n \in Nat \ {0}
            /\ \A i \in 1..n - 1 : s[i] = S[i]
            /\ s[n].root = S[n].root /\ s[n].todo = S[n].todo /\ s[n].deps = S[n].deps \cup {e}
<1> DEFINE x == [S[Len(S)] EXCEPT !.deps = @ \cup {e}]
<1>1. Len(S) \in Nat \ {0} /\ S[Len(S)] \in Frames
  BY FrontFacts
<1>2. /\ x \in Frames /\ x.root = S[Len(S)].root /\ x.deps = S[Len(S)].deps \cup {e}
      /\ x.todo = S[Len(S)].todo
  BY <1>1 DEF Frames
<1>3. Returned(S, e) = [S EXCEPT ![Len(S)] = x]
  BY DEF Returned
<1> HIDE DEF x
<1>4. /\ Returned(S, e) \in Seq(Frames) /\ Len(Returned(S, e)) = Len(S)
      /\ \A i \in 1..Len(S) : Returned(S, e)[i] = IF i = Len(S) THEN x ELSE S[i]
  BY <1>2, <1>3, LastFacts
<1> QED
  BY <1>1, <1>2, <1>4

\* A file is built.
Accepted == ~Refused(Top.root, Top.deps)

LEMMA FinishStep ==
  ASSUME StackInv, Finish, Accepted
  PROVE  LET n == Len(stack)
             e == stack[n].root
             D == stack[n].deps
         IN /\ files' = files \cup D \cup {e}
            /\ DOMAIN built' = DOMAIN built \cup {e}
            /\ built'[e].path = UniquePath(e, D) /\ built'[e].imports = D
            /\ built'[e].names = NamesOf(D) \cup {UniquePath(e, D)}
            /\ \A f \in DOMAIN built : f # e => built'[f] = built[f]
            /\ parent' = IF e \in Standalone THEN [parent EXCEPT ![e] = NoFile] ELSE parent
            /\ n = 1 => outcome' = "built" /\ stack' = <<>>
            /\ n # 1 =>
                 /\ outcome' = "running" /\ Len(stack') = n - 1
                 /\ \A i \in 1..n - 2 : stack'[i] = stack[i]
                 /\ stack'[n - 1].root = stack[n - 1].root
                 /\ stack'[n - 1].todo = stack[n - 1].todo
                 /\ stack'[n - 1].deps = stack[n - 1].deps \cup {e}
<1> DEFINE n == Len(stack)
           e == Top.root
           D == Top.deps
<1>1. stack \in Seq(Frames) /\ stack # <<>>
  BY DEF StackInv, Finish
<1>2. /\ n \in Nat \ {0} /\ Top \in Frames /\ Below \in Seq(Frames) /\ Len(Below) = n - 1
      /\ \A i \in 1..n - 1 : Below[i] = stack[i]
  BY <1>1, TopFacts
<1>3. e = stack[n].root /\ D = stack[n].deps /\ e \in Roots
  BY <1>2 DEF Top, Frames
<1>4. /\ files' = files \cup D \cup {e}
      /\ built' = [f \in DOMAIN built \cup {e} |->
            IF f = e THEN [path |-> UniquePath(e, D), imports |-> D, names |-> NamesOf(D) \cup {UniquePath(e, D)}]
            ELSE built[f]]
      /\ parent' = IF e \in Standalone THEN [parent EXCEPT ![e] = NoFile] ELSE parent
      /\ outcome' = IF Below = <<>> THEN "built" ELSE "running"
      /\ stack' = IF Below = <<>> THEN <<>> ELSE Returned(Below, e)
  BY DEF Finish, Accepted, Returned
<1>5. Below = <<>> <=> n = 1
  BY <1>2
<1>6. n # 1 => /\ Len(stack') = n - 1
               /\ \A i \in 1..n - 2 : stack'[i] = stack[i]
               /\ stack'[n - 1].root = stack[n - 1].root
               /\ stack'[n - 1].todo = stack[n - 1].todo
               /\ stack'[n - 1].deps = stack[n - 1].deps \cup {e}
  <2> SUFFICES ASSUME n # 1
               PROVE  /\ Len(stack') = n - 1
                      /\ \A i \in 1..n - 2 : stack'[i] = stack[i]
                      /\ stack'[n - 1].root = stack[n - 1].root
                      /\ stack'[n - 1].todo = stack[n - 1].todo
                      /\ stack'[n - 1].deps = stack[n - 1].deps \cup {e}
    OBVIOUS
  <2>1. stack' = Returned(Below, e)
    BY <1>4, <1>5
  <2> HIDE DEF e, D
  <2>2. /\ Len(stack') = n - 1
        /\ \A i \in 1..n - 2 : stack'[i] = Below[i]
        /\ stack'[n - 1].root = Below[n - 1].root
        /\ stack'[n - 1].todo = Below[n - 1].todo
        /\ stack'[n - 1].deps = Below[n - 1].deps \cup {e}
    <3>1. Below # <<>> /\ n - 1 = Len(Below) /\ n - 2 = Len(Below) - 1
      BY <1>2, <1>5
    <3> QED
      BY <1>2, <1>3, <2>1, <3>1, ReturnExactly
  <2>3. n - 1 \in 1..n - 1 /\ 1..n - 2 \subseteq 1..n - 1
    BY <1>2
  <2> QED
    BY <1>2, <2>2, <2>3
<1>7. /\ DOMAIN built' = DOMAIN built \cup {e}
      /\ built'[e].path = UniquePath(e, D) /\ built'[e].imports = D
      /\ built'[e].names = NamesOf(D) \cup {UniquePath(e, D)}
      /\ \A f \in DOMAIN built : f # e => built'[f] = built[f]
  <2> HIDE DEF e, D
  <2> QED
    BY <1>4
<1> QED
  BY <1>3, <1>4, <1>5, <1>6, <1>7

LEMMA Finished ==
  ASSUME StackInv, Finish
  PROVE  /\ stack \in Seq(Frames) /\ Len(stack) \in Nat \ {0} /\ outcome = "running"
         /\ parent \in [Standalone -> Temps \cup {NoFile}]
         /\ Top = stack[Len(stack)] /\ stack[Len(stack)] \in Frames /\ stack[Len(stack)].todo = {}
         /\ refs' = refs /\ path' = path /\ target' = target
         /\ ~Accepted => Failed
<1>1. stack \in Seq(Frames) /\ stack # <<>>
  BY DEF StackInv, Finish
<1> QED
  BY <1>1, TopFacts DEF StackInv, Finish, Top, Accepted

-----------------------------------------------------------------------------

(* The invariant of a Build. *)

\* The builder of the i-th frame.
At(i) == Content(stack[i].root)

\* A standalone builder that refers to itself is needed.
SelfReferring == \E m \in NeededBy(target) \cap Standalone : m \in RefsOf(m)

Reason == Circular \/ SelfReferring \/ PathsClash \/ NamesClash \/ InvalidNeeded

\* The frames are for different roots that are not resolved yet; a temporary file is met
\* only while its builder is being resolved.
Placed ==
  /\ \A m \in Standalone : parent[m] # NoFile => parent[m] = Temp[m]
  /\ \A i \in 1..Len(stack) : stack[i].root \in Standalone => parent[stack[i].root] # NoFile
  /\ \A i, j \in 1..Len(stack) : stack[i].root = stack[j].root => i = j
  /\ \A i \in 1..Len(stack) : stack[i].root \notin files
  /\ \A m \in Standalone, j \in 1..Len(stack) :
       stack[j].root = Temp[m] => \E i \in 1..j - 1 : stack[i].root = m

\* The latest Build is about its target, and what it ended with is right.
Outcomes ==
  /\ outcome \in {"idle", "running", "built", "failed"}
  /\ outcome # "idle" => target \in Builders
  /\ outcome = "running" => stack[1].root = target
  /\ outcome = "built" => target \in files
  /\ outcome = "failed" => Reason
  /\ outcome # "failed" =>
       \A m \in Standalone : Temp[m] \in files => \E i \in 1..Len(stack) : stack[i].root = m

\* Every reference of a frame is still to be followed, has been, or is what the frame
\* above it is for; and a frame has nothing else.
FrameRefs ==
  \A i \in 1..Len(stack) :
    /\ stack[i].todo \subseteq RefsOf(At(i))
    /\ \A d \in stack[i].deps : Content(d) \in RefsOf(At(i))
    /\ i < Len(stack) => At(i + 1) \in RefsOf(At(i))
    /\ \A r \in RefsOf(At(i)) \ {At(i)} :
         \/ r \in stack[i].todo
         \/ \E d \in stack[i].deps : Content(d) = r
         \/ i < Len(stack) /\ At(i + 1) = r

\* A file that is built imports what it refers to, and nothing else.
FileRefs ==
  \A b \in files \cap Roots :
    /\ b \in DOMAIN built /\ built[b].imports \subseteq files
    /\ \A d \in built[b].imports : Content(d) \in RefsOf(Content(b))
    /\ \A r \in RefsOf(Content(b)) \ {Content(b)} : \E d \in built[b].imports : Content(d) = r

\* The imports among the files have no circle.
FilesOrdered ==
  \A S \in SUBSET (files \cap Roots) : S # {} => \E x \in S : built[x].imports \cap S = {}

\* Only what the target needs is resolved.
AllNeeded ==
  /\ \A i \in 1..Len(stack) : At(i) \in NeededBy(target)
  /\ \A f \in files : Content(f) \in NeededBy(target)

\* Each frame is for something that those below it refer to, directly or not.
Chained ==
  \A i, j \in 1..Len(stack) :
    i < j => SelfReferring \/ At(j) \in ReachFrom(RefsOf(At(i)) \ {At(i)})

\* A temporary file is met only if the Build is going to fail.
TempsHaveReason ==
  \A e \in Temps :
    e \in files \/ (\E i \in 1..Len(stack) : stack[i].root = e) => Circular \/ SelfReferring

\* A file has the paths of all it needs among its names, and its own path is none of
\* those of its imports.
Named ==
  \A g \in files \cap Roots :
    /\ IsFiniteSet(built[g].names) /\ PathOf(g) \in built[g].names
    /\ \E k \in Nat : PathOf(g) = <<GivenPath(g), k>>
    /\ \A z \in NeededBy(Content(g)) \cap (Files \cup Foreign) :
         z \in files /\ PathOf(z) \in built[g].names

BuildInv ==
  /\ Inv /\ path \in [Files -> Paths \cup {NoPath}]
  /\ Placed /\ Outcomes /\ FrameRefs /\ FileRefs /\ FilesOrdered /\ AllNeeded /\ Chained
  /\ TempsHaveReason /\ Named

\* The paths a root can be given.
LEMMA GivenPathFacts ==
  ASSUME path \in [Files -> Paths \cup {NoPath}], NEW e \in Roots
  PROVE  \/ GivenPath(e) = e
         \/ e \in Files /\ GivenPath(e) \in Paths
  BY DEF GivenPath

\* The first free path.
LEMMA UniqueFacts ==
  ASSUME NEW e, NEW D, IsFiniteSet(NamesOf(D))
  PROVE  /\ UniquePath(e, D) \notin NamesOf(D)
         /\ \E k \in Nat : UniquePath(e, D) = <<GivenPath(e), k>>
<1> DEFINE N == NamesOf(D)
           g == GivenPath(e)
           T == {k \in Nat : <<g, k>> \notin N}
<1>1. PICK c \in Nat : c = Cardinality(N)
  BY FS_CardinalityType
<1>2. ASSUME NEW k \in Nat, \A j \in 0..k - 1 : <<g, j>> \in N
      PROVE  k <= c
  <2> DEFINE f == [j \in 0..k - 1 |-> <<g, j>>]
  <2>1. f \in Injection(0..k - 1, N)
    BY <1>2 DEF Injection, IsInjective
  <2>2. IsFiniteSet(N)
    OBVIOUS
  <2>3. 0 \in Int /\ k - 1 \in Int
    BY <1>2
  <2>4. Cardinality(0..k - 1) = IF 0 > k - 1 THEN 0 ELSE (k - 1) - 0 + 1
    BY <2>3, FS_Interval, Zenon
  <2> HIDE DEF f, N
  <2>5. Cardinality(0..k - 1) <= c
    BY <1>1, <2>1, <2>2, FS_Injection
  <2> QED
    BY <1>2, <2>4, <2>5
<1>3. T # {}
  <2> SUFFICES ASSUME T = {}
               PROVE  FALSE
    OBVIOUS
  <2>1. c + 1 \in Nat /\ \A j \in 0..(c + 1) - 1 : <<g, j>> \in N
    OBVIOUS
  <2>2. c + 1 <= c
    BY <1>2, <2>1
  <2> QED
    BY <2>2
<1>4. PICK k \in T : \A j \in T : k <= j
  BY <1>3, LeastNatural
<1>5. k \in Nat /\ <<g, k>> \notin N /\ \A j \in 0..k - 1 : <<g, j>> \in N
  BY <1>4
<1>6. k \in 0..c
  BY <1>2, <1>5
<1> DEFINE Free(j) == <<g, j>> \notin N /\ \A i \in 0..j - 1 : <<g, i>> \in N
           x == CHOOSE j \in 0..c : Free(j)
<1>7. x \in 0..c /\ Free(x)
  <2>1. Free(k)
    BY <1>5
  <2> HIDE DEF Free
  <2> QED
    BY <1>6, <2>1
<1>8. UniquePath(e, D) = <<g, x>>
  BY <1>1 DEF UniquePath
<1>9. x \in Nat
  <2> HIDE DEF x
  <2> QED
    BY <1>7
<1> HIDE DEF x
<1> QED
  BY <1>7, <1>8, <1>9

\* The names behind a set of imports.
LEMMA NamesFacts ==
  ASSUME Named, NEW D, D \subseteq Foreign \cup files, files \subseteq Roots \cup Foreign
  PROVE  /\ IsFiniteSet(NamesOf(D))
         /\ \A d \in D : PathOf(d) \in NamesOf(D)
         /\ \A d \in D \cap Roots : built[d].names \subseteq NamesOf(D)
<1> DEFINE names(f) == IF f \in Foreign THEN {PathOf(f)} ELSE built[f].names
<1>1. NamesOf(D) = UNION {names(f) : f \in D}
  BY DEF NamesOf
<1>2. \A f \in D : f \in Foreign \/ (f \in files \cap Roots /\ f \notin Foreign)
  BY ResolveAssumption
<1>3. \A f \in D : IsFiniteSet(names(f)) /\ PathOf(f) \in names(f)
  BY <1>2, FS_Singleton DEF Named
<1>4. IsFiniteSet(D)
  <2>1. D \subseteq Roots \cup Foreign
    OBVIOUS
  <2> QED
    BY <2>1, FS_Subset, ResolveAssumption
<1>5. IsFiniteSet({names(f) : f \in D})
  <2> HIDE DEF names
  <2>1. [f \in D |-> names(f)] \in Surjection(D, {names(f) : f \in D})
    BY Zenon DEF Surjection
  <2> QED
    BY <1>4, <2>1, FS_Surjection
<1>6. IsFiniteSet(UNION {names(f) : f \in D})
  <2> HIDE DEF names
  <2> QED
    BY <1>3, <1>5, FS_UNION
<1>7. \A d \in D \cap Roots : names(d) = built[d].names
  BY ResolveAssumption
<1> HIDE DEF names
<1> QED
  BY <1>1, <1>3, <1>6, <1>7

-----------------------------------------------------------------------------

(* The reasons to fail. *)

LEMMA FrameTypes ==
  ASSUME StackInv
  PROVE  /\ Len(stack) \in Nat
         /\ \A i \in 1..Len(stack) :
              /\ stack[i] \in Frames /\ stack[i].root \in Roots /\ At(i) \in Builders
              /\ stack[i].deps \subseteq Roots \cup Foreign
<1>1. stack \in Seq(Frames)
  BY DEF StackInv
<1>2. \A i \in 1..Len(stack) : stack[i] \in Frames
  BY <1>1
<1> QED
  BY <1>1, <1>2, ContentFacts DEF Frames, At

\* Content is what RootOf keeps.
LEMMA RootContent ==
  ASSUME StackInv, Placed, NEW r \in Elements
  PROVE  /\ Content(RootOf(r)) = r
         /\ RootOf(r) # r => r \in Standalone /\ RootOf(r) = Temp[r] /\ parent[r] # NoFile
<1>1. CASE RootOf(r) = r
  BY <1>1, ContentFacts DEF Elements
<1>2. CASE RootOf(r) # r
  <2>1. r \in Standalone /\ parent[r] # NoFile /\ RootOf(r) = parent[r]
    BY <1>2 DEF RootOf
  <2>2. RootOf(r) = Temp[r]
    BY <2>1 DEF Placed
  <2> QED
    BY <2>1, <2>2, ContentFacts
<1> QED
  BY <1>1, <1>2

\* A reference to something that is being resolved.
LEMMA CircleReason ==
  ASSUME BuildInv, NEW i \in 1..Len(stack), NEW r \in RefsOf(At(Len(stack))), At(i) = r,
         i # Len(stack) \/ r \in Standalone
  PROVE  Circular \/ SelfReferring
<1> DEFINE n == Len(stack)
<1>1. StackInv /\ Chained /\ AllNeeded /\ Len(stack) \in Nat
  BY FrameTypes DEF BuildInv, Inv
<1>2. i \in 1..n /\ n \in 1..n /\ r \in Builders /\ At(n) \in Builders /\ r \in NeededBy(target)
  BY <1>1, FrameTypes DEF AllNeeded
<1>3. CASE At(n) = r
  <2>1. r \in Standalone
    <3>1. CASE i = n
      BY <3>1
    <3>2. CASE i # n
      <4>1. stack[i].root # stack[n].root
        BY <1>2, <3>2 DEF BuildInv, Placed
      <4>2. stack[i].root \in Roots /\ stack[n].root \in Roots /\ Content(stack[i].root) = r
            /\ Content(stack[n].root) = r
        BY <1>1, <1>2, <1>3, FrameTypes DEF At
      <4>3. PICK m \in Standalone : stack[i].root = m \/ stack[n].root = m
        BY <4>1, <4>2, SameContent
      <4> QED
        BY <4>2, <4>3, ContentFacts DEF Builders
    <3> QED
      BY <3>1, <3>2
  <2> QED
    BY <1>2, <1>3, <2>1 DEF SelfReferring
<1>4. CASE At(n) # r
  <2>1. i < n
    BY <1>2, <1>4
  <2>2. SelfReferring \/ At(n) \in ReachFrom(RefsOf(r) \ {r})
    BY <1>1, <1>2, <2>1 DEF Chained
  <2>3. ASSUME At(n) \in ReachFrom(RefsOf(r) \ {r})
        PROVE  Cyclic(r)
    <3>1. RefsOf(r) \ {r} \in SUBSET Elements
      BY RefsIn
    <3>2. RefsOf(At(n)) \ {At(n)} \subseteq ReachFrom(RefsOf(r) \ {r})
      BY <1>2, <2>3, <3>1, ReachFacts
    <3>3. r \in ReachFrom(RefsOf(r) \ {r})
      BY <1>4, <3>2
    <3> QED
      BY <3>3 DEF Cyclic
  <2> QED
    BY <1>2, <2>2, <2>3 DEF Circular
<1> QED
  BY <1>3, <1>4

\* What a finished frame needs is among its imports and what they need.
LEMMA NeededNames ==
  ASSUME BuildInv, stack # <<>>, stack[Len(stack)].todo = {},
         NEW z \in NeededBy(At(Len(stack))) \cap (Files \cup Foreign)
  PROVE  LET e == stack[Len(stack)].root
             D == stack[Len(stack)].deps
         IN z = e \/ (z \in files \cup D /\ PathOf(z) \in NamesOf(D))
<1> DEFINE n == Len(stack)
           e == stack[n].root
           D == stack[n].deps
           b == At(n)
<1>1. StackInv /\ PathInv /\ Named /\ FrameRefs /\ n \in Nat /\ n # 0
  BY FrameTypes DEF BuildInv, Inv, StackInv
<1>2. n \in 1..n /\ e \in Roots /\ b \in Builders /\ b = Content(e)
  BY <1>1, FrameTypes DEF At
<1>3. D \subseteq Foreign \cup files /\ files \subseteq Roots \cup Foreign
  BY <1>1, <1>2 DEF PathInv
<1>4. CASE z = b
  <2>1. z \in Files
    BY <1>2, <1>4, ResolveAssumption DEF Roots
  <2>2. e \notin Temps
    BY <1>2, <1>4, <2>1, ContentFacts, ResolveAssumption
  <2>3. Content(e) = e
    BY <1>2, <2>2, ContentFacts DEF Roots
  <2> QED
    BY <1>2, <1>4, <2>3
<1>5. CASE z # b
  <2>1. PICK r \in RefsOf(b) \ {b} : z \in NeededBy(r)
    BY <1>2, <1>5, NeededSplit DEF Elements
  <2>2. PICK d \in D : Content(d) = r
    BY <1>1, <1>2, <2>1 DEF FrameRefs
  <2>3. /\ PathOf(d) \in NamesOf(D)
        /\ d \in Roots => built[d].names \subseteq NamesOf(D)
    BY <1>1, <1>3, <2>2, NamesFacts
  <2>4. CASE d \in Foreign
    <3>1. r = d /\ d \in Elements /\ d \notin Builders
      BY <2>2, <2>4, ContentFacts, ResolveAssumption DEF Elements, Roots
    <3>2. z = d
      BY <2>1, <3>1, NeededSplit
    <3> QED
      BY <2>2, <2>3, <3>2
  <2>5. CASE d \notin Foreign
    <3>1. d \in files \cap Roots
      BY <1>3, <2>2, <2>5
    <3>2. z \in files /\ PathOf(z) \in built[d].names
      BY <1>1, <2>1, <2>2, <3>1 DEF Named
    <3> QED
      BY <2>3, <3>1, <3>2
  <2> QED
    BY <2>4, <2>5
<1> QED
  BY <1>4, <1>5

LEMMA PairFacts == \A a, b, c, d : <<a, b>> = <<c, d>> => a = c /\ b = d
  OBVIOUS

\* A descriptor that has the path of another file.
LEMMA ForeignClash ==
  ASSUME BuildInv, NEW x \in Foreign, NEW y \in Foreign \cup (files \cap Roots), x # y,
         PathOf(x) = PathOf(y), y \notin Foreign => x \notin files,
         x \in NeededBy(target), Content(y) \in NeededBy(target)
  PROVE  PathsClash
<1>1. PathOf(x) = <<ForeignPath[x], 0>> /\ x \notin Builders /\ ForeignPath[x] \in Paths
      /\ GivenName(x) = ForeignPath[x]
  BY ResolveAssumption DEF PathOf, Roots, GivenName
<1>2. CASE y \in Foreign
  <2>1. PathOf(y) = <<ForeignPath[y], 0>> /\ y \notin Builders /\ GivenName(y) = ForeignPath[y]
    BY <1>2, ResolveAssumption DEF PathOf, Roots, GivenName
  <2>2. Content(y) = y
    BY <1>2, ContentFacts
  <2>3. <<ForeignPath[x], 0>> = <<ForeignPath[y], 0>>
    BY <1>1, <2>1
  <2>4. ForeignPath[x] = ForeignPath[y]
    BY <2>3, PairFacts
  <2> QED
    BY <1>1, <2>1, <2>2, <2>4 DEF PathsClash
<1>3. CASE y \notin Foreign
  <2>1. y \in files \cap Roots /\ Named /\ path \in [Files -> Paths \cup {NoPath}]
    BY <1>3 DEF BuildInv
  <2>2. PICK k \in Nat : PathOf(y) = <<GivenPath(y), k>>
    BY <2>1 DEF Named
  <2>3. GivenPath(y) = ForeignPath[x]
    <3>1. <<ForeignPath[x], 0>> = <<GivenPath(y), k>>
      BY <1>1, <2>2
    <3> QED
      BY <3>1, PairFacts
  <2>4. y \in Files /\ GivenPath(y) \in Paths
    BY <1>1, <2>1, <2>3, GivenPathFacts, ResolveAssumption
  <2>5. Content(y) = y /\ y \in Builders /\ GivenName(y) = GivenPath(y)
    BY <1>3, <2>4, ContentFacts DEF Builders, GivenName
  <2>6. x \notin NeededBy(y)
    BY <1>3, <2>1, <2>5 DEF Named
  <2> QED
    BY <1>1, <2>3, <2>5, <2>6 DEF PathsClash
<1> QED
  BY <1>2, <1>3

\* A file cannot be registered.
LEMMA RefusedReason ==
  ASSUME BuildInv, Finish, ~Accepted
  PROVE  Reason
<1> DEFINE n == Len(stack)
           e == stack[n].root
           D == stack[n].deps
           p == UniquePath(e, D)
<1>1. /\ StackInv /\ PathInv /\ Named /\ FrameRefs /\ Placed /\ AllNeeded /\ TempsHaveReason
      /\ path \in [Files -> Paths \cup {NoPath}]
  BY DEF BuildInv, Inv
<1>2. n \in Nat \ {0} /\ n \in 1..n /\ Top = stack[n] /\ stack[n].todo = {} /\ stack # <<>>
  BY <1>1, Finished DEF StackInv, Finish
<1>3. e \in Roots /\ At(n) \in Builders /\ At(n) = Content(e) /\ e \notin files
  BY <1>1, <1>2, FrameTypes DEF At, Placed
<1>4. D \subseteq Foreign \cup files /\ files \subseteq Roots \cup Foreign
  BY <1>1, <1>2 DEF PathInv
<1>5. /\ Content(e) \in NeededBy(target) /\ \A f \in files : Content(f) \in NeededBy(target)
      /\ \A d \in D : Content(d) \in NeededBy(target)
  <2>1. Content(e) \in NeededBy(target) /\ \A f \in files : Content(f) \in NeededBy(target)
    BY <1>1, <1>2, <1>3 DEF AllNeeded
  <2>2. target \in Elements
    BY DEF BuildInv, Outcomes, Finish, Elements
  <2>3. \A d \in D : Content(d) \in RefsOf(At(n))
    BY <1>1, <1>2 DEF FrameRefs
  <2>4. RefsOf(At(n)) \subseteq NeededBy(target)
    BY <1>3, <2>1, <2>2, NeededFacts
  <2> QED
    BY <2>1, <2>3, <2>4
<1>6. /\ IsFiniteSet(NamesOf(D)) /\ \A d \in D : PathOf(d) \in NamesOf(D)
      /\ p \notin NamesOf(D) /\ \E k \in Nat : p = <<GivenPath(e), k>>
  BY <1>1, <1>4, NamesFacts, UniqueFacts
<1>7. ASSUME Duplicate(D)
      PROVE  PathsClash
  <2>1. PICK f \in D, g \in D \cup files : f # g /\ PathOf(f) = PathOf(g)
    BY <1>7 DEF Duplicate
  <2>2. ~(f \in files /\ g \in files)
    BY <1>1, <2>1 DEF PathInv
  <2>3. PICK x, y : /\ x \in D /\ x \notin files /\ y \in D \cup files /\ x # y
                    /\ PathOf(x) = PathOf(y)
    BY <2>1, <2>2
  <2>4. x \in Foreign /\ y \in Foreign \cup (files \cap Roots) /\ Content(x) = x
    BY <1>4, <2>3, ContentFacts
  <2>5. x \in NeededBy(target) /\ Content(y) \in NeededBy(target)
    BY <1>5, <2>3, <2>4
  <2> QED
    BY <2>3, <2>4, <2>5, ForeignClash
<1>8. ASSUME NEW f \in files \cup D, f \in Roots, Content(f) = Content(e)
      PROVE  Circular \/ SelfReferring
  <2>1. f \in files /\ f # e
    BY <1>3, <1>4, <1>8, ResolveAssumption
  <2>2. PICK m \in Standalone : (e = m /\ f = Temp[m]) \/ (f = m /\ e = Temp[m])
    BY <1>3, <1>8, <2>1, SameContent
  <2>3. Temp[m] \in Temps
    BY ContentFacts
  <2> QED
    BY <1>1, <1>2, <2>1, <2>2, <2>3 DEF TempsHaveReason
<1>9. ASSUME NEW f \in files \cup D, PathOf(f) = p
      PROVE  PathsClash
  <2>1. f \in files /\ f \notin D /\ f # e
    BY <1>3, <1>6, <1>9
  <2>2. PICK k \in Nat : p = <<GivenPath(e), k>>
    BY <1>6
  <2>3. f \in Files \cup Foreign => f \notin NeededBy(Content(e))
    <3> SUFFICES ASSUME f \in Files \cup Foreign, f \in NeededBy(At(n))
                 PROVE  FALSE
      BY <1>3
    <3>1. PathOf(f) \in NamesOf(D)
      BY <1>2, <2>1, NeededNames
    <3> QED
      BY <1>6, <1>9, <3>1
  <2>4. CASE f \in Foreign
    <3>1. PathOf(f) = <<ForeignPath[f], 0>> /\ ForeignPath[f] \in Paths /\ GivenName(f) = ForeignPath[f]
          /\ f \notin Builders /\ Content(f) = f
      BY <2>4, ContentFacts, ResolveAssumption DEF PathOf, GivenName, Roots
    <3>2. GivenPath(e) = ForeignPath[f]
      BY <1>9, <2>2, <3>1
    <3>3. e \in Files
      BY <1>1, <1>3, <3>1, <3>2, GivenPathFacts, ResolveAssumption
    <3>4. Content(e) = e /\ GivenName(e) = GivenPath(e)
      BY <3>3, ContentFacts, ResolveAssumption DEF Builders, GivenName, Roots
    <3> QED
      BY <1>5, <2>1, <2>3, <2>4, <3>1, <3>2, <3>4 DEF PathsClash
  <2>5. CASE f \notin Foreign
    <3>1. f \in files \cap Roots
      BY <1>4, <2>1, <2>5
    <3>2. PICK j \in Nat : PathOf(f) = <<GivenPath(f), j>>
      BY <1>1, <3>1 DEF Named
    <3>3. GivenPath(f) = GivenPath(e)
      BY <1>9, <2>2, <3>2
    <3>4. f \in Files /\ e \in Files
      BY <1>1, <1>3, <2>1, <3>1, <3>3, GivenPathFacts, ResolveAssumption DEF Roots, Builders
    <3>5. Content(f) = f /\ Content(e) = e /\ GivenName(f) = GivenPath(f) /\ GivenName(e) = GivenPath(e)
      BY <3>4, ContentFacts, ResolveAssumption DEF Builders, GivenName, Roots
    <3>6. e \notin NeededBy(f)
      BY <1>1, <1>3, <3>1, <3>4, <3>5 DEF Named
    <3> QED
      BY <1>5, <2>1, <2>3, <3>3, <3>4, <3>5, <3>6 DEF PathsClash
  <2> QED
    BY <2>4, <2>5
<1>10. ASSUME Content(e) \in Invalid
       PROVE  InvalidNeeded
  BY <1>5, <1>10 DEF InvalidNeeded
<1>11. ASSUME NEW f \in files \cup D, NEW g \in files \cup D \cup {e}, f # g, Conflict(f, g)
       PROVE  Circular \/ SelfReferring \/ NamesClash
  <2>1. CASE Content(f) # Content(g)
    BY <1>5, <1>11, <2>1 DEF Conflict, NamesClash
  <2>2. CASE Content(f) = Content(g)
    <3>1. f \in Roots \cup Foreign /\ g \in Roots \cup Foreign
      BY <1>3, <1>4
    <3>2. PICK m \in Standalone : (f = m /\ g = Temp[m]) \/ (g = m /\ f = Temp[m])
      BY <1>11, <2>2, <3>1, SameContent
    <3>3. Temp[m] \in Temps /\ Temp[m] \notin Foreign
      BY ContentFacts, ResolveAssumption DEF Roots
    <3>4. Temp[m] \in files \/ Temp[m] = e
      BY <1>4, <3>2, <3>3
    <3> QED
      BY <1>1, <1>2, <3>3, <3>4 DEF TempsHaveReason
  <2> QED
    BY <2>1, <2>2
<1>12. Duplicate(D) \/ Content(e) \in Invalid \/ ImportsConflict(D) \/ ~Registers(e, p, files \cup D)
  BY <1>2 DEF Accepted, Refused
<1>13. ASSUME ImportsConflict(D)
       PROVE  Circular \/ SelfReferring \/ NamesClash
  BY <1>11, <1>13 DEF ImportsConflict
<1>14. ASSUME ~Registers(e, p, files \cup D)
       PROVE  Reason
  <2>1. PICK f \in files \cup D : PathOf(f) = p \/ Conflict(f, e) \/ (f \in Roots /\ Content(f) = Content(e))
    BY <1>14 DEF Registers
  <2>2. f # e
    BY <1>3, <1>4, ResolveAssumption
  <2> QED
    BY <1>8, <1>9, <1>11, <2>1, <2>2 DEF Reason
<1> QED
  BY <1>7, <1>10, <1>12, <1>13, <1>14 DEF Reason

-----------------------------------------------------------------------------

(* The steps. *)

LEMMA SameReasons ==
  ASSUME refs' = refs, path' = path, target' = target
  PROVE  /\ \A e : GivenPath(e)' = GivenPath(e)
         /\ (Circular \/ SelfReferring)' <=> (Circular \/ SelfReferring)
         /\ SelfReferring' <=> SelfReferring
         /\ Reason' <=> Reason
<1>1. \A e : GivenPath(e)' = GivenPath(e)
  BY DEF GivenPath
<1>2. \A e : GivenName(e)' = GivenName(e)
  BY <1>1 DEF GivenName
<1>3. /\ \A b : RefsOf(b)' = RefsOf(b)
      /\ \A b : NeededBy(b)' = NeededBy(b)
      /\ \A b : Cyclic(b)' = Cyclic(b)
  BY SameGraph
<1>4. NeededBy(target)' = NeededBy(target)
  BY <1>3
<1>5. Circular' <=> Circular
  BY <1>3, <1>4 DEF Circular
<1>6. SelfReferring' <=> SelfReferring
  BY <1>3, <1>4 DEF SelfReferring
<1>7. PathsClash' <=> PathsClash
  BY <1>2, <1>3, <1>4 DEF PathsClash
<1>8. (NamesClash' <=> NamesClash) /\ (InvalidNeeded' <=> InvalidNeeded)
  BY <1>4 DEF NamesClash, InvalidNeeded
<1> QED
  BY <1>1, <1>5, <1>6, <1>7, <1>8 DEF Reason

\* What holds of the files holds of them afterwards.
LEMMA SameFiles ==
  ASSUME BuildInv, refs' = refs, path' = path, target' = target,
         files' = files, built' = built
  PROVE  /\ path' \in [Files -> Paths \cup {NoPath}]
         /\ FileRefs' /\ FilesOrdered' /\ Named'
         /\ \A f \in files' : Content(f) \in NeededBy(target)'
<1>1. /\ \A b : RefsOf(b)' = RefsOf(b)
      /\ \A b : NeededBy(b)' = NeededBy(b)
      /\ \A e : GivenPath(e)' = GivenPath(e)
      /\ NeededBy(target)' = NeededBy(target)
  BY SameGraph, SameReasons
<1>2. \A f : PathOf(f)' = PathOf(f)
  BY DEF PathOf
<1>3. FileRefs'
  BY <1>1 DEF BuildInv, FileRefs
<1>4. FilesOrdered'
  BY DEF BuildInv, FilesOrdered
<1>5. Named'
  BY <1>1, <1>2 DEF BuildInv, Named
<1> QED
  BY <1>1, <1>3, <1>4, <1>5 DEF BuildInv, AllNeeded

\* A Build that ends with an error.
LEMMA FailedBuild ==
  ASSUME BuildInv, [Next]_vars, Failed, outcome = "running", Reason,
         refs' = refs, path' = path, target' = target
  PROVE  BuildInv'
<1>1. /\ stack' = <<>> /\ outcome' = "failed" /\ files' = files /\ built' = built
      /\ parent' = [m \in Standalone |-> NoFile]
  BY DEF Failed, ParentsAfterFailure
<1>2. Inv'
  BY PathStep DEF BuildInv
<1>3. /\ path' \in [Files -> Paths \cup {NoPath}]
      /\ FileRefs' /\ FilesOrdered' /\ Named'
      /\ \A f \in files' : Content(f) \in NeededBy(target)'
  BY <1>1, SameFiles
<1>4. ((Circular \/ SelfReferring)' <=> (Circular \/ SelfReferring)) /\ Reason'
  BY SameReasons
<1>5. Len(stack') = 0 /\ 1..Len(stack') = {}
  BY <1>1
<1>6. Placed'
  BY <1>1, <1>5 DEF Placed
<1>7. Outcomes'
  BY <1>1, <1>4 DEF BuildInv, Outcomes
<1>8. FrameRefs' /\ Chained'
  BY <1>5 DEF FrameRefs, Chained
<1>9. AllNeeded'
  BY <1>3, <1>5 DEF AllNeeded
<1>10. TempsHaveReason'
  BY <1>1, <1>4, <1>5 DEF BuildInv, TempsHaveReason
<1> QED
  BY <1>2, <1>3, <1>6, <1>7, <1>8, <1>9, <1>10 DEF BuildInv

LEMMA KnownBuild ==
  ASSUME BuildInv, [Next]_vars, NEW r \in Elements, Follow(r), Known(r)
  PROVE  BuildInv'
<1> DEFINE n == Len(stack)
           d == IF RootOf(r) = stack[n].root THEN {} ELSE {RootOf(r)}
<1>1. StackInv /\ Placed /\ FrameRefs /\ Inv'
  BY PathStep DEF BuildInv, Inv
<1>2. /\ n \in Nat \ {0} /\ outcome = "running" /\ r \in stack[n].todo
      /\ refs' = refs /\ path' = path /\ target' = target
  BY <1>1, Followed
<1>3. /\ parent' = parent /\ files' = files /\ built' = built /\ outcome' = outcome
      /\ Len(stack') = n
      /\ \A i \in 1..n - 1 : stack'[i] = stack[i]
      /\ stack'[n].root = stack[n].root
      /\ stack'[n].todo = stack[n].todo \ {r}
      /\ stack'[n].deps = stack[n].deps \cup d
  BY <1>1, KnownStep
<1>4. \A i \in 1..n : stack'[i].root = stack[i].root /\ At(i)' = At(i)
  <2>1. \A i \in 1..n : i = n \/ i \in 1..n - 1
    BY <1>2
  <2>2. \A i \in 1..n : stack'[i].root = stack[i].root
    BY <1>3, <2>1
  <2> QED
    BY <2>2 DEF At
<1>5. /\ path' \in [Files -> Paths \cup {NoPath}]
      /\ FileRefs' /\ FilesOrdered' /\ Named'
      /\ \A f \in files' : Content(f) \in NeededBy(target)'
  BY <1>2, <1>3, SameFiles
<1>6. /\ (Circular \/ SelfReferring)' <=> (Circular \/ SelfReferring)
      /\ SelfReferring' <=> SelfReferring
      /\ \A b : RefsOf(b)' = RefsOf(b)
      /\ \A b : NeededBy(b)' = NeededBy(b)
      /\ \A s : ReachFrom(s)' = ReachFrom(s)
  BY <1>2, SameReasons, SameGraph
<1>7. Placed'
  <2>1. \A j \in 1..n : 1..j - 1 \subseteq 1..n
    BY <1>2
  <2>2. /\ \A m \in Standalone : parent'[m] # NoFile => parent'[m] = Temp[m]
        /\ \A i \in 1..n : stack'[i].root \in Standalone => parent'[stack'[i].root] # NoFile
        /\ \A i \in 1..n : stack'[i].root \notin files'
    BY <1>1, <1>3, <1>4 DEF Placed
  <2>3. \A i, j \in 1..n : stack'[i].root = stack'[j].root => i = j
    BY <1>1, <1>4 DEF Placed
  <2>4. \A m \in Standalone, j \in 1..n :
          stack'[j].root = Temp[m] => \E i \in 1..j - 1 : stack'[i].root = m
    BY <1>1, <1>4, <2>1 DEF Placed
  <2> QED
    BY <1>3, <2>2, <2>3, <2>4 DEF Placed
<1>8. Outcomes'
  <2>1. 1 \in 1..n
    BY <1>2
  <2> QED
    BY <1>2, <1>3, <1>4, <2>1 DEF BuildInv, Outcomes
<1>9. FrameRefs'
  <2>1. ASSUME NEW i \in 1..n
        PROVE  /\ stack'[i].todo \subseteq RefsOf(At(i))
               /\ \A x \in stack'[i].deps : Content(x) \in RefsOf(At(i))
               /\ i < n => At(i + 1)' \in RefsOf(At(i))
               /\ \A x \in RefsOf(At(i)) \ {At(i)} :
                    \/ x \in stack'[i].todo
                    \/ \E y \in stack'[i].deps : Content(y) = x
                    \/ i < n /\ At(i + 1)' = x
    <3>1. CASE i < n
      <4>1. i \in 1..n - 1 /\ i + 1 \in 1..n
        BY <1>2, <3>1
      <4>2. stack'[i] = stack[i] /\ At(i + 1)' = At(i + 1)
        BY <1>3, <1>4, <4>1
      <4> QED
        BY <1>1, <4>2, <3>1 DEF FrameRefs
    <3>2. CASE i = n
      <4>1. Content(RootOf(r)) = r
        BY <1>1, RootContent
      <4>2. r \in RefsOf(At(n)) /\ stack[n].todo \subseteq RefsOf(At(n))
            /\ (\A x \in stack[n].deps : Content(x) \in RefsOf(At(n)))
            /\ \A x \in RefsOf(At(n)) \ {At(n)} :
                    \/ x \in stack[n].todo
                    \/ \E y \in stack[n].deps : Content(y) = x
        BY <1>1, <1>2, <3>2 DEF FrameRefs
      <4>3. RootOf(r) = stack[n].root => r = At(n)
        BY <4>1 DEF At
      <4> HIDE DEF n
      <4> QED
        BY <1>3, <3>2, <4>1, <4>2, <4>3
    <3> QED
      BY <1>2, <3>1, <3>2
  <2> QED
    BY <1>3, <1>4, <1>6, <2>1 DEF FrameRefs
<1>10. AllNeeded'
  BY <1>2, <1>3, <1>4, <1>5, <1>6 DEF BuildInv, AllNeeded
<1>11. Chained'
  BY <1>3, <1>4, <1>6 DEF BuildInv, Chained
<1>12. TempsHaveReason'
  BY <1>3, <1>4, <1>6 DEF BuildInv, TempsHaveReason
<1> QED
  BY <1>1, <1>5, <1>7, <1>8, <1>9, <1>10, <1>11, <1>12 DEF BuildInv

LEMMA CircleBuild ==
  ASSUME BuildInv, [Next]_vars, NEW r \in Elements, Follow(r), ~Known(r), Seen(RootOf(r))
  PROVE  BuildInv'
<1>1. StackInv /\ Placed /\ FrameRefs
  BY DEF BuildInv, Inv
<1>2. /\ Len(stack) \in Nat \ {0} /\ outcome = "running" /\ r \in stack[Len(stack)].todo
      /\ refs' = refs /\ path' = path /\ target' = target /\ Top = stack[Len(stack)]
  BY <1>1, Followed
<1>3. Failed
  BY <1>1, CircleStep
<1>4. PICK i \in 1..Len(stack) : stack[i].root = RootOf(r)
  BY DEF Seen
<1>5. i # Len(stack)
  BY <1>2, <1>4 DEF Known
<1>6. At(i) = r
  BY <1>1, <1>4, RootContent DEF At
<1>7. r \in RefsOf(At(Len(stack)))
  BY <1>1, <1>2 DEF FrameRefs
<1>8. Reason
  BY <1>5, <1>6, <1>7, CircleReason DEF Reason
<1> QED
  BY <1>2, <1>3, <1>8, FailedBuild

LEMMA PushBuild ==
  ASSUME BuildInv, [Next]_vars, NEW r \in Elements, Follow(r), ~Known(r), ~Seen(RootOf(r))
  PROVE  BuildInv'
<1> DEFINE e == RootOf(r)
<1>1. StackInv /\ Placed /\ FrameRefs /\ AllNeeded /\ Inv'
  BY PathStep DEF BuildInv, Inv
<1>n. PICK n \in Nat \ {0} : n = Len(stack)
  BY <1>1, Followed
<1> USE <1>n
<1>2. /\ n \in Nat \ {0} /\ outcome = "running" /\ r \in stack[n].todo
      /\ refs' = refs /\ path' = path /\ target' = target /\ Top = stack[n]
      /\ parent \in [Standalone -> Temps \cup {NoFile}]
      /\ (r \in Builders => e \in Roots)
  BY <1>1, Followed
<1>3. /\ r \in Builders
      /\ parent' = Adopted(e) /\ files' = files /\ built' = built /\ outcome' = outcome
      /\ Len(stack') = n + 1
      /\ \A i \in 1..n - 1 : stack'[i] = stack[i]
      /\ stack'[n].root = stack[n].root
      /\ stack'[n].todo = stack[n].todo \ {r}
      /\ stack'[n].deps = stack[n].deps
      /\ stack'[n + 1].root = e
      /\ stack'[n + 1].todo = RefsOf(Content(e))
      /\ stack'[n + 1].deps = {}
  BY <1>1, PushStep
<1>4. /\ \A i \in 1..n : stack'[i].root = stack[i].root /\ At(i)' = At(i)
      /\ \A i \in 1..n + 1 : i \in 1..n \/ i = n + 1
  <2>1. \A i \in 1..n : i = n \/ i \in 1..n - 1
    BY <1>2
  <2>2. \A i \in 1..n : stack'[i].root = stack[i].root
    BY <1>3, <2>1
  <2>3. \A i \in 1..n + 1 : i \in 1..n \/ i = n + 1
    BY <1>2
  <2> QED
    BY <2>2, <2>3 DEF At
<1>5. /\ path' \in [Files -> Paths \cup {NoPath}]
      /\ FileRefs' /\ FilesOrdered' /\ Named'
      /\ \A f \in files' : Content(f) \in NeededBy(target)'
  BY <1>2, <1>3, SameFiles
<1>6. /\ (Circular \/ SelfReferring)' <=> (Circular \/ SelfReferring)
      /\ SelfReferring' <=> SelfReferring
      /\ \A b : RefsOf(b)' = RefsOf(b)
      /\ \A b : NeededBy(b)' = NeededBy(b)
      /\ \A s : ReachFrom(s)' = ReachFrom(s)
  BY <1>2, SameReasons, SameGraph
<1>7. /\ Content(e) = r
      /\ e # r => r \in Standalone /\ e = Temp[r] /\ parent[r] # NoFile
      /\ e \in Roots /\ e \notin files /\ e # stack[n].root
      /\ \A i \in 1..n : stack[i].root # e
  BY <1>1, <1>2, <1>3, RootContent DEF Known, Seen
<1>8. At(n + 1)' = r
  BY <1>3, <1>7 DEF At
<1>9. r \in RefsOf(At(n)) /\ At(n) \in Builders /\ stack[n].root \in Roots /\ n \in 1..n
  BY <1>1, <1>2, FrameTypes DEF FrameRefs
<1>10. ASSUME e # r
       PROVE  \E i \in 1..n : stack[i].root = r /\ At(i) = r
  <2>1. PICK i \in 1..n : stack[i].root = r
    BY <1>1, <1>7, <1>10 DEF StackInv
  <2> QED
    BY <1>3, <2>1, ContentFacts DEF At
<1> HIDE DEF e
<1>11. Placed'
  <2>1. \A m \in Standalone : parent'[m] = IF m = e THEN Temp[e] ELSE parent[m]
    BY <1>2, <1>3 DEF Adopted
  <2>2. \A m \in Standalone : parent'[m] # NoFile => parent'[m] = Temp[m]
    BY <1>1, <2>1 DEF Placed
  <2>3. \A m \in Standalone : Temp[m] # NoFile
    BY ResolveAssumption DEF Roots
  <2>4. \A i \in 1..n + 1 : stack'[i].root \in Standalone => parent'[stack'[i].root] # NoFile
    <3> SUFFICES ASSUME NEW i \in 1..n + 1, stack'[i].root \in Standalone
                 PROVE  parent'[stack'[i].root] # NoFile
      OBVIOUS
    <3>1. CASE i = n + 1
      BY <1>3, <2>1, <2>3, <3>1
    <3>2. CASE i \in 1..n
      BY <1>1, <1>4, <2>1, <2>3, <3>2 DEF Placed
    <3> QED
      BY <1>4, <3>1, <3>2
  <2>5. \A i, j \in 1..n + 1 : stack'[i].root = stack'[j].root => i = j
    BY <1>1, <1>3, <1>4, <1>7 DEF Placed
  <2>6. \A i \in 1..n + 1 : stack'[i].root \notin files
    BY <1>1, <1>3, <1>4, <1>7 DEF Placed
  <2>7. ASSUME NEW m \in Standalone, NEW j \in 1..n + 1, stack'[j].root = Temp[m]
        PROVE  \E i \in 1..j - 1 : stack'[i].root = m
    <3>1. CASE j \in 1..n
      <4>1. PICK i \in 1..j - 1 : stack[i].root = m
        BY <1>1, <1>4, <2>7, <3>1 DEF Placed
      <4>2. i \in 1..n
        BY <1>2, <3>1
      <4> QED
        BY <1>4, <4>1, <4>2
    <3>2. CASE j = n + 1
      <4>1. e = Temp[m]
        BY <1>3, <2>7, <3>2
      <4>2. e # r
        BY <1>3, <4>1, ContentFacts, ResolveAssumption
      <4>3. r = m
        BY <1>7, <4>1, ContentFacts
      <4>4. PICK i \in 1..n : stack[i].root = m
        BY <1>10, <4>2, <4>3
      <4>5. i \in 1..j - 1
        BY <1>2, <3>2
      <4> QED
        BY <1>4, <4>4, <4>5
    <3> QED
      BY <1>4, <3>1, <3>2
  <2> QED
    BY <1>3, <2>2, <2>4, <2>5, <2>6, <2>7 DEF Placed
<1>12. Outcomes'
  <2>1. 1 \in 1..n /\ 1..n \subseteq 1..n + 1
    BY <1>2
  <2>2. \A m \in Standalone : Temp[m] \in files => \E i \in 1..n : stack[i].root = m
    BY <1>2 DEF BuildInv, Outcomes
  <2>3. \A m \in Standalone : Temp[m] \in files => \E i \in 1..n + 1 : stack'[i].root = m
    BY <1>4, <2>1, <2>2
  <2> QED
    BY <1>2, <1>3, <1>4, <2>1, <2>3 DEF BuildInv, Outcomes
<1>13. FrameRefs'
  <2>1. ASSUME NEW i \in 1..n + 1
        PROVE  /\ stack'[i].todo \subseteq RefsOf(At(i)')
               /\ \A x \in stack'[i].deps : Content(x) \in RefsOf(At(i)')
               /\ i < n + 1 => At(i + 1)' \in RefsOf(At(i)')
               /\ \A x \in RefsOf(At(i)') \ {At(i)'} :
                    \/ x \in stack'[i].todo
                    \/ \E y \in stack'[i].deps : Content(y) = x
                    \/ i < n + 1 /\ At(i + 1)' = x
    <3>1. CASE i < n
      <4>1. i \in 1..n - 1 /\ i + 1 \in 1..n /\ i \in 1..n
        BY <1>2, <3>1
      <4>2. stack'[i] = stack[i] /\ At(i + 1)' = At(i + 1) /\ At(i)' = At(i)
        BY <1>3, <1>4, <4>1
      <4> QED
        BY <1>1, <4>1, <4>2, <3>1 DEF FrameRefs
    <3>2. CASE i = n
      <4>1. /\ stack[n].todo \subseteq RefsOf(At(n))
            /\ \A x \in stack[n].deps : Content(x) \in RefsOf(At(n))
            /\ \A x \in RefsOf(At(n)) \ {At(n)} :
                    \/ x \in stack[n].todo
                    \/ \E y \in stack[n].deps : Content(y) = x
        BY <1>1, <1>2, <1>9 DEF FrameRefs
      <4>2. n < n + 1 /\ At(n)' = At(n)
        BY <1>2, <1>4
      <4> QED
        BY <1>3, <1>8, <1>9, <3>2, <4>1, <4>2
    <3>3. CASE i = n + 1
      <4>1. ~(n + 1 < n + 1)
        BY <1>2
      <4> QED
        BY <1>3, <1>7, <1>8, <3>3, <4>1
    <3> QED
      BY <1>2, <3>1, <3>2, <3>3
  <2>2. \A i \in 1..n + 1 : RefsOf(At(i))' = RefsOf(At(i)')
    BY <1>6
  <2> QED
    BY <1>3, <2>1, <2>2 DEF FrameRefs
<1>14. AllNeeded'
  <2>1. target \in Elements /\ At(n) \in NeededBy(target)
    BY <1>1, <1>2, <1>9 DEF BuildInv, Outcomes, Elements, AllNeeded
  <2>2. r \in NeededBy(target)
    BY <1>9, <2>1, NeededFacts
  <2>3. \A i \in 1..n + 1 : At(i)' \in NeededBy(target)
    BY <1>1, <1>4, <1>8, <2>2 DEF AllNeeded
  <2> QED
    BY <1>2, <1>3, <1>5, <1>6, <2>3 DEF AllNeeded
<1>15. Chained'
  <2>1. ASSUME NEW i \in 1..n
        PROVE  SelfReferring \/ r \in ReachFrom(RefsOf(At(i)) \ {At(i)})
    <3>1. At(i) \in Builders /\ RefsOf(At(i)) \ {At(i)} \in SUBSET Elements
      BY <1>1, FrameTypes, RefsIn
    <3>2. CASE i = n /\ r # At(n)
      BY <1>9, <3>1, <3>2, ReachFacts
    <3>3. CASE i = n /\ r = At(n)
      <4>1. Content(stack[n].root) = Content(e)
        BY <1>7, <3>3 DEF At
      <4>2. PICK m \in Standalone : e = m \/ stack[n].root = m
        BY <1>7, <1>9, <4>1, SameContent
      <4>3. r = m
        BY <1>7, <4>1, <4>2, ContentFacts DEF Builders
      <4>4. At(n) \in NeededBy(target)
        BY <1>1, <1>9 DEF AllNeeded
      <4> QED
        BY <1>9, <3>3, <4>2, <4>3, <4>4 DEF SelfReferring
    <3>4. CASE i # n
      <4>1. i < n
        BY <1>2, <3>4
      <4>2. SelfReferring \/ At(n) \in ReachFrom(RefsOf(At(i)) \ {At(i)})
        BY <1>9, <4>1 DEF BuildInv, Chained
      <4>3. ASSUME At(n) \in ReachFrom(RefsOf(At(i)) \ {At(i)}), r # At(n)
            PROVE  r \in ReachFrom(RefsOf(At(i)) \ {At(i)})
        BY <1>9, <3>1, <4>3, ReachFacts
      <4> QED
        BY <4>2, <4>3
    <3> QED
      BY <3>2, <3>3, <3>4
  <2>2. ASSUME NEW i \in 1..n + 1, NEW j \in 1..n + 1, i < j
        PROVE  (SelfReferring \/ At(j)' \in ReachFrom(RefsOf(At(i)) \ {At(i)})) /\ i \in 1..n
    <3>1. i \in 1..n
      BY <1>2, <2>2
    <3>2. CASE j = n + 1
      BY <1>8, <2>1, <3>1, <3>2
    <3>3. CASE j \in 1..n
      BY <1>4, <2>2, <3>1, <3>3 DEF BuildInv, Chained
    <3> QED
      BY <1>4, <3>1, <3>2, <3>3
  <2>3. ASSUME NEW i \in 1..n
        PROVE  ReachFrom(RefsOf(At(i)) \ {At(i)})' = ReachFrom(RefsOf(At(i)) \ {At(i)})
    BY <1>4, <1>6
  <2>4. \A i, j \in 1..n + 1 :
          i < j => SelfReferring' \/ At(j)' \in ReachFrom(RefsOf(At(i)) \ {At(i)})'
    BY <1>6, <2>2, <2>3
  <2> QED
    BY <1>3, <2>4 DEF Chained
<1>16. TempsHaveReason'
  <2> SUFFICES ASSUME NEW x \in Temps,
                      x \in files \/ \E i \in 1..n + 1 : stack'[i].root = x
               PROVE  Circular \/ SelfReferring
    BY <1>3, <1>6 DEF TempsHaveReason
  <2>1. CASE x \in files \/ \E i \in 1..n : stack[i].root = x
    BY <2>1 DEF BuildInv, TempsHaveReason
  <2>2. CASE x = e
    <3>1. e # r
      BY <1>3, <2>2, ResolveAssumption
    <3>2. PICK i \in 1..n : stack[i].root = r /\ At(i) = r
      BY <1>10, <3>1
    <3> QED
      BY <1>7, <1>9, <3>1, <3>2, CircleReason
  <2> QED
    BY <1>3, <1>4, <2>1, <2>2
<1> QED
  BY <1>1, <1>5, <1>11, <1>12, <1>13, <1>14, <1>15, <1>16 DEF BuildInv

LEMMA RefusedBuild ==
  ASSUME BuildInv, [Next]_vars, Finish, ~Accepted
  PROVE  BuildInv'
<1>1. StackInv
  BY DEF BuildInv, Inv
<1>2. /\ outcome = "running" /\ Failed
      /\ refs' = refs /\ path' = path /\ target' = target
  BY <1>1, Finished
<1>3. Reason
  BY RefusedReason
<1> QED
  BY <1>2, <1>3, FailedBuild

\* The registry once a file is built.
LEMMA AcceptedFiles ==
  ASSUME BuildInv, Finish, Accepted
  PROVE  LET n == Len(stack)
             e == stack[n].root
             D == stack[n].deps
         IN /\ e \in Roots /\ e \notin files /\ e \notin D /\ D \subseteq Foreign \cup files
            /\ files' \cap Roots = (files \cap Roots) \cup {e}
            /\ \A g \in files \cap Roots : g # e /\ built'[g] = built[g]
            /\ \A f \in files \cup D : PathOf(f)' = PathOf(f)
            /\ \A f \in {e} : PathOf(f)' = UniquePath(e, D)
            /\ \A f \in files : f \in Roots => Content(f) # Content(e)
<1>1. StackInv /\ PathInv /\ Placed /\ FileRefs
  BY DEF BuildInv, Inv
<1>2. PICK n \in Nat \ {0} : n = Len(stack)
  BY <1>1, Finished
<1> USE <1>2
<1>3. PICK e, D : e = stack[n].root /\ D = stack[n].deps
  OBVIOUS
<1>4. n \in 1..n /\ Top = stack[n]
  BY <1>1, Finished
<1>5. e \in Roots /\ e \notin files /\ D \subseteq Foreign \cup files /\ e \notin Foreign
  BY <1>1, <1>3, <1>4, FrameTypes, ResolveAssumption DEF Placed, PathInv
<1>6. /\ files' = files \cup D \cup {e}
      /\ built'[e].path = UniquePath(e, D)
      /\ \A f \in DOMAIN built : f # e => built'[f] = built[f]
  BY <1>1, <1>3, FinishStep
<1>7. files' \cap Roots = (files \cap Roots) \cup {e}
  BY <1>5, <1>6, ResolveAssumption
<1>8. \A g \in files \cap Roots : g # e /\ built'[g] = built[g]
  BY <1>1, <1>5, <1>6 DEF FileRefs
<1>9. \A f \in files \cup D : PathOf(f)' = PathOf(f)
  <2>1. \A f \in files \cup D : f \in Foreign \/ f \in files \cap Roots
    BY <1>1, <1>5 DEF PathInv
  <2> QED
    BY <1>8, <2>1 DEF PathOf
<1>10. \A f \in {e} : PathOf(f)' = UniquePath(e, D)
  BY <1>5, <1>6 DEF PathOf
<1>11. \A f \in files : f \in Roots => Content(f) # Content(e)
  BY <1>3, <1>4 DEF Accepted, Refused, Registers
<1> QED
  BY <1>3, <1>5, <1>7, <1>8, <1>9, <1>10, <1>11

LEMMA AcceptedBuild ==
  ASSUME BuildInv, [Next]_vars, Finish, Accepted
  PROVE  BuildInv'
<1>1. /\ StackInv /\ PathInv /\ Placed /\ FrameRefs /\ FileRefs /\ FilesOrdered /\ AllNeeded
      /\ Named /\ Inv'
  BY PathStep DEF BuildInv, Inv
<1>n. PICK n \in Nat \ {0} : n = Len(stack)
  BY <1>1, Finished
<1> USE <1>n
<1>e. PICK e, D : e = stack[n].root /\ D = stack[n].deps
  OBVIOUS
<1>2. /\ outcome = "running" /\ stack[n].todo = {} /\ stack # <<>>
      /\ refs' = refs /\ path' = path /\ target' = target
      /\ n \in 1..n
  BY <1>1, Finished DEF StackInv
<1>3. /\ files' = files \cup D \cup {e}
      /\ DOMAIN built' = DOMAIN built \cup {e}
      /\ built'[e].path = UniquePath(e, D) /\ built'[e].imports = D
      /\ built'[e].names = NamesOf(D) \cup {UniquePath(e, D)}
      /\ parent' = IF e \in Standalone THEN [parent EXCEPT ![e] = NoFile] ELSE parent
      /\ n = 1 => outcome' = "built" /\ stack' = <<>>
      /\ n # 1 =>
           /\ outcome' = "running" /\ Len(stack') = n - 1
           /\ \A i \in 1..n - 2 : stack'[i] = stack[i]
           /\ stack'[n - 1].root = stack[n - 1].root
           /\ stack'[n - 1].todo = stack[n - 1].todo
           /\ stack'[n - 1].deps = stack[n - 1].deps \cup {e}
  BY <1>1, <1>e, FinishStep
<1>4. /\ e \in Roots /\ e \notin files /\ e \notin D /\ D \subseteq Foreign \cup files
      /\ files' \cap Roots = (files \cap Roots) \cup {e}
      /\ \A g \in files \cap Roots : g # e /\ built'[g] = built[g]
      /\ \A f \in files \cup D : PathOf(f)' = PathOf(f)
      /\ \A f \in {e} : PathOf(f)' = UniquePath(e, D)
      /\ \A f \in files : f \in Roots => Content(f) # Content(e)
  BY <1>e, AcceptedFiles
<1>5. Len(stack') = n - 1
  <2>1. CASE n = 1
    <3>1. stack' = <<>>
      BY <1>3, <2>1
    <3> QED
      BY <2>1, <3>1
  <2>2. CASE n # 1
    BY <1>3, <2>2
  <2> QED
    BY <2>1, <2>2
<1>6. \A i \in 1..n - 1 : i \in 1..n /\ i # n /\ stack'[i].root = stack[i].root /\ At(i)' = At(i)
  <2>1. \A i \in 1..n - 1 : i \in 1..n /\ i # n /\ n # 1 /\ (i = n - 1 \/ i \in 1..n - 2)
    OBVIOUS
  <2>2. \A i \in 1..n - 1 : stack'[i].root = stack[i].root
    BY <1>3, <2>1
  <2> QED
    BY <2>1, <2>2 DEF At
<1>7. /\ (Circular \/ SelfReferring)' <=> (Circular \/ SelfReferring)
      /\ SelfReferring' <=> SelfReferring
      /\ \A x : GivenPath(x)' = GivenPath(x)
      /\ \A b : RefsOf(b)' = RefsOf(b)
      /\ \A b : NeededBy(b)' = NeededBy(b)
      /\ \A s : ReachFrom(s)' = ReachFrom(s)
      /\ NeededBy(target)' = NeededBy(target)
  BY <1>2, SameReasons, SameGraph
<1>8. At(n) = Content(e) /\ At(n) \in Builders /\ Content(e) \in NeededBy(target)
  BY <1>1, <1>2, <1>e, FrameTypes DEF At, AllNeeded
<1>9. \A m \in Standalone : parent'[m] = IF m = e THEN NoFile ELSE parent[m]
  BY <1>1, <1>3 DEF StackInv
<1>10. /\ \A x \in D : Content(x) \in RefsOf(Content(e))
       /\ \A r \in RefsOf(Content(e)) \ {Content(e)} : \E x \in D : Content(x) = r
  BY <1>1, <1>2, <1>8, <1>e DEF FrameRefs
<1>11. Placed'
  <2>1. \A m \in Standalone : parent'[m] # NoFile => parent'[m] = Temp[m]
    BY <1>1, <1>9 DEF Placed
  <2>2. \A i \in 1..n - 1 : stack[i].root # e
    BY <1>1, <1>2, <1>6, <1>e DEF Placed
  <2>3. \A i \in 1..n - 1 : stack'[i].root \in Standalone => parent'[stack'[i].root] # NoFile
    BY <1>1, <1>6, <1>9, <2>2 DEF Placed
  <2>4. \A i, j \in 1..n - 1 : stack'[i].root = stack'[j].root => i = j
    BY <1>1, <1>6 DEF Placed
  <2>5. \A i \in 1..n - 1 : stack'[i].root \notin files'
    <3>1. \A i \in 1..n - 1 : stack[i].root \notin files /\ stack[i].root \notin Foreign
      BY <1>1, <1>6, FrameTypes, ResolveAssumption DEF Placed
    <3> QED
      BY <1>3, <1>4, <1>6, <2>2, <3>1
  <2>6. ASSUME NEW m \in Standalone, NEW j \in 1..n - 1, stack'[j].root = Temp[m]
        PROVE  \E i \in 1..j - 1 : stack'[i].root = m
    <3>1. PICK i \in 1..j - 1 : stack[i].root = m
      BY <1>1, <1>6, <2>6 DEF Placed
    <3>2. i \in 1..n - 1
      OBVIOUS
    <3> QED
      BY <1>6, <3>1, <3>2
  <2> QED
    BY <1>5, <2>1, <2>3, <2>4, <2>5, <2>6 DEF Placed
<1>12. Outcomes'
  <2>1. outcome # "failed" /\ target \in Builders /\ stack[1].root = target
    BY <1>2 DEF BuildInv, Outcomes
  <2>2. ASSUME NEW m \in Standalone, Temp[m] \in files'
        PROVE  \E i \in 1..n - 1 : stack'[i].root = m
    <3>1. Temp[m] \in Roots /\ Content(Temp[m]) = m /\ Content(m) = m /\ Temp[m] \notin Foreign
      BY ContentFacts, ResolveAssumption DEF Roots, Builders
    <3>2. CASE Temp[m] = e
      <4>1. PICK i \in 1..n - 1 : stack[i].root = m
        BY <1>1, <1>2, <1>e, <3>2 DEF Placed
      <4> QED
        BY <1>6, <4>1
    <3>3. CASE Temp[m] # e
      <4>1. Temp[m] \in files
        BY <1>3, <1>4, <2>2, <3>1, <3>3
      <4>2. PICK i \in 1..n : stack[i].root = m
        BY <2>1, <4>1 DEF BuildInv, Outcomes
      <4>3. i # n
        BY <1>4, <1>e, <3>1, <4>1, <4>2
      <4>4. i \in 1..n - 1
        BY <4>3
      <4> QED
        BY <1>6, <4>2, <4>4
    <3> QED
      BY <3>2, <3>3
  <2>3. CASE n = 1
    BY <1>2, <1>3, <1>5, <1>e, <2>1, <2>2, <2>3 DEF Outcomes
  <2>4. CASE n # 1
    <3>1. 1 \in 1..n - 1
      BY <2>4
    <3> QED
      BY <1>2, <1>3, <1>5, <1>6, <2>1, <2>2, <2>4, <3>1 DEF Outcomes
  <2> QED
    BY <2>3, <2>4
<1>13. FrameRefs'
  <2>1. ASSUME NEW i \in 1..n - 1
        PROVE  /\ stack'[i].todo \subseteq RefsOf(At(i))
               /\ \A x \in stack'[i].deps : Content(x) \in RefsOf(At(i))
               /\ i < n - 1 => At(i + 1)' \in RefsOf(At(i))
               /\ \A x \in RefsOf(At(i)) \ {At(i)} :
                    \/ x \in stack'[i].todo
                    \/ \E y \in stack'[i].deps : Content(y) = x
                    \/ i < n - 1 /\ At(i + 1)' = x
    <3>0. /\ stack[i].todo \subseteq RefsOf(At(i))
          /\ \A x \in stack[i].deps : Content(x) \in RefsOf(At(i))
          /\ At(i + 1) \in RefsOf(At(i))
          /\ \A x \in RefsOf(At(i)) \ {At(i)} :
               \/ x \in stack[i].todo
               \/ \E y \in stack[i].deps : Content(y) = x
               \/ At(i + 1) = x
      <4>1. i \in 1..n /\ i < n
        OBVIOUS
      <4> QED
        BY <1>1, <4>1 DEF FrameRefs
    <3>1. CASE i < n - 1
      <4>1. i \in 1..n - 2 /\ i + 1 \in 1..n - 1 /\ n # 1
        BY <3>1
      <4>2. stack'[i] = stack[i] /\ At(i + 1)' = At(i + 1)
        BY <1>3, <1>6, <4>1
      <4> QED
        BY <3>0, <3>1, <4>2
    <3>2. CASE i = n - 1
      <4>1. n # 1 /\ ~(i < n - 1) /\ i + 1 = n
        BY <3>2
      <4>2. At(i + 1) = Content(e)
        BY <1>8, <4>1
      <4>3. stack'[i].todo = stack[i].todo /\ stack'[i].deps = stack[i].deps \cup {e}
        BY <1>3, <3>2, <4>1
      <4> QED
        BY <3>0, <4>1, <4>2, <4>3
    <3> QED
      BY <3>1, <3>2
  <2>2. ASSUME NEW i \in 1..n - 1
        PROVE  RefsOf(At(i))' = RefsOf(At(i)) /\ At(i)' = At(i)
    BY <1>6, <1>7
  <2> QED
    BY <1>5, <2>1, <2>2 DEF FrameRefs
<1>14. FileRefs'
  <2> SUFFICES ASSUME NEW b \in (files \cap Roots) \cup {e}
               PROVE  /\ b \in DOMAIN built' /\ built'[b].imports \subseteq files'
                      /\ \A x \in built'[b].imports : Content(x) \in RefsOf(Content(b))
                      /\ \A r \in RefsOf(Content(b)) \ {Content(b)} :
                           \E x \in built'[b].imports : Content(x) = r
    BY <1>4, <1>7 DEF FileRefs
  <2>1. CASE b = e
    BY <1>3, <1>10, <2>1
  <2>2. CASE b \in files \cap Roots
    BY <1>1, <1>3, <1>4, <2>2 DEF FileRefs
  <2> QED
    BY <2>1, <2>2
<1>15. FilesOrdered'
  <2> SUFFICES ASSUME NEW S \in SUBSET ((files \cap Roots) \cup {e}), S # {}
               PROVE  \E x \in S : built'[x].imports \cap S = {}
    BY <1>4 DEF FilesOrdered
  <2>1. CASE S \ {e} = {}
    <3>1. S = {e}
      BY <2>1
    <3> QED
      BY <1>3, <1>4, <3>1
  <2>2. CASE S \ {e} # {}
    <3>1. PICK x \in S \ {e} : built[x].imports \cap (S \ {e}) = {}
      BY <1>1, <2>2 DEF FilesOrdered
    <3>2. x \in files \cap Roots /\ built'[x].imports = built[x].imports
      BY <1>4, <3>1
    <3>3. e \notin built[x].imports
      BY <1>1, <1>4, <3>2 DEF FileRefs
    <3> QED
      BY <3>1, <3>2, <3>3
  <2> QED
    BY <2>1, <2>2
<1>16. AllNeeded'
  <2>1. target \in Elements
    BY <1>2 DEF BuildInv, Outcomes, Elements
  <2>2. RefsOf(Content(e)) \subseteq NeededBy(target)
    BY <1>8, <2>1, NeededFacts
  <2>3. \A i \in 1..n - 1 : At(i)' \in NeededBy(target)
    BY <1>1, <1>6 DEF AllNeeded
  <2>4. \A f \in files' : Content(f) \in NeededBy(target)
    BY <1>1, <1>3, <1>8, <1>10, <2>2 DEF AllNeeded
  <2> QED
    BY <1>5, <1>7, <2>3, <2>4 DEF AllNeeded
<1>17. Chained'
  <2>1. \A i, j \in 1..n - 1 :
          i < j => SelfReferring' \/ At(j)' \in ReachFrom(RefsOf(At(i)) \ {At(i)})'
    BY <1>6, <1>7 DEF BuildInv, Chained
  <2> QED
    BY <1>5, <2>1 DEF Chained
<1>18. TempsHaveReason'
  <2> SUFFICES ASSUME NEW x \in Temps,
                      x \in files' \/ \E i \in 1..n - 1 : stack'[i].root = x
               PROVE  Circular \/ SelfReferring
    BY <1>5, <1>7 DEF TempsHaveReason
  <2>1. x \notin Foreign
    BY ResolveAssumption DEF Roots
  <2>2. x \in files \/ \E i \in 1..n : stack[i].root = x
    <3>1. CASE x \in files'
      <4>1. x \in files \/ x = e
        BY <1>3, <1>4, <2>1, <3>1
      <4> QED
        BY <1>2, <1>e, <4>1
    <3>2. CASE \E i \in 1..n - 1 : stack'[i].root = x
      BY <1>6, <3>2
    <3> QED
      BY <3>1, <3>2
  <2> QED
    BY <2>2 DEF BuildInv, TempsHaveReason
<1>19. Named'
  <2>1. IsFiniteSet(NamesOf(D)) /\ \E k \in Nat : UniquePath(e, D) = <<GivenPath(e), k>>
    BY <1>1, <1>4, NamesFacts, UniqueFacts DEF PathInv
  <2>2. IsFiniteSet(NamesOf(D) \cup {UniquePath(e, D)})
    BY <2>1, FS_AddElement
  <2>3. ASSUME NEW z \in NeededBy(Content(e)) \cap (Files \cup Foreign)
        PROVE  z \in files' /\ PathOf(z)' \in built'[e].names
    <3>1. z = e \/ (z \in files \cup D /\ PathOf(z) \in NamesOf(D))
      BY <1>2, <1>8, <1>e, NeededNames
    <3> QED
      BY <1>3, <1>4, <3>1
  <2>4. ASSUME NEW g \in (files \cap Roots) \cup {e}
        PROVE  /\ IsFiniteSet(built'[g].names) /\ PathOf(g)' \in built'[g].names
               /\ \E k \in Nat : PathOf(g)' = <<GivenPath(g), k>>
               /\ \A z \in NeededBy(Content(g)) \cap (Files \cup Foreign) :
                    z \in files' /\ PathOf(z)' \in built'[g].names
    <3>1. CASE g = e
      BY <1>3, <1>4, <2>1, <2>2, <2>3, <3>1
    <3>2. CASE g \in files \cap Roots
      <4>1. built'[g] = built[g] /\ PathOf(g)' = PathOf(g)
        BY <1>4, <3>2
      <4>2. /\ IsFiniteSet(built[g].names) /\ PathOf(g) \in built[g].names
            /\ \E k \in Nat : PathOf(g) = <<GivenPath(g), k>>
            /\ \A z \in NeededBy(Content(g)) \cap (Files \cup Foreign) :
                 z \in files /\ PathOf(z) \in built[g].names
        BY <1>1, <3>2 DEF Named
      <4> QED
        BY <1>3, <1>4, <4>1, <4>2
    <3> QED
      BY <3>1, <3>2
  <2> QED
    BY <1>4, <1>7, <2>4 DEF Named
<1>20. path' \in [Files -> Paths \cup {NoPath}]
  BY <1>2 DEF BuildInv
<1> QED
  BY <1>1, <1>11, <1>12, <1>13, <1>14, <1>15, <1>16, <1>17, <1>18, <1>19, <1>20 DEF BuildInv

LEMMA FreshBuild ==
  ASSUME BuildInv, [Next]_vars, NEW b \in Builders, Build(b)
  PROVE  BuildInv'
<1>1. StackInv /\ Inv' /\ b \in Roots
  BY PathStep DEF BuildInv, Inv, Roots
<1>2. /\ outcome' = "running" /\ target' = b /\ stack' = <<Frame(b)>> /\ parent' = Adopted(b)
      /\ files' = {} /\ refs' = refs /\ path' = path /\ stack = <<>>
  BY <1>1 DEF Build, StackInv
<1>3. /\ Len(stack') = 1 /\ stack'[1].root = b /\ stack'[1].todo = RefsOf(b)
      /\ stack'[1].deps = {} /\ Content(b) = b
  <2>1. Content(b) = b
    BY ContentFacts
  <2>2. \E x \in Frames : stack' = <<x>> /\ x.root = b /\ x.deps = {} /\ x.todo = RefsOf(b)
    BY <1>1, <1>2, <2>1, FrameFacts DEF Frame
  <2> QED
    BY <2>1, <2>2, SingletonFacts
<1>4. /\ \A x : RefsOf(x)' = RefsOf(x)
      /\ \A x : NeededBy(x)' = NeededBy(x)
  BY <1>2, SameGraph
<1>5. \A i, j \in 1..1 : i = 1 /\ i = j /\ ~(i < j)
  OBVIOUS
<1>6. \A m \in Standalone : parent'[m] = IF m = b THEN Temp[m] ELSE NoFile
  <2>1. \A m \in Standalone : parent[m] = NoFile
    BY <1>1, <1>2 DEF StackInv
  <2> QED
    BY <1>1, <1>2, <2>1 DEF Adopted, StackInv
<1>7. At(1)' = b
  BY <1>3 DEF At
<1>8. Placed'
  <2>1. \A m \in Standalone : Temp[m] # NoFile /\ Temp[m] # b
    BY ResolveAssumption DEF Roots
  <2> QED
    BY <1>2, <1>3, <1>5, <1>6, <2>1 DEF Placed
<1>9. Outcomes'
  BY <1>2, <1>3 DEF Outcomes
<1>10. FrameRefs'
  <2>1. RefsOf(At(1))' = RefsOf(b)
    BY <1>4, <1>7
  <2> QED
    BY <1>3, <1>5, <1>7, <2>1 DEF FrameRefs
<1>11. FileRefs' /\ FilesOrdered' /\ Named'
  <2>1. files' \cap Roots = {}
    BY <1>2
  <2> QED
    BY <2>1 DEF FileRefs, FilesOrdered, Named
<1>12. AllNeeded'
  <2>1. b \in NeededBy(b)
    BY NeededFacts DEF Elements
  <2>2. NeededBy(target)' = NeededBy(b)
    BY <1>2, <1>4
  <2> QED
    BY <1>2, <1>3, <1>5, <1>7, <2>1, <2>2 DEF AllNeeded
<1>13. Chained'
  BY <1>3, <1>5 DEF Chained
<1>14. TempsHaveReason'
  <2>1. \A x \in Temps : x # b
    BY ResolveAssumption
  <2> QED
    BY <1>2, <1>3, <1>5, <2>1 DEF TempsHaveReason
<1>15. path' \in [Files -> Paths \cup {NoPath}]
  BY <1>2 DEF BuildInv
<1> QED
  BY <1>1, <1>8, <1>9, <1>10, <1>11, <1>12, <1>13, <1>14, <1>15 DEF BuildInv

LEMMA BuildInit == Init => BuildInv
<1> SUFFICES ASSUME Init
             PROVE  BuildInv
  OBVIOUS
<1>1. Len(stack) = 0 /\ 1..Len(stack) = {} /\ files = {} /\ outcome = "idle"
      /\ \A m \in Standalone : parent[m] = NoFile
  BY DEF Init
<1>2. Inv
  BY StackInit DEF Init, Inv, PathInv
<1>3. path \in [Files -> Paths \cup {NoPath}]
  BY DEF Init
<1>4. Placed /\ Outcomes /\ FrameRefs /\ AllNeeded /\ Chained /\ TempsHaveReason
  BY <1>1 DEF Placed, Outcomes, FrameRefs, AllNeeded, Chained, TempsHaveReason
<1>5. FileRefs /\ FilesOrdered /\ Named
  BY <1>1 DEF FileRefs, FilesOrdered, Named
<1> QED
  BY <1>2, <1>3, <1>4, <1>5 DEF BuildInv

LEMMA BuildInvStep == BuildInv /\ [Next]_vars => BuildInv'
<1> SUFFICES ASSUME BuildInv, [Next]_vars
             PROVE  BuildInv'
  OBVIOUS
<1>1. ASSUME NEW b \in Builders, Build(b)
      PROVE  BuildInv'
  BY <1>1, FreshBuild
<1>2. ASSUME NEW r \in Elements, Follow(r)
      PROVE  BuildInv'
  BY <1>2, KnownBuild, CircleBuild, PushBuild
<1>3. CASE Finish
  BY <1>3, AcceptedBuild, RefusedBuild
<1>4. CASE UNCHANGED vars
  <2>1. /\ refs' = refs /\ path' = path /\ target' = target /\ files' = files /\ built' = built
        /\ stack' = stack /\ parent' = parent /\ outcome' = outcome
    BY <1>4 DEF vars
  <2>2. Inv'
    BY PathStep DEF BuildInv
  <2>3. /\ path' \in [Files -> Paths \cup {NoPath}]
        /\ FileRefs' /\ FilesOrdered' /\ Named'
        /\ \A f \in files' : Content(f) \in NeededBy(target)'
    BY <2>1, SameFiles
  <2>4. /\ (Circular \/ SelfReferring)' <=> (Circular \/ SelfReferring)
        /\ SelfReferring' <=> SelfReferring
        /\ Reason' <=> Reason
        /\ \A b : RefsOf(b)' = RefsOf(b)
        /\ \A b : NeededBy(b)' = NeededBy(b)
        /\ \A s : ReachFrom(s)' = ReachFrom(s)
    BY <2>1, SameReasons, SameGraph
  <2>5. \A i : At(i)' = At(i)
    BY <2>1 DEF At
  <2>6. Placed'
    BY <2>1 DEF BuildInv, Placed
  <2>7. Outcomes'
    BY <2>1, <2>4 DEF BuildInv, Outcomes
  <2>8. FrameRefs'
    BY <2>1, <2>4, <2>5 DEF BuildInv, FrameRefs
  <2>9. AllNeeded'
    BY <2>1, <2>3, <2>4, <2>5 DEF BuildInv, AllNeeded
  <2>10. Chained'
    BY <2>1, <2>4, <2>5 DEF BuildInv, Chained
  <2>11. TempsHaveReason'
    BY <2>1, <2>4 DEF BuildInv, TempsHaveReason
  <2> QED
    BY <2>2, <2>3, <2>6, <2>7, <2>8, <2>9, <2>10, <2>11 DEF BuildInv
<1> QED
  BY <1>1, <1>2, <1>3, <1>4 DEF Next, Elements

\* The references are among those there may be.
RefsMayBe == refs \subseteq MayRefer

\* A Build fails only for a circle, for two files of one path or name, or for a builder
\* of which no file can be made (FailuresHaveReason), as long as no standalone builder
\* refers to itself.
THEOREM FailuresAreJustified ==
  ASSUME NoSelfReference
  PROVE  Spec => []FailuresHaveReason
<1>1. Init => RefsMayBe
  BY DEF Init, RefsMayBe
<1>2. RefsMayBe /\ [Next]_vars => RefsMayBe'
  BY DEF RefsMayBe, Next, vars, Build, Follow, Finish
<1>3. BuildInv /\ RefsMayBe => FailuresHaveReason
  <2>1. RefsMayBe => ~SelfReferring
    BY DEF RefsMayBe, SelfReferring, NoSelfReference, RefsOf
  <2> QED
    BY <2>1 DEF BuildInv, Outcomes, Reason, FailuresHaveReason
<1> QED
  BY <1>1, <1>2, <1>3, BuildInit, BuildInvStep, PTL DEF Spec

\* No two files of the registry declare one name.
NamesDiffer == \A f, g \in files : f # g => ~Conflict(f, g)

LEMMA NamesStep == NamesDiffer /\ [Next]_vars => NamesDiffer'
<1> SUFFICES ASSUME NamesDiffer, [Next]_vars
             PROVE  NamesDiffer'
  OBVIOUS
<1>1. CASE files' = files
  BY <1>1 DEF NamesDiffer, Conflict
<1>2. CASE files' = {}
  BY <1>2 DEF NamesDiffer
<1>3. ASSUME Finish, files' # files
      PROVE  NamesDiffer'
  <2> DEFINE e == Top.root
             D == Top.deps
  <2>1. files' = files \cup D \cup {e} /\ ~Refused(e, D)
    BY <1>3 DEF Finish, Failed
  <2>2. /\ \A f \in D, g \in D \cup files : f # g => ~Conflict(f, g)
        /\ \A f \in files \cup D : ~Conflict(f, e)
    BY <2>1 DEF Refused, ImportsConflict, Registers
  <2>3. \A f, g : Conflict(f, g) <=> Conflict(g, f)
    <3>1. \A x, y : {x, y} = {y, x}
      OBVIOUS
    <3> QED
      BY <3>1 DEF Conflict
  <2> HIDE DEF e, D
  <2> QED
    BY <2>1, <2>2, <2>3 DEF NamesDiffer, Conflict
<1> QED
  BY <1>1, <1>2, <1>3 DEF Next, vars, Build, Follow, Failed

LEMMA CompleteWhenBuilt == BuildInv /\ NamesDiffer => BuiltIsComplete
<1> SUFFICES ASSUME BuildInv, NamesDiffer, outcome = "built"
             PROVE  /\ files = NeededBy(target)
                    /\ \A b \in files \cap Builders :
                         /\ built[b].imports = RefsOf(b) \ {b}
                         /\ ~Cyclic(b)
                    /\ \A f, g \in files : PathOf(f) = PathOf(g) \/ {f, g} \in SameName => f = g
  BY DEF BuiltIsComplete
<1>1. /\ StackInv /\ PathInv /\ Outcomes /\ FileRefs /\ FilesOrdered /\ AllNeeded
  BY DEF BuildInv, Inv
<1>2. stack = <<>> /\ target \in files /\ target \in Builders
  BY <1>1 DEF StackInv, Outcomes
<1>3. \A e \in Temps : e \notin files
  <2> SUFFICES ASSUME NEW e \in Temps, e \in files
               PROVE  FALSE
    OBVIOUS
  <2>1. PICK m \in Standalone : Temp[m] = e
    BY ResolveAssumption
  <2> QED
    BY <1>1, <1>2, <2>1 DEF Outcomes
<1>4. /\ files \subseteq Elements /\ files \cap Builders = files \cap Roots
      /\ \A f \in files : Content(f) = f
  BY <1>1, <1>3, ContentFacts DEF PathInv, Roots, Elements
<1>5. \A b \in files \cap Builders :
        /\ built[b].imports \subseteq files
        /\ \A d \in built[b].imports : d \in RefsOf(b)
        /\ \A r \in RefsOf(b) \ {b} : r \in built[b].imports
  BY <1>1, <1>4 DEF FileRefs
<1>6. \A b \in files \cap Builders : b \notin built[b].imports
  <2> SUFFICES ASSUME NEW b \in files \cap Builders
               PROVE  b \notin built[b].imports
    OBVIOUS
  <2>1. {b} \in SUBSET (files \cap Roots)
    BY <1>4
  <2> QED
    BY <1>1, <2>1 DEF FilesOrdered
<1>7. \A b \in files \cap Builders : built[b].imports = RefsOf(b) \ {b}
  BY <1>5, <1>6
<1>8. files = NeededBy(target)
  <2>1. NeededBy(target) \subseteq files
    <3>1. {target} \subseteq files /\ \A b \in files \cap Builders : RefsOf(b) \ {b} \subseteq files
      BY <1>2, <1>5
    <3> QED
      BY <1>4, <3>1, ReachLeast DEF NeededBy
  <2>2. files \subseteq NeededBy(target)
    BY <1>1, <1>4 DEF AllNeeded
  <2> QED
    BY <2>1, <2>2
<1>9. ASSUME NEW b \in files \cap Builders, Cyclic(b)
      PROVE  FALSE
  <2> DEFINE S == {x \in files \cap Roots : b \in ReachFrom(RefsOf(x) \ {x})}
  <2>1. S \in SUBSET (files \cap Roots) /\ b \in S
    BY <1>4, <1>9 DEF Cyclic
  <2>2. PICK x \in S : built[x].imports \cap S = {}
    BY <1>1, <2>1 DEF FilesOrdered
  <2>3. /\ x \in files \cap Builders /\ built[x].imports = RefsOf(x) \ {x}
        /\ RefsOf(x) \ {x} \in SUBSET Elements /\ b \in ReachFrom(RefsOf(x) \ {x})
    BY <1>4, <1>7, RefsIn
  <2>4. b \in RefsOf(x) \ {x} \/ \E y \in (RefsOf(x) \ {x}) \cap Builders : b \in ReachFrom(RefsOf(y) \ {y})
    BY <2>3, ReachSplit
  <2>5. \E y \in RefsOf(x) \ {x} : y \in S
    BY <1>4, <1>5, <2>1, <2>3, <2>4
  <2> QED
    BY <2>2, <2>3, <2>5
<1>10. \A f, g \in files : {f, g} \in SameName => f = g
  BY <1>4 DEF NamesDiffer, Conflict
<1> QED
  BY <1>1, <1>7, <1>8, <1>9, <1>10 DEF PathInv

\* A Build that succeeds has built all that its target needs and nothing else, each file
\* imports exactly what it refers to, no file is in a circle, and no two have one path or
\* declare one name (BuiltIsComplete).
THEOREM BuildsAreComplete == Spec => []BuiltIsComplete
<1>1. Init => NamesDiffer
  BY DEF Init, NamesDiffer
<1> QED
  BY <1>1, NamesStep, BuildInit, BuildInvStep, CompleteWhenBuilt, PTL DEF Spec
=============================================================================
