------------------------- MODULE ReflectCacheProofs -------------------------
(***************************************************************************)
(* Proofs about ReflectCache, for every import graph, every conforming     *)
(* server, every fallback resolver and any number of callers: typing, the  *)
(* rightness of answers and of failures, the completeness of registered    *)
(* descriptors, and the safety part of the refinement of FileLookup.       *)
(***************************************************************************)
EXTENDS ReflectCache, SequenceTheorems, TLAPS

-----------------------------------------------------------------------------
(* What can be had. *)

LEMMA ServedFiles == Served \subseteq Files
BY DEF Served

LEMMA RequiredFiles ==
  ASSUME NEW f \in Files
  PROVE  /\ Range(Imports[f]) \subseteq Files
         /\ Needs[f] \subseteq Range(Imports[f])
         /\ Required[f] = IF AllowMissing THEN Needs[f] ELSE Range(Imports[f])
         /\ Required[f] \subseteq Range(Imports[f])
<1>1. Imports[f] \in Seq(Files)
  BY CacheAssumption
<1>2. Range(Imports[f]) \subseteq Files
  BY <1>1 DEF Range
<1>3. Needs[f] \subseteq Range(Imports[f])
  BY CacheAssumption
<1> QED
  BY <1>2, <1>3 DEF Required

\* What is available has a reason to be.
LEMMA AvailableReason ==
  ASSUME NEW f \in Available
  PROVE  /\ f \in Files
         /\ \/ f \in Served /\ Required[f] \subseteq Available
            \/ f \notin Served /\ f \in Fallback
<1>1. PICK S \in SUBSET Files : Justified(S) /\ f \in S
  BY DEF Available
<1>2. S \subseteq Available
  BY <1>1 DEF Available
<1> QED
  BY <1>1, <1>2 DEF Justified

\* What has a reason to be available is.
LEMMA AvailableIf ==
  ASSUME NEW f \in Files,
         \/ f \in Served /\ Required[f] \subseteq Available
         \/ f \notin Served /\ f \in Fallback
  PROVE  f \in Available
<1> DEFINE S == Available \cup {f}
<1>1. S \subseteq Files
  BY AvailableReason
<1>2. Justified(S)
  <2>1. ASSUME NEW g \in S
        PROVE  \/ g \in Served /\ Required[g] \subseteq S
               \/ g \notin Served /\ g \in Fallback
    BY AvailableReason
  <2> QED
    BY <2>1 DEF Justified
<1>3. S \in {T \in SUBSET Files : Justified(T)}
  BY <1>1, <1>2
<1> QED
  BY <1>3 DEF Available

-----------------------------------------------------------------------------
(* Sequences of files. *)

LEMMA RangeOf ==
  ASSUME NEW S, NEW a \in Seq(S), a # <<>>
  PROVE  /\ Head(a) \in S /\ Tail(a) \in Seq(S)
         /\ Head(a) \in Range(a)
         /\ Range(a) = {Head(a)} \cup Range(Tail(a))
<1>1. /\ Len(a) \in Nat /\ Len(a) >= 1 /\ Head(a) = a[1] /\ DOMAIN a = 1..Len(a)
      /\ Tail(a) \in Seq(S) /\ DOMAIN Tail(a) = 1..(Len(a) - 1)
      /\ \A i \in 1..(Len(a) - 1) : Tail(a)[i] = a[i+1]
  OBVIOUS
<1>2. ASSUME NEW i \in 1..Len(a) PROVE a[i] \in {Head(a)} \cup Range(Tail(a))
  <2>1. CASE i = 1
    BY <1>1, <2>1
  <2>2. CASE i # 1
    <3>1. i - 1 \in 1..(Len(a) - 1) /\ Tail(a)[i - 1] = a[i]
      BY <1>1, <2>2
    <3> QED
      BY <1>1, <3>1 DEF Range
  <2> QED
    BY <2>1, <2>2
<1>3. ASSUME NEW i \in 1..(Len(a) - 1) PROVE Tail(a)[i] \in Range(a)
  BY <1>1, <1>3 DEF Range
<1>4. Head(a) \in Range(a)
  BY <1>1 DEF Range
<1>5. Range(a) \subseteq {Head(a)} \cup Range(Tail(a))
  BY <1>1, <1>2 DEF Range
<1>6. Range(Tail(a)) \subseteq Range(a)
  BY <1>1, <1>3 DEF Range
<1>7. Head(a) \in S
  BY <1>1
<1> QED
  BY <1>1, <1>4, <1>5, <1>6, <1>7

LEMMA RangeEmpty == Range(<<>>) = {}
BY DEF Range

LEMMA ReadableOne ==
  ASSUME NEW f \in Files
  PROVE  Readable(f, <<f>>) /\ Range(<<f>>) = {f} /\ <<f>> \in Seq(Files)
BY DEF Readable, Range

LEMMA ReadableHead ==
  ASSUME NEW f \in Files, NEW a \in Seq(Files), a # <<>>, Readable(f, a)
  PROVE  Head(a) = f \/ Head(a) \in Available
<1>1. 1 \in DOMAIN a /\ Head(a) = a[1] /\ \A j \in 1..1 : j = 1
  OBVIOUS
<1> QED
  BY <1>1 DEF Readable

LEMMA ReadableTail ==
  ASSUME NEW f \in Files, NEW a \in Seq(Files), a # <<>>, Readable(f, a),
         Head(a) # f
  PROVE  Readable(f, Tail(a))
<1>1. /\ Len(a) \in Nat /\ Len(a) >= 1 /\ Head(a) = a[1] /\ DOMAIN a = 1..Len(a)
      /\ DOMAIN Tail(a) = 1..(Len(a) - 1)
      /\ \A i \in 1..(Len(a) - 1) : Tail(a)[i] = a[i+1]
  OBVIOUS
<1>2. ASSUME NEW i \in 1..(Len(a) - 1), \A j \in 1..i : Tail(a)[j] # f
      PROVE  Tail(a)[i] \in Available
  <2>1. i + 1 \in DOMAIN a
    BY <1>1
  <2>2. ASSUME NEW j \in 1..(i+1) PROVE a[j] # f
    <3>1. CASE j = 1
      BY <1>1, <3>1
    <3>2. CASE j # 1
      <4>1. j - 1 \in 1..i /\ j - 1 \in 1..(Len(a) - 1) /\ (j - 1) + 1 = j
        BY <1>1, <3>2
      <4>2. Tail(a)[j - 1] = a[j]
        BY <1>1, <4>1
      <4> QED
        BY <1>2, <4>1, <4>2
    <3> QED
      BY <3>1, <3>2
  <2>3. a[i+1] \in Available
    BY <2>1, <2>2 DEF Readable
  <2> QED
    BY <1>1, <2>3
<1> QED
  BY <1>1, <1>2 DEF Readable

-----------------------------------------------------------------------------
(* The inductive invariant.  Its parts take the registry L and the callers D  *)
(* that met a failure as arguments, so that they can be said of the next state *)
(* as of this one.                                                            *)

\* An import that NewFile will resolve.
Usable(g, L) == g \in Available /\ g \in L \cup Fallback

\* Each import of the file in hand has been given up, is still to be looked up,
\* or will be resolved.
ImportsOK(fr, L) ==
  /\ Range(fr.deps) \subseteq Range(Imports[Head(fr.fds)])
  /\ fr.missing \subseteq Range(Imports[Head(fr.fds)])
  /\ \A g \in fr.missing : AllowMissing /\ g \notin Available
  /\ \A g \in Range(Imports[Head(fr.fds)]) :
       g \in fr.missing \/ g \in Range(fr.deps) \/ Usable(g, L)

FrameOK(t, fr, L, D) ==
  /\ Range(fr.todo) \subseteq Served
  /\ Range(fr.fds) \subseteq Served
  /\ fr.step \in {"store", "build", "await", "built"} =>
       /\ Readable(fr.path, fr.fds)
       /\ fr.path \in Served => fr.path \in Range(fr.fds)
  /\ fr.step \in {"build", "await", "built"} => fr.fds # <<>>
  /\ fr.step \in {"build", "await"} => ImportsOK(fr, L)
  /\ fr.step = "await" => fr.deps # <<>>
  /\ fr.step = "built" => Head(fr.fds) \in L
  /\ fr.step = "miss" => fr.path \notin Served
  /\ fr.step = "fail" => /\ fr.err = "notFound" => fr.path \notin Available
                         /\ fr.err = "failed" => t \in D
  /\ fr.step = "reread" => fr.kind = "resolve"

Good(t, L, D) == {fr \in Frames : FrameOK(t, fr, L, D)}

\* Each activation but the last was called for the next import of the one below
\* it, and the last one is the query's.
Linked(s, q) ==
  /\ \A i \in 1..Len(s) : i < Len(s) =>
       /\ s[i].kind = "file"
       /\ s[i+1].step = "await"
       /\ Head(s[i+1].deps) = s[i].path
  /\ s # <<>> => s[Len(s)].kind = q.kind /\ s[Len(s)].path = q.path

\* What a query may return.
AnswerOK(t, q, r, D) ==
  /\ r = "failed" => t \in D
  /\ q.kind # "resolve" => /\ r = "notFound" => q.path \notin Available
                           /\ r = "ok" => q.path \in Available

CallerOK(t, s, q, r, L, D) ==
  /\ s \in Seq(Good(t, L, D))
  /\ Linked(s, q)
  /\ r = "pending" <=> s # <<>>
  /\ AnswerOK(t, q, r, D)

CacheOK ==
  /\ protosByName \subseteq Served
  /\ loaded \subseteq Served
  /\ loaded \subseteq Available
  /\ kept \in [Files -> SUBSET Files]
  /\ RegistryIsComplete

IInv ==
  /\ TypeOK
  /\ CacheOK
  /\ \A t \in Callers :
       CallerOK(t, stack[t], query[t], result[t], loaded, disturbed)

\* What an activation may return.
Right(t, fr, o, L, D) ==
  /\ o = "ok" => /\ fr.path \in Available
                 /\ fr.path \in IF fr.kind = "resolve" THEN L ELSE L \cup Fallback
  /\ o = "notFound" => IF fr.kind = "resolve" THEN fr.path \notin L
                       ELSE fr.path \notin Available
  /\ o = "failed" => t \in D

-----------------------------------------------------------------------------
(* Stacks. *)

LEMMA SeqMono ==
  ASSUME NEW S, NEW T, S \subseteq T, NEW s \in Seq(S)
  PROVE  s \in Seq(T)
OBVIOUS

\* The top of a stack, and what is below it.
LEMMA StackOf ==
  ASSUME NEW S, NEW s \in Seq(S), s # <<>>
  PROVE  /\ Head(s) \in S /\ Tail(s) \in Seq(S)
         /\ Len(s) \in Nat /\ Len(s) >= 1 /\ Head(s) = s[1]
         /\ Len(Tail(s)) = Len(s) - 1
         /\ Tail(s) = <<>> <=> Len(s) = 1
         /\ \A i \in 1..(Len(s) - 1) : Tail(s)[i] = s[i+1]
<1>1. /\ Head(s) \in S /\ Tail(s) \in Seq(S)
      /\ Len(s) \in Nat /\ Len(s) >= 1 /\ Head(s) = s[1]
      /\ Len(Tail(s)) = Len(s) - 1
      /\ \A i \in 1..(Len(s) - 1) : Tail(s)[i] = s[i+1]
  OBVIOUS
<1>2. ASSUME NEW n \in Seq(S) PROVE n = <<>> <=> Len(n) = 0
  OBVIOUS
<1>3. Tail(s) = <<>> <=> Len(Tail(s)) = 0
  BY <1>1, <1>2
<1> QED
  BY <1>1, <1>3

LEMMA Pushed ==
  ASSUME NEW S, NEW a \in Seq(S), NEW x \in S
  PROVE  LET s == <<x>> \o a
         IN /\ s \in Seq(S) /\ s # <<>> /\ Len(s) = Len(a) + 1
            /\ s[1] = x /\ Head(s) = x /\ Tail(s) = a
            /\ \A i \in 2..(Len(a) + 1) : s[i] = a[i-1]
OBVIOUS

LEMMA PushedTwo ==
  ASSUME NEW S, NEW a \in Seq(S), NEW x \in S, NEW y \in S
  PROVE  <<x, y>> \o a = <<x>> \o (<<y>> \o a)
<1>1. <<x, y>> = <<x>> \o <<y>>
  <2>1. /\ <<x, y>> \in Seq(S) /\ Len(<<x, y>>) = 2
        /\ <<x, y>>[1] = x /\ <<x, y>>[2] = y
    OBVIOUS
  <2>2. <<x>> \o <<y>> \in Seq(S) /\ Len(<<x>> \o <<y>>) = 2
    OBVIOUS
  <2>3. (<<x>> \o <<y>>)[1] = x /\ (<<x>> \o <<y>>)[2] = y
    OBVIOUS
  <2>4. ASSUME NEW i \in 1..2 PROVE <<x, y>>[i] = (<<x>> \o <<y>>)[i]
    <3>1. i = 1 \/ i = 2
      OBVIOUS
    <3> QED
      BY <2>1, <2>3, <3>1
  <2> QED
    BY <2>1, <2>2, <2>4, SeqEqual
<1>2. <<x>> \in Seq(S) /\ <<y>> \in Seq(S)
  OBVIOUS
<1> QED
  BY <1>1, <1>2, ConcatAssociative

LEMMA LinkTop ==
  ASSUME NEW S, NEW s \in Seq(S), s # <<>>, NEW q, NEW x \in S, Linked(s, q),
         x.kind = Head(s).kind, x.path = Head(s).path
  PROVE  Linked(<<x>> \o Tail(s), q)
<1> DEFINE n == <<x>> \o Tail(s)
<1>1. Tail(s) \in Seq(S) /\ Len(s) \in Nat /\ Len(s) >= 1 /\ Head(s) = s[1]
      /\ Len(Tail(s)) = Len(s) - 1
      /\ \A i \in 1..(Len(s) - 1) : Tail(s)[i] = s[i+1]
  BY StackOf
<1>2. /\ Len(n) = Len(s) /\ n[1] = x /\ n # <<>>
      /\ \A i \in 2..Len(s) : n[i] = Tail(s)[i-1]
  BY <1>1, Pushed
<1>3. ASSUME NEW i \in 2..Len(s) PROVE n[i] = s[i]
  <2>1. i - 1 \in 1..(Len(s) - 1) /\ (i - 1) + 1 = i
    BY <1>1
  <2> QED
    BY <1>1, <1>2, <2>1
<1>4. ASSUME NEW i \in 1..Len(s)
      PROVE  /\ n[i].kind = s[i].kind /\ n[i].path = s[i].path
             /\ i > 1 => n[i] = s[i]
  BY <1>1, <1>2, <1>3, <1>4
<1>5. ASSUME NEW i \in 1..Len(n), i < Len(n)
      PROVE  /\ n[i].kind = "file" /\ n[i+1].step = "await"
             /\ Head(n[i+1].deps) = n[i].path
  <2>1. i \in 1..Len(s) /\ i + 1 \in 1..Len(s) /\ i + 1 > 1 /\ i < Len(s)
    BY <1>1, <1>2, <1>5
  <2>2. n[i+1] = s[i+1] /\ n[i].kind = s[i].kind /\ n[i].path = s[i].path
    BY <1>4, <2>1
  <2> QED
    BY <2>1, <2>2 DEF Linked
<1>6. n[Len(n)].kind = q.kind /\ n[Len(n)].path = q.path
  <2>1. Len(s) \in 1..Len(s)
    BY <1>1
  <2>2. s[Len(s)].kind = q.kind /\ s[Len(s)].path = q.path
    BY DEF Linked
  <2> QED
    BY <1>2, <1>4, <2>1, <2>2
<1> HIDE DEF n
<1>7. Linked(n, q)
  BY <1>5, <1>6 DEF Linked
<1> QED
  BY <1>7 DEF n

LEMMA LinkPush ==
  ASSUME NEW S, NEW s \in Seq(S), s # <<>>, NEW q, NEW x \in S, Linked(s, q),
         x.kind = "file", Head(s).step = "await", Head(Head(s).deps) = x.path
  PROVE  Linked(<<x>> \o s, q)
<1> DEFINE n == <<x>> \o s
<1>1. Len(s) \in Nat /\ Len(s) >= 1 /\ Head(s) = s[1]
  BY StackOf
<1>2. /\ Len(n) = Len(s) + 1 /\ n[1] = x /\ n # <<>>
      /\ \A i \in 2..(Len(s) + 1) : n[i] = s[i-1]
  BY Pushed
<1>3. ASSUME NEW i \in 1..Len(s) PROVE n[i+1] = s[i]
  <2>1. i + 1 \in 2..(Len(s) + 1) /\ (i + 1) - 1 = i
    BY <1>1
  <2> QED
    BY <1>2, <2>1
<1>4. ASSUME NEW i \in 1..Len(n), i < Len(n)
      PROVE  /\ n[i].kind = "file" /\ n[i+1].step = "await"
             /\ Head(n[i+1].deps) = n[i].path
  <2>1. CASE i = 1
    <3>1. n[2] = s[1]
      BY <1>1, <1>3
    <3> QED
      BY <1>1, <1>2, <2>1, <3>1
  <2>2. CASE i # 1
    <3>1. i - 1 \in 1..Len(s) /\ (i - 1) + 1 = i /\ i \in 1..Len(s) /\ i - 1 < Len(s)
      BY <1>1, <1>2, <1>4, <2>2
    <3>2. n[i] = s[i-1] /\ n[i+1] = s[i]
      BY <1>3, <3>1
    <3>3. /\ s[i-1].kind = "file" /\ s[i].step = "await"
          /\ Head(s[i].deps) = s[i-1].path
      BY <3>1 DEF Linked
    <3> QED
      BY <3>2, <3>3
  <2> QED
    BY <2>1, <2>2
<1>5. n[Len(n)].kind = q.kind /\ n[Len(n)].path = q.path
  <2>1. n[Len(s)+1] = s[Len(s)]
    BY <1>1, <1>3
  <2> QED
    BY <1>2, <2>1 DEF Linked
<1> HIDE DEF n
<1>6. Linked(n, q)
  BY <1>4, <1>5 DEF Linked
<1> QED
  BY <1>6 DEF n

LEMMA LinkPop ==
  ASSUME NEW S, NEW s \in Seq(S), s # <<>>, NEW q, Linked(s, q)
  PROVE  /\ Tail(s) = <<>> => Head(s).kind = q.kind /\ Head(s).path = q.path
         /\ Tail(s) # <<>> =>
              /\ Head(s).kind = "file"
              /\ Head(Tail(s)).step = "await"
              /\ Head(Head(Tail(s)).deps) = Head(s).path
              /\ Linked(Tail(s), q)
<1> DEFINE n == Tail(s)
<1>1. /\ n \in Seq(S) /\ Len(s) \in Nat /\ Len(s) >= 1 /\ Head(s) = s[1]
      /\ Len(n) = Len(s) - 1 /\ (n = <<>> <=> Len(s) = 1)
      /\ \A i \in 1..(Len(s) - 1) : n[i] = s[i+1]
  BY StackOf
<1>2. CASE n = <<>>
  BY <1>1, <1>2 DEF Linked
<1>3. CASE n # <<>>
  <2>1. Head(n) = n[1] /\ n[1] = s[2] /\ 1 \in 1..Len(s) /\ 1 < Len(s)
    BY <1>1, <1>3, StackOf
  <2>2. Head(s).kind = "file" /\ s[2].step = "await" /\ Head(s[2].deps) = s[1].path
    BY <1>1, <2>1 DEF Linked
  <2>3. ASSUME NEW i \in 1..Len(n), i < Len(n)
        PROVE  /\ n[i].kind = "file" /\ n[i+1].step = "await"
               /\ Head(n[i+1].deps) = n[i].path
    <3>1. /\ i + 1 \in 1..Len(s) /\ i + 1 < Len(s) /\ i \in 1..(Len(s) - 1)
          /\ i + 1 \in 1..(Len(s) - 1)
      BY <1>1, <2>3
    <3>2. n[i] = s[i+1] /\ n[i+1] = s[(i+1)+1]
      BY <1>1, <3>1
    <3> QED
      BY <3>1, <3>2 DEF Linked
  <2>4. n[Len(n)] = s[Len(s)]
    <3>1. Len(n) \in 1..(Len(s) - 1) /\ Len(n) + 1 = Len(s)
      BY <1>1, <2>1
    <3> QED
      BY <1>1, <3>1
  <2>5. n[Len(n)].kind = q.kind /\ n[Len(n)].path = q.path
    BY <2>4 DEF Linked
  <2> HIDE DEF n
  <2>6. Linked(n, q)
    BY <2>3, <2>5 DEF Linked
  <2> QED
    BY <1>1, <1>3, <2>1, <2>2, <2>6 DEF n
<1> QED
  BY <1>2, <1>3

-----------------------------------------------------------------------------
(* What moves keep of a caller's invariant. *)

\* A larger registry, or a failure, spoils nothing.
LEMMA GoodMono ==
  ASSUME NEW t, NEW L, NEW M, L \subseteq M, NEW D, NEW E, t \in D => t \in E,
         NEW fr \in Good(t, L, D)
  PROVE  fr \in Good(t, M, E)
<1>1. fr \in Frames /\ FrameOK(t, fr, L, D)
  BY DEF Good
<1>2. ASSUME ImportsOK(fr, L) PROVE ImportsOK(fr, M)
  BY <1>2 DEF ImportsOK, Usable
<1>3. FrameOK(t, fr, M, E)
  BY <1>1, <1>2 DEF FrameOK
<1> QED
  BY <1>1, <1>3 DEF Good

LEMMA CallerMono ==
  ASSUME NEW t, NEW s, NEW q, NEW r, NEW L, NEW M, L \subseteq M,
         NEW D, NEW E, t \in D => t \in E,
         CallerOK(t, s, q, r, L, D)
  PROVE  CallerOK(t, s, q, r, M, E)
<1>1. Good(t, L, D) \subseteq Good(t, M, E)
  BY GoodMono
<1>2. s \in Seq(Good(t, M, E))
  BY <1>1, SeqMono DEF CallerOK
<1> QED
  BY <1>2 DEF CallerOK, AnswerOK

LEMMA ContinueOK ==
  ASSUME NEW t, NEW s, NEW q, NEW r, NEW L, NEW M, L \subseteq M,
         NEW D, NEW E, t \in D => t \in E,
         CallerOK(t, s, q, r, L, D), s # <<>>,
         NEW fr \in Good(t, M, E),
         fr.kind = Head(s).kind, fr.path = Head(s).path
  PROVE  CallerOK(t, <<fr>> \o Tail(s), q, r, M, E)
<1>1. CallerOK(t, s, q, r, M, E)
  BY CallerMono
<1>2. s \in Seq(Good(t, M, E)) /\ Linked(s, q)
  BY <1>1 DEF CallerOK
<1>3. Tail(s) \in Seq(Good(t, M, E))
  BY <1>2, StackOf
<1>4. <<fr>> \o Tail(s) \in Seq(Good(t, M, E)) /\ <<fr>> \o Tail(s) # <<>>
  BY <1>3, Pushed
<1>5. Linked(<<fr>> \o Tail(s), q)
  BY <1>2, LinkTop
<1> QED
  BY <1>1, <1>4, <1>5 DEF CallerOK

\* What the activation that looked up an import makes of the outcome.
LEMMA AfterImportOK ==
  ASSUME NEW t, NEW L, NEW D, NEW fr \in Good(t, L, D), fr.step = "await",
         NEW in \in Good(t, L, D), in.kind = "file", in.path = Head(fr.deps),
         NEW o \in {"ok"} \cup Errors, Right(t, in, o, L, D)
  PROVE  /\ AfterImport(fr, in.path, o) \in Good(t, L, D)
         /\ AfterImport(fr, in.path, o).kind = fr.kind
         /\ AfterImport(fr, in.path, o).path = fr.path
<1> DEFINE g == in.path
           file == Head(fr.fds)
           Built == [fr EXCEPT !.step = "build", !.deps = Tail(@)]
           Missed == [fr EXCEPT !.step = "build", !.deps = Tail(@),
                                !.missing = @ \cup {g}]
           Failed == [fr EXCEPT !.step = "fail", !.err = o]
<1>1. fr \in Frames /\ FrameOK(t, fr, L, D) /\ ImportsOK(fr, L) /\ fr.deps # <<>>
  BY DEF Good, FrameOK
<1>2. /\ fr.deps \in Seq(Files) /\ fr.fds \in Seq(Files) /\ fr.fds # <<>>
      /\ fr.path \in Files /\ fr.missing \in SUBSET Files
  BY <1>1 DEF Frames, FrameOK
<1>3. /\ g = Head(fr.deps) /\ g \in Files
      /\ Tail(fr.deps) \in Seq(Files)
      /\ Range(fr.deps) = {g} \cup Range(Tail(fr.deps))
      /\ file \in Files /\ file \in Range(fr.fds)
  BY <1>1, <1>2, RangeOf
<1>4. ASSUME o = "ok" PROVE Built \in Good(t, L, D)
  <2>1. Usable(g, L)
    BY <1>4 DEF Right, Usable
  <2>2. /\ Built \in Frames /\ Built.step = "build" /\ Built.deps = Tail(fr.deps)
        /\ Built.fds = fr.fds /\ Built.todo = fr.todo /\ Built.path = fr.path
        /\ Built.missing = fr.missing
    BY <1>1, <1>3 DEF Frames, Steps
  <2> HIDE DEF Built
  <2>3. ImportsOK(Built, L)
    BY <1>1, <1>3, <2>1, <2>2 DEF ImportsOK
  <2>4. FrameOK(t, Built, L, D)
    BY <1>1, <2>2, <2>3 DEF FrameOK
  <2> QED
    BY <2>2, <2>4 DEF Good
<1>5. ASSUME o = "notFound", AllowMissing PROVE Missed \in Good(t, L, D)
  <2>1. g \notin Available
    BY <1>5 DEF Right
  <2>2. /\ Missed \in Frames /\ Missed.step = "build"
        /\ Missed.deps = Tail(fr.deps)
        /\ Missed.fds = fr.fds /\ Missed.todo = fr.todo /\ Missed.path = fr.path
        /\ Missed.missing = fr.missing \cup {g}
    BY <1>1, <1>2, <1>3 DEF Frames, Steps
  <2> HIDE DEF Missed
  <2>3. ImportsOK(Missed, L)
    BY <1>1, <1>3, <1>5, <2>1, <2>2 DEF ImportsOK
  <2>4. FrameOK(t, Missed, L, D)
    BY <1>1, <2>2, <2>3 DEF FrameOK
  <2> QED
    BY <2>2, <2>4 DEF Good
<1>6. ASSUME o # "ok", ~ (o = "notFound" /\ AllowMissing)
      PROVE  Failed \in Good(t, L, D)
  <2>1. /\ Failed \in Frames /\ Failed.step = "fail" /\ Failed.err = o
        /\ Failed.fds = fr.fds /\ Failed.todo = fr.todo /\ Failed.path = fr.path
    BY <1>1, <1>6 DEF Frames, Steps
  <2>2. o = "failed" => t \in D
    BY DEF Right
  <2>3. ASSUME o = "notFound" PROVE fr.path \notin Available
    <3>1. g \notin Available /\ ~ AllowMissing
      BY <1>6, <2>3 DEF Right
    <3>2. g \in Range(Imports[file])
      BY <1>1, <1>3 DEF ImportsOK
    <3>3. Required[file] = Range(Imports[file])
      BY <1>3, <3>1, RequiredFiles
    <3>4. file \in Served
      BY <1>1, <1>3 DEF FrameOK
    <3>5. file \notin Available
      BY <3>1, <3>2, <3>3, <3>4, AvailableReason
    <3>6. Readable(fr.path, fr.fds)
      BY <1>1 DEF FrameOK
    <3> QED
      BY <1>2, <3>5, <3>6, ReadableHead
  <2> HIDE DEF Failed
  <2>4. FrameOK(t, Failed, L, D)
    BY <1>1, <2>1, <2>2, <2>3 DEF FrameOK
  <2> QED
    BY <2>1, <2>4 DEF Good
<1>7. /\ Built.kind = fr.kind /\ Built.path = fr.path
      /\ Missed.kind = fr.kind /\ Missed.path = fr.path
      /\ Failed.kind = fr.kind /\ Failed.path = fr.path
  BY <1>1 DEF Frames
<1>8. AfterImport(fr, g, o) = IF o = "ok" THEN Built
                              ELSE IF o = "notFound" /\ AllowMissing THEN Missed
                              ELSE Failed
  BY DEF AfterImport
<1> HIDE DEF Built, Missed, Failed
<1>9. CASE o = "ok"
  BY <1>4, <1>7, <1>8, <1>9
<1>10. CASE o = "notFound" /\ AllowMissing
  BY <1>5, <1>7, <1>8, <1>10
<1>11. CASE o # "ok" /\ ~ (o = "notFound" /\ AllowMissing)
  BY <1>6, <1>7, <1>8, <1>11
<1> QED
  BY <1>9, <1>10, <1>11

LEMMA ReturnOK ==
  ASSUME NEW t, NEW s, NEW q, NEW r, NEW L,
         NEW D, NEW E, t \in D => t \in E,
         CallerOK(t, s, q, r, L, D), s # <<>>,
         NEW o \in {"ok"} \cup Errors, Right(t, Head(s), o, L, E)
  PROVE  /\ Tail(s) = <<>> => /\ CallerOK(t, <<>>, q, o, L, E)
                              /\ Head(s).kind = q.kind
                              /\ Head(s).path = q.path
         /\ Tail(s) # <<>> =>
              CallerOK(t, <<AfterImport(Head(Tail(s)), Head(s).path, o)>>
                            \o Tail(Tail(s)), q, r, L, E)
<1>1. CallerOK(t, s, q, r, L, E)
  BY CallerMono
<1>2. s \in Seq(Good(t, L, E)) /\ Linked(s, q)
  BY <1>1 DEF CallerOK
<1>3. Head(s) \in Good(t, L, E) /\ Tail(s) \in Seq(Good(t, L, E))
  BY <1>2, StackOf
<1>4. CASE Tail(s) = <<>>
  <2>1. Head(s).kind = q.kind /\ Head(s).path = q.path
    BY <1>2, <1>4, LinkPop
  <2>2. AnswerOK(t, q, o, E)
    BY <2>1 DEF Right, AnswerOK
  <2>3. <<>> \in Seq(Good(t, L, E)) /\ Linked(<<>>, q)
    BY DEF Linked
  <2>4. o # "pending"
    BY DEF Errors
  <2> QED
    BY <1>4, <2>1, <2>2, <2>3, <2>4 DEF CallerOK
<1>5. CASE Tail(s) # <<>>
  <2> DEFINE outer == Tail(s)
             fr == Head(outer)
             x == AfterImport(fr, Head(s).path, o)
  <2>1. /\ Head(s).kind = "file" /\ fr.step = "await"
        /\ Head(fr.deps) = Head(s).path /\ Linked(outer, q)
    BY <1>2, <1>5, LinkPop
  <2>2. fr \in Good(t, L, E)
    BY <1>3, <1>5, StackOf
  <2> HIDE DEF outer, fr
  <2>3. x \in Good(t, L, E) /\ x.kind = fr.kind /\ x.path = fr.path
    <3>1. ASSUME NEW in, in = Head(s)
          PROVE  /\ in \in Good(t, L, E) /\ in.kind = "file"
                 /\ in.path = Head(fr.deps) /\ Right(t, in, o, L, E)
      BY <1>3, <2>1, <3>1
    <3>2. fr.step = "await"
      BY <2>1
    <3>3. ASSUME NEW in, in = Head(s)
          PROVE  /\ AfterImport(fr, in.path, o) \in Good(t, L, E)
                 /\ AfterImport(fr, in.path, o).kind = fr.kind
                 /\ AfterImport(fr, in.path, o).path = fr.path
      BY <2>2, <3>1, <3>2, <3>3, AfterImportOK
    <3> QED
      BY <3>3
  <2> HIDE DEF x
  <2>4. CallerOK(t, outer, q, r, L, E)
    BY <1>1, <1>3, <1>5, <2>1 DEF CallerOK, outer
  <2>5. CallerOK(t, <<x>> \o Tail(outer), q, r, L, E)
    BY <1>5, <2>3, <2>4, ContinueOK DEF outer, fr
  <2> QED
    BY <1>5, <2>5 DEF x, outer, fr
<1> QED
  BY <1>4, <1>5

-----------------------------------------------------------------------------
(* The frames the code goes on with. *)

LEMMA NewFrameOK ==
  ASSUME NEW t, NEW L, NEW D, NEW q, q.kind \in Kinds, q.path \in Files
  PROVE  /\ NewFrame(q) \in Good(t, L, D)
         /\ NewFrame(q).kind = q.kind /\ NewFrame(q).path = q.path
<1> DEFINE n == NewFrame(q)
<1>1. <<>> \in Seq(Files)
  OBVIOUS
<1>2. /\ n \in Frames /\ n.kind = q.kind /\ n.path = q.path /\ n.step = "lookup"
      /\ n.todo = <<>> /\ n.fds = <<>>
  BY <1>1 DEF NewFrame, Frames, Steps, Errors
<1> HIDE DEF n
<1>3. FrameOK(t, n, L, D)
  BY <1>2, RangeEmpty DEF FrameOK
<1> QED
  BY <1>2, <1>3 DEF Good, n

\* Only the label changes, to one that asks for nothing but what is given.
LEMMA RelabelOK ==
  ASSUME NEW t, NEW L, NEW D, NEW fr \in Good(t, L, D), NEW l \in Steps,
         l \notin {"store", "build", "await", "built", "fail"},
         l = "miss" => fr.path \notin Served,
         l = "reread" => fr.kind = "resolve"
  PROVE  /\ [fr EXCEPT !.step = l] \in Good(t, L, D)
         /\ [fr EXCEPT !.step = l].kind = fr.kind
         /\ [fr EXCEPT !.step = l].path = fr.path
<1> DEFINE n == [fr EXCEPT !.step = l]
<1>1. /\ n \in Frames /\ n.kind = fr.kind /\ n.path = fr.path /\ n.step = l
      /\ n.todo = fr.todo /\ n.fds = fr.fds
  BY DEF Good, Frames
<1> HIDE DEF n
<1>2. FrameOK(t, n, L, D)
  BY <1>1 DEF FrameOK, Good
<1> QED
  BY <1>1, <1>2 DEF Good, n

\* The loop over the files of a response goes on, with what is left of it.
LEMMA NextFileOK ==
  ASSUME NEW t, NEW L, NEW D, NEW fr \in Frames,
         Range(fr.todo) \subseteq Served, Range(fr.fds) \subseteq Served,
         Readable(fr.path, fr.fds), fr.path \in Served => fr.path \in Range(fr.fds)
  PROVE  /\ NextFile(fr) \in Good(t, L, D)
         /\ NextFile(fr).kind = fr.kind /\ NextFile(fr).path = fr.path
<1>1. CASE fr.fds = <<>>
  <2> DEFINE n == [fr EXCEPT !.step = "miss"]
  <2>1. /\ n \in Frames /\ n.kind = fr.kind /\ n.path = fr.path
        /\ n.step = "miss" /\ n.todo = fr.todo /\ n.fds = fr.fds
    BY DEF Frames, Steps
  <2>2. NextFile(fr) = n
    BY <1>1 DEF NextFile
  <2>3. n.path \notin Served
    BY <1>1, <2>1, RangeEmpty
  <2> HIDE DEF n
  <2>4. FrameOK(t, n, L, D)
    BY <2>1, <2>3 DEF FrameOK
  <2> QED
    BY <2>1, <2>2, <2>4 DEF Good
<1>2. CASE fr.fds # <<>>
  <2> DEFINE n == BuildOf(fr)
             file == Head(fr.fds)
  <2>1. fr.fds \in Seq(Files)
    BY DEF Frames
  <2>2. file \in Files /\ Imports[file] \in Seq(Files)
    BY <1>2, <2>1, RangeOf, CacheAssumption
  <2>3. /\ n \in Frames /\ n.kind = fr.kind /\ n.path = fr.path
        /\ n.step = "build" /\ n.todo = fr.todo /\ n.fds = fr.fds
        /\ n.deps = Imports[file] /\ n.missing = {}
    BY <2>2 DEF BuildOf, Frames, Steps
  <2>4. NextFile(fr) = n
    BY <1>2 DEF NextFile
  <2> HIDE DEF n
  <2>5. ImportsOK(n, L)
    BY <2>3 DEF ImportsOK
  <2>6. FrameOK(t, n, L, D)
    BY <1>2, <2>3, <2>5 DEF FrameOK
  <2> QED
    BY <2>3, <2>4, <2>6 DEF Good
<1> QED
  BY <1>1, <1>2

-----------------------------------------------------------------------------
(* Steps. *)

Abstract == [FileRegistry!LookupNext]_(FileRegistry!lookupVars)

\* One caller moves.
LEMMA CallerStep ==
  ASSUME IInv, NEW t \in Callers, NEW s, NEW q \in Queries,
         NEW r \in {"none", "pending", "ok"} \cup Errors,
         stack' = [stack EXCEPT ![t] = s],
         query' = [query EXCEPT ![t] = q],
         result' = [result EXCEPT ![t] = r],
         CacheOK', loaded \subseteq loaded',
         disturbed' \in SUBSET Callers,
         \A u \in Callers \ {t} : u \in disturbed => u \in disturbed',
         CallerOK(t, s, q, r, loaded', disturbed')
  PROVE  IInv'
<1>1. TypeOK
  BY DEF IInv
<1>2. s \in Seq(Frames)
  <2>1. Good(t, loaded', disturbed') \subseteq Frames
    BY DEF Good
  <2>2. s \in Seq(Good(t, loaded', disturbed'))
    BY DEF CallerOK
  <2> QED
    BY <2>1, <2>2, SeqMono
<1>3. TypeOK'
  <2>1. protosByName' \in SUBSET Files /\ loaded' \in SUBSET Files
        /\ kept' \in [Files -> SUBSET Files]
    BY ServedFiles DEF CacheOK
  <2> QED
    BY <1>1, <1>2, <2>1 DEF TypeOK
<1>4. ASSUME NEW u \in Callers
      PROVE  CallerOK(u, stack'[u], query'[u], result'[u], loaded', disturbed')
  <2>1. CASE u = t
    <3>1. stack'[u] = s /\ query'[u] = q /\ result'[u] = r
      BY <1>1, <2>1 DEF TypeOK
    <3> QED
      BY <2>1, <3>1
  <2>2. CASE u # t
    <3>1. stack'[u] = stack[u] /\ query'[u] = query[u] /\ result'[u] = result[u]
      BY <1>1, <2>2 DEF TypeOK
    <3>2. CallerOK(u, stack[u], query[u], result[u], loaded, disturbed)
      BY DEF IInv
    <3>3. CallerOK(u, stack[u], query[u], result[u], loaded', disturbed')
      BY <2>2, <3>2, CallerMono
    <3> QED
      BY <3>1, <3>3
  <2> QED
    BY <2>1, <2>2
<1> QED
  BY <1>3, <1>4 DEF IInv

\* An activation goes on.
LEMMA ContinueStep ==
  ASSUME IInv, NEW t \in Callers, stack[t] # <<>>, NEW fr,
         Continue(t, fr),
         CacheOK', loaded \subseteq loaded',
         disturbed' \in SUBSET Callers, disturbed \subseteq disturbed',
         fr \in Good(t, loaded', disturbed'),
         fr.kind = Top(t).kind, fr.path = Top(t).path
  PROVE  IInv'
<1> DEFINE s == <<fr>> \o Tail(stack[t])
<1>1. TypeOK /\ CallerOK(t, stack[t], query[t], result[t], loaded, disturbed)
  BY DEF IInv
<1>2. CallerOK(t, s, query[t], result[t], loaded', disturbed')
  BY <1>1, ContinueOK DEF Top
<1>3. stack' = [stack EXCEPT ![t] = s]
  BY DEF Continue
<1>4. /\ query' = [query EXCEPT ![t] = query[t]]
      /\ result' = [result EXCEPT ![t] = result[t]]
      /\ query[t] \in Queries
      /\ result[t] \in {"none", "pending", "ok"} \cup Errors
  BY <1>1 DEF Continue, TypeOK
<1> HIDE DEF s
<1> QED
  BY <1>2, <1>3, <1>4, CallerStep

LEMMA CacheSame ==
  ASSUME CacheOK, UNCHANGED cacheVars
  PROVE  CacheOK' /\ loaded \subseteq loaded'
BY DEF CacheOK, cacheVars, RegistryIsComplete

\* An activation returns: what the outermost one returns is a right answer.
LEMMA ReturnStep ==
  ASSUME IInv, NEW t \in Callers, stack[t] # <<>>, NEW o \in {"ok"} \cup Errors,
         Return(t, o), UNCHANGED cacheVars,
         disturbed' \in SUBSET Callers, disturbed \subseteq disturbed',
         Right(t, Top(t), o, loaded, disturbed')
  PROVE  IInv' /\ Abstract
<1> DEFINE s == stack[t]
<1>1. TypeOK /\ CallerOK(t, s, query[t], result[t], loaded, disturbed)
  BY DEF IInv
<1>2. loaded' = loaded /\ CacheOK' /\ loaded \subseteq loaded'
  BY CacheSame DEF IInv, cacheVars
<1>3. /\ query' = query /\ query' = [query EXCEPT ![t] = query[t]]
      /\ query[t] \in Queries /\ result[t] \in {"none", "pending", "ok"} \cup Errors
  BY <1>1 DEF Return, TypeOK
<1>a. /\ Tail(s) = <<>> => /\ CallerOK(t, <<>>, query[t], o, loaded, disturbed')
                           /\ Head(s).kind = query[t].kind
                           /\ Head(s).path = query[t].path
      /\ Tail(s) # <<>> =>
           CallerOK(t, <<AfterImport(Head(Tail(s)), Head(s).path, o)>>
                         \o Tail(Tail(s)), query[t], result[t], loaded, disturbed')
  <2>1. t \in disturbed => t \in disturbed'
    OBVIOUS
  <2>2. Right(t, Head(s), o, loaded, disturbed')
    BY DEF Top
  <2> QED
    BY <1>1, <2>1, <2>2, ReturnOK
<1>4. CASE Tail(s) = <<>>
  <2>1. /\ CallerOK(t, <<>>, query[t], o, loaded, disturbed')
        /\ Top(t).kind = query[t].kind /\ Top(t).path = query[t].path
    BY <1>a, <1>4 DEF Top
  <2>2. stack' = [stack EXCEPT ![t] = <<>>] /\ result' = [result EXCEPT ![t] = o]
    BY <1>4 DEF Return
  <2>3. IInv'
    <3>1. \A u \in Callers \ {t} : u \in disturbed => u \in disturbed'
      OBVIOUS
    <3>2. o \in {"none", "pending", "ok"} \cup Errors
      OBVIOUS
    <3>3. CallerOK(t, <<>>, query[t], o, loaded', disturbed')
      BY <1>2, <2>1
    <3>4. query[t] \in Queries /\ query' = [query EXCEPT ![t] = query[t]]
      BY <1>3
    <3> QED
      BY <1>2, <2>2, <3>1, <3>2, <3>3, <3>4, CallerStep
  <2>4. result[t] = "pending"
    BY <1>1 DEF CallerOK
  <2>5. FileRegistry!Reply(t)
    <3>1. /\ o \in {"ok", "notFound", "failed"}
          /\ o = "ok" => query[t].path \in
               IF query[t].kind = "resolve" THEN loaded ELSE loaded \cup Fallback
          /\ o = "notFound" => query[t].path \notin
               IF query[t].kind = "resolve" THEN loaded ELSE Available
      BY <2>1 DEF Right, Errors
    <3> QED
      BY <1>2, <1>3, <2>2, <2>4, <3>1 DEF FileRegistry!Reply
  <2> QED
    BY <2>3, <2>5 DEF Abstract, FileRegistry!LookupNext
<1>5. CASE Tail(s) # <<>>
  <2> DEFINE n == <<AfterImport(Head(Tail(s)), Top(t).path, o)>> \o Tail(Tail(s))
  <2>1. CallerOK(t, n, query[t], result[t], loaded, disturbed')
    BY <1>a, <1>5 DEF Top
  <2>2. stack' = [stack EXCEPT ![t] = n] /\ result' = result
        /\ result' = [result EXCEPT ![t] = result[t]]
    BY <1>1, <1>5 DEF Return, TypeOK
  <2> HIDE DEF n
  <2>3. IInv'
    <3>1. \A u \in Callers \ {t} : u \in disturbed => u \in disturbed'
      OBVIOUS
    <3>2. CallerOK(t, n, query[t], result[t], loaded', disturbed')
      BY <1>2, <2>1
    <3>3. /\ query[t] \in Queries /\ query' = [query EXCEPT ![t] = query[t]]
          /\ result[t] \in {"none", "pending", "ok"} \cup Errors
          /\ result' = [result EXCEPT ![t] = result[t]]
          /\ stack' = [stack EXCEPT ![t] = n]
      BY <1>3, <2>2
    <3> QED
      BY <1>2, <3>1, <3>2, <3>3, CallerStep
  <2> QED
    BY <1>2, <1>3, <2>2, <2>3 DEF Abstract, FileRegistry!lookupVars
<1> QED
  BY <1>4, <1>5

\* An activation goes on with another label, and the cache stays.
LEMMA MoveStep ==
  ASSUME IInv, NEW t \in Callers, stack[t] # <<>>, NEW fr \in Good(t, loaded, disturbed),
         Continue(t, fr), fr.kind = Top(t).kind, fr.path = Top(t).path,
         loaded' = loaded, disturbed' = disturbed, CacheOK'
  PROVE  IInv' /\ Abstract
<1>1. disturbed' \in SUBSET Callers
  BY DEF IInv, TypeOK
<1>2. IInv'
  BY <1>1, ContinueStep
<1>3. UNCHANGED <<loaded, query, result>>
  BY DEF Continue
<1> QED
  BY <1>2, <1>3 DEF Abstract, FileRegistry!lookupVars

LEMMA TopOK ==
  ASSUME IInv, NEW t \in Callers, stack[t] # <<>>
  PROVE  /\ Top(t) \in Good(t, loaded, disturbed)
         /\ Top(t) \in Frames
         /\ FrameOK(t, Top(t), loaded, disturbed)
         /\ Top(t).kind \in Kinds /\ Top(t).path \in Files
         /\ Top(t).todo \in Seq(Files) /\ Top(t).fds \in Seq(Files)
         /\ Top(t).deps \in Seq(Files) /\ Top(t).missing \in SUBSET Files
         /\ Top(t).err \in Errors
<1>1. CallerOK(t, stack[t], query[t], result[t], loaded, disturbed)
  BY DEF IInv
<1>2. stack[t] \in Seq(Good(t, loaded, disturbed))
  BY <1>1 DEF CallerOK
<1>3. Top(t) \in Good(t, loaded, disturbed)
  BY <1>2, StackOf DEF Top
<1> HIDE DEF Top
<1> QED
  BY <1>3 DEF Good, Frames

\* A new label for the innermost activation.
LEMMA LabelStep ==
  ASSUME IInv, NEW t \in Callers, stack[t] # <<>>, NEW l \in Steps,
         Step(t, l), UNCHANGED cacheVars, disturbed' = disturbed,
         l \notin {"store", "build", "await", "built", "fail"},
         l = "miss" => Top(t).path \notin Served,
         l = "reread" => Top(t).kind = "resolve"
  PROVE  IInv' /\ Abstract
<1>1. Top(t) \in Good(t, loaded, disturbed)
  BY TopOK
<1>2. PICK n : n = [Top(t) EXCEPT !.step = l]
  OBVIOUS
<1>3. /\ n \in Good(t, loaded, disturbed)
      /\ n.kind = Top(t).kind /\ n.path = Top(t).path
  BY <1>1, <1>2, RelabelOK
<1>4. Continue(t, n)
  BY <1>2 DEF Step
<1>5. CacheOK' /\ loaded' = loaded
  BY CacheSame DEF IInv, cacheVars
<1> QED
  BY <1>3, <1>4, <1>5, MoveStep

LEMMA ReturnHere ==
  ASSUME IInv, NEW t \in Callers, stack[t] # <<>>, NEW o \in {"ok"} \cup Errors,
         Return(t, o), UNCHANGED cacheVars, disturbed' = disturbed,
         Right(t, Top(t), o, loaded, disturbed)
  PROVE  IInv' /\ Abstract
<1>1. /\ disturbed' \in SUBSET Callers /\ disturbed \subseteq disturbed'
      /\ Right(t, Top(t), o, loaded, disturbed')
  BY DEF IInv, TypeOK
<1> QED
  BY <1>1, ReturnStep

\* The server or a response fails.
LEMMA ReturnFailed ==
  ASSUME IInv, NEW t \in Callers, stack[t] # <<>>,
         Return(t, "failed"), UNCHANGED cacheVars,
         disturbed' = disturbed \cup {t}
  PROVE  IInv' /\ Abstract
<1>1. disturbed' \in SUBSET Callers /\ disturbed \subseteq disturbed'
  BY DEF IInv, TypeOK
<1>2. "failed" \in {"ok"} \cup Errors /\ Right(t, Top(t), "failed", loaded, disturbed')
  BY DEF Right, Errors
<1> QED
  BY <1>1, <1>2, ReturnStep

LEMMA FoundStep ==
  ASSUME IInv, NEW t \in Callers, stack[t] # <<>>,
         Found(t), UNCHANGED cacheVars, disturbed' = disturbed,
         Top(t).path \in Available, Top(t).path \in loaded \cup Fallback
  PROVE  IInv' /\ Abstract
<1>1. CASE Top(t).kind = "resolve"
  <2>1. "reread" \in Steps /\ Step(t, "reread")
    BY <1>1 DEF Found, Steps
  <2> QED
    BY <1>1, <2>1, LabelStep
<1>2. CASE Top(t).kind # "resolve"
  <2>1. Right(t, Top(t), "ok", loaded, disturbed) /\ Return(t, "ok")
    BY <1>2 DEF Found, Right
  <2> QED
    BY <2>1, ReturnHere
<1> QED
  BY <1>1, <1>2

\* On with the loop over the files of a response.
LEMMA NextFileStep ==
  ASSUME IInv, NEW t \in Callers, stack[t] # <<>>, NEW fr \in Frames,
         Continue(t, NextFile(fr)), UNCHANGED cacheVars, disturbed' = disturbed,
         fr.kind = Top(t).kind, fr.path = Top(t).path,
         Range(fr.todo) \subseteq Served, Range(fr.fds) \subseteq Served,
         Readable(fr.path, fr.fds), fr.path \in Served => fr.path \in Range(fr.fds)
  PROVE  IInv' /\ Abstract
<1>1. PICK n : n = NextFile(fr)
  OBVIOUS
<1>2. n \in Good(t, loaded, disturbed) /\ n.kind = Top(t).kind /\ n.path = Top(t).path
  BY <1>1, NextFileOK
<1>3. CacheOK' /\ loaded' = loaded
  BY CacheSame DEF IInv, cacheVars
<1> QED
  BY <1>1, <1>2, <1>3, MoveStep

LEMMA BeginStep ==
  ASSUME IInv, NEW t \in Callers, NEW q \in Queries, Begin(t, q)
  PROVE  IInv' /\ Abstract
<1>1. TypeOK /\ CallerOK(t, stack[t], query[t], result[t], loaded, disturbed)
  BY DEF IInv
<1>2. PICK n : n = NewFrame(q)
  OBVIOUS
<1>3. /\ n \in Good(t, loaded', disturbed') /\ n.kind = q.kind /\ n.path = q.path
  BY <1>2, NewFrameOK DEF Queries
<1>4. CacheOK' /\ loaded \subseteq loaded' /\ loaded' = loaded
  BY CacheSame DEF IInv, Begin, cacheVars
<1>5. CallerOK(t, <<n>>, q, "pending", loaded', disturbed')
  <2>1. /\ <<n>> \in Seq(Good(t, loaded', disturbed')) /\ <<n>> # <<>>
        /\ Len(<<n>>) = 1 /\ <<n>>[1] = n
    BY <1>3
  <2>2. Linked(<<n>>, q)
    BY <1>3, <2>1 DEF Linked
  <2> QED
    BY <2>1, <2>2 DEF CallerOK, AnswerOK
<1>6. /\ stack' = [stack EXCEPT ![t] = <<n>>]
      /\ query' = [query EXCEPT ![t] = q]
      /\ result' = [result EXCEPT ![t] = "pending"]
      /\ disturbed' \in SUBSET Callers
      /\ \A u \in Callers \ {t} : u \in disturbed => u \in disturbed'
  BY <1>1, <1>2 DEF Begin, TypeOK
<1>7. IInv'
  <2>1. "pending" \in {"none", "pending", "ok"} \cup Errors
    OBVIOUS
  <2> QED
    BY <1>4, <1>5, <1>6, <2>1, CallerStep
<1>8. result[t] # "pending"
  BY <1>1 DEF Begin, CallerOK
<1>9. FileRegistry!Ask(t, q)
  BY <1>4, <1>6, <1>8 DEF FileRegistry!Ask
<1> QED
  BY <1>7, <1>9 DEF Abstract, FileRegistry!LookupNext

LEMMA LookupStep ==
  ASSUME IInv, NEW t \in Callers, Lookup(t)
  PROVE  IInv' /\ Abstract
<1> DEFINE fr == Top(t)
<1>1. stack[t] # <<>> /\ UNCHANGED cacheVars /\ disturbed' = disturbed
  BY DEF Lookup, At
<1>2. CacheOK /\ fr \in Frames /\ fr.path \in Files /\ Range(fr.todo) \subseteq Served
  BY <1>1, TopOK DEF IInv, FrameOK
<1>3. CASE fr.path \in loaded
  <2>1. Found(t) /\ fr.path \in Available /\ fr.path \in loaded \cup Fallback
    BY <1>2, <1>3 DEF Lookup, CacheOK
  <2> QED
    BY <1>1, <2>1, FoundStep
<1>4. CASE fr.path \notin loaded /\ fr.kind = "file" /\ fr.path \in protosByName
  <2>1. PICK n : n = [fr EXCEPT !.fds = <<fr.path>>]
    OBVIOUS
  <2>2. /\ <<fr.path>> \in Seq(Files) /\ Range(<<fr.path>>) = {fr.path}
        /\ Readable(fr.path, <<fr.path>>)
    BY <1>2, ReadableOne
  <2>3. /\ n \in Frames /\ n.kind = fr.kind /\ n.path = fr.path
        /\ n.todo = fr.todo /\ n.fds = <<fr.path>>
    BY <1>2, <2>1, <2>2 DEF Frames
  <2>4. Continue(t, NextFile(n))
    BY <1>4, <2>1 DEF Lookup
  <2>5. fr.path \in Served
    BY <1>2, <1>4 DEF CacheOK
  <2>6. /\ Range(n.todo) \subseteq Served /\ Range(n.fds) \subseteq Served
        /\ Readable(n.path, n.fds) /\ n.path \in Range(n.fds)
    BY <1>2, <2>2, <2>3, <2>5
  <2> QED
    BY <1>1, <2>3, <2>4, <2>6, NextFileStep
<1>5. CASE fr.path \notin loaded /\ ~ (fr.kind = "file" /\ fr.path \in protosByName)
  <2>1. Step(t, "send") /\ "send" \in Steps
    BY <1>5 DEF Lookup, Steps
  <2> QED
    BY <1>1, <2>1, LabelStep
<1> QED
  BY <1>3, <1>4, <1>5

LEMMA SendStep ==
  ASSUME IInv, NEW t \in Callers,
         SendAnswered(t) \/ SendNotFound(t) \/ SendFails(t)
  PROVE  IInv' /\ Abstract
<1> DEFINE fr == Top(t)
<1>1. stack[t] # <<>> /\ UNCHANGED cacheVars
  BY DEF SendAnswered, SendNotFound, SendFails, At, cacheVars
<1>2. /\ fr \in Frames /\ fr.path \in Files
      /\ CacheOK' /\ loaded' = loaded
  BY <1>1, TopOK, CacheSame DEF IInv, cacheVars
<1>3. CASE SendAnswered(t)
  <2>1. PICK a \in Answers[fr.path] :
          Continue(t, [fr EXCEPT !.step = "store", !.todo = a, !.fds = a])
    BY <1>3 DEF SendAnswered
  <2>2. /\ a \in Seq(Files) /\ Range(a) \subseteq Served /\ Readable(fr.path, a)
        /\ fr.path \in Served => fr.path \in Range(a)
    BY <1>2, CacheAssumption DEF Served
  <2>3. PICK n : n = [fr EXCEPT !.step = "store", !.todo = a, !.fds = a]
    OBVIOUS
  <2>4. /\ n \in Frames /\ n.kind = fr.kind /\ n.path = fr.path
        /\ n.step = "store" /\ n.todo = a /\ n.fds = a
    BY <1>2, <2>2, <2>3 DEF Frames, Steps
  <2>5. n \in Good(t, loaded, disturbed)
    BY <2>2, <2>4 DEF Good, FrameOK
  <2>6. disturbed' = disturbed
    BY <1>3 DEF SendAnswered
  <2> QED
    BY <1>1, <1>2, <2>1, <2>3, <2>4, <2>5, <2>6, MoveStep
<1>4. CASE SendNotFound(t)
  <2>1. Step(t, "miss") /\ "miss" \in Steps /\ disturbed' = disturbed
        /\ fr.path \notin Served
    BY <1>4 DEF SendNotFound, Steps, Served
  <2> QED
    BY <1>1, <2>1, LabelStep
<1>5. CASE SendFails(t)
  <2>1. Return(t, "failed") /\ disturbed' = disturbed \cup {t}
    BY <1>5 DEF SendFails
  <2> QED
    BY <1>1, <2>1, ReturnFailed
<1> QED
  BY <1>3, <1>4, <1>5

LEMMA StoreStep ==
  ASSUME IInv, NEW t \in Callers, Store(t) \/ StoreFails(t) \/ StoreEnds(t)
  PROVE  IInv' /\ Abstract
<1> DEFINE fr == Top(t)
<1>1. stack[t] # <<>> /\ fr.step = "store"
  BY DEF Store, StoreFails, StoreEnds, At
<1>2. /\ CacheOK /\ fr \in Frames /\ fr.todo \in Seq(Files)
      /\ FrameOK(t, fr, loaded, disturbed)
  BY <1>1, TopOK DEF IInv
<1>3. /\ Range(fr.todo) \subseteq Served /\ Range(fr.fds) \subseteq Served
      /\ Readable(fr.path, fr.fds) /\ (fr.path \in Served => fr.path \in Range(fr.fds))
  BY <1>1, <1>2 DEF FrameOK
<1>4. CASE Store(t)
  <2>1. /\ fr.todo # <<>> /\ protosByName' = protosByName \cup {Head(fr.todo)}
        /\ Continue(t, [fr EXCEPT !.todo = Tail(@)])
        /\ loaded' = loaded /\ kept' = kept /\ disturbed' = disturbed
    BY <1>4 DEF Store
  <2>2. /\ Head(fr.todo) \in Range(fr.todo) /\ Tail(fr.todo) \in Seq(Files)
        /\ Range(Tail(fr.todo)) \subseteq Range(fr.todo)
    BY <1>2, <2>1, RangeOf
  <2>3. PICK n : n = [fr EXCEPT !.todo = Tail(@)]
    OBVIOUS
  <2>4. /\ n \in Frames /\ n.kind = fr.kind /\ n.path = fr.path
        /\ n.step = "store" /\ n.todo = Tail(fr.todo) /\ n.fds = fr.fds
    BY <1>1, <1>2, <2>2, <2>3 DEF Frames
  <2>5. n \in Good(t, loaded, disturbed)
    BY <1>3, <2>2, <2>4 DEF Good, FrameOK
  <2>6. CacheOK'
    BY <1>2, <1>3, <2>1, <2>2 DEF CacheOK, RegistryIsComplete
  <2>7. Continue(t, n)
    BY <2>1, <2>3
  <2> QED
    BY <1>1, <2>1, <2>4, <2>5, <2>6, <2>7, MoveStep
<1>5. CASE StoreFails(t)
  <2>1. /\ Return(t, "failed") /\ disturbed' = disturbed \cup {t}
        /\ UNCHANGED cacheVars
    BY <1>5 DEF StoreFails
  <2> QED
    BY <1>1, <2>1, ReturnFailed
<1>6. CASE StoreEnds(t)
  <2>1. /\ Continue(t, NextFile(fr)) /\ UNCHANGED cacheVars
        /\ disturbed' = disturbed
    BY <1>6 DEF StoreEnds
  <2> QED
    BY <1>1, <1>2, <1>3, <2>1, NextFileStep
<1> QED
  BY <1>4, <1>5, <1>6

LEMMA AcceptStep ==
  ASSUME IInv, NEW t \in Callers, Accept(t)
  PROVE  IInv' /\ Abstract
<1> DEFINE fr == Top(t)
<1>1. /\ stack[t] # <<>> /\ fr.step = "built"
      /\ UNCHANGED cacheVars /\ disturbed' = disturbed
  BY DEF Accept, At
<1>2. /\ CacheOK /\ fr \in Frames /\ fr.fds \in Seq(Files) /\ fr.path \in Files
      /\ FrameOK(t, fr, loaded, disturbed)
  BY <1>1, TopOK DEF IInv
<1>3. /\ Range(fr.todo) \subseteq Served /\ Range(fr.fds) \subseteq Served
      /\ Readable(fr.path, fr.fds) /\ (fr.path \in Served => fr.path \in Range(fr.fds))
      /\ fr.fds # <<>> /\ Head(fr.fds) \in loaded
  BY <1>1, <1>2 DEF FrameOK
<1>4. CASE Head(fr.fds) = fr.path
  <2>1. Found(t) /\ fr.path \in Available /\ fr.path \in loaded \cup Fallback
    BY <1>2, <1>3, <1>4 DEF Accept, CacheOK
  <2> QED
    BY <1>1, <2>1, FoundStep
<1>5. CASE Head(fr.fds) # fr.path
  <2>1. PICK n : n = [fr EXCEPT !.fds = Tail(@)]
    OBVIOUS
  <2>2. /\ Tail(fr.fds) \in Seq(Files)
        /\ Range(fr.fds) = {Head(fr.fds)} \cup Range(Tail(fr.fds))
    BY <1>2, <1>3, RangeOf
  <2>3. Readable(fr.path, Tail(fr.fds))
    BY <1>2, <1>3, <1>5, ReadableTail
  <2>4. /\ n \in Frames /\ n.kind = fr.kind /\ n.path = fr.path
        /\ n.todo = fr.todo /\ n.fds = Tail(fr.fds)
    BY <1>2, <2>1, <2>2 DEF Frames
  <2>5. Continue(t, NextFile(n))
    BY <1>5, <2>1 DEF Accept
  <2>6. /\ Range(n.todo) \subseteq Served /\ Range(n.fds) \subseteq Served
        /\ Readable(n.path, n.fds) /\ (n.path \in Served => n.path \in Range(n.fds))
    BY <1>3, <1>5, <2>2, <2>3, <2>4
  <2> QED
    BY <1>1, <2>4, <2>5, <2>6, NextFileStep
<1> QED
  BY <1>4, <1>5

LEMMA MissStep ==
  ASSUME IInv, NEW t \in Callers, Miss(t)
  PROVE  IInv' /\ Abstract
<1> DEFINE fr == Top(t)
<1>1. /\ stack[t] # <<>> /\ fr.step = "miss"
      /\ UNCHANGED cacheVars /\ disturbed' = disturbed
  BY DEF Miss, At
<1>2. CacheOK /\ fr.path \in Files /\ fr.path \notin Served
  BY <1>1, TopOK DEF IInv, FrameOK
<1>3. CASE fr.path \in Fallback
  <2>1. Found(t) /\ fr.path \in Available /\ fr.path \in loaded \cup Fallback
    BY <1>2, <1>3, AvailableIf DEF Miss
  <2> QED
    BY <1>1, <2>1, FoundStep
<1>4. CASE fr.path \notin Fallback
  <2>1. fr.path \notin Available
    BY <1>2, <1>4, AvailableReason
  <2>2. /\ Return(t, "notFound") /\ "notFound" \in {"ok"} \cup Errors
        /\ Right(t, fr, "notFound", loaded, disturbed)
    BY <1>2, <1>4, <2>1 DEF Miss, Right, CacheOK, Errors
  <2> QED
    BY <1>1, <2>2, ReturnHere
<1> QED
  BY <1>3, <1>4

LEMMA FailStep ==
  ASSUME IInv, NEW t \in Callers, Fail(t)
  PROVE  IInv' /\ Abstract
<1>1. /\ stack[t] # <<>> /\ Top(t).step = "fail" /\ Return(t, Top(t).err)
      /\ UNCHANGED cacheVars /\ disturbed' = disturbed
  BY DEF Fail, At
<1>2. CacheOK /\ FrameOK(t, Top(t), loaded, disturbed) /\ Top(t).err \in Errors
  BY <1>1, TopOK DEF IInv
<1>3. PICK o : o = Top(t).err
  OBVIOUS
<1>4. /\ o \in {"ok"} \cup Errors /\ Return(t, o) /\ o # "ok"
      /\ o = "notFound" => Top(t).path \notin Available
      /\ o = "failed" => t \in disturbed
  BY <1>1, <1>2, <1>3 DEF FrameOK, Errors
<1>5. Right(t, Top(t), o, loaded, disturbed)
  BY <1>2, <1>4 DEF Right, CacheOK
<1> QED
  BY <1>1, <1>4, <1>5, ReturnHere

LEMMA RereadStep ==
  ASSUME IInv, NEW t \in Callers, Reread(t)
  PROVE  IInv' /\ Abstract
<1>1. /\ stack[t] # <<>> /\ Top(t).step = "reread"
      /\ UNCHANGED cacheVars /\ disturbed' = disturbed
  BY DEF Reread, At
<1>2. CacheOK /\ Top(t).kind = "resolve"
  BY <1>1, TopOK DEF IInv, FrameOK
<1>3. CASE Top(t).path \in loaded
  <2>1. Return(t, "ok") /\ Right(t, Top(t), "ok", loaded, disturbed)
    BY <1>2, <1>3 DEF Reread, Right, CacheOK
  <2> QED
    BY <1>1, <2>1, ReturnHere
<1>4. CASE Top(t).path \notin loaded
  <2>1. /\ Return(t, "notFound") /\ "notFound" \in {"ok"} \cup Errors
        /\ Right(t, Top(t), "notFound", loaded, disturbed)
    BY <1>2, <1>4 DEF Reread, Right, Errors
  <2> QED
    BY <1>1, <2>1, ReturnHere
<1> QED
  BY <1>3, <1>4

LEMMA LookUpImportStep ==
  ASSUME IInv, NEW t \in Callers, LookUpImport(t)
  PROVE  IInv' /\ Abstract
<1> DEFINE fr == Top(t)
           s == stack[t]
<1>1. /\ s # <<>> /\ fr.step = "build" /\ fr.deps # <<>>
      /\ UNCHANGED cacheVars /\ disturbed' = disturbed
      /\ query' = query /\ result' = result
  BY DEF LookUpImport, At
<1>2. /\ fr \in Frames /\ fr.deps \in Seq(Files) /\ fr.kind \in Kinds
      /\ FrameOK(t, fr, loaded, disturbed) /\ TypeOK
      /\ CallerOK(t, s, query[t], result[t], loaded, disturbed)
  BY <1>1, TopOK DEF IInv
<1>3. PICK dep : dep = Head(fr.deps)
  OBVIOUS
<1>4. dep \in Files
  BY <1>1, <1>2, <1>3, RangeOf
<1>5. PICK in : in = NewFrame([kind |-> "file", path |-> dep])
  OBVIOUS
<1>6. /\ in \in Good(t, loaded, disturbed) /\ in.kind = "file" /\ in.path = dep
  BY <1>4, <1>5, NewFrameOK DEF Kinds
<1>7. PICK n : n = [fr EXCEPT !.step = "await"]
  OBVIOUS
<1>8. /\ n \in Frames /\ n.kind = fr.kind /\ n.path = fr.path
      /\ n.step = "await" /\ n.todo = fr.todo /\ n.fds = fr.fds
      /\ n.deps = fr.deps /\ n.missing = fr.missing
  BY <1>2, <1>7 DEF Frames, Steps
<1>9. n \in Good(t, loaded, disturbed)
  <2>1. ImportsOK(n, loaded)
    BY <1>1, <1>2, <1>8 DEF FrameOK, ImportsOK
  <2> QED
    BY <1>1, <1>2, <1>8, <2>1 DEF FrameOK, Good
<1>10. PICK m : m = <<n>> \o Tail(s)
  OBVIOUS
<1>11. CallerOK(t, m, query[t], result[t], loaded, disturbed)
  BY <1>1, <1>2, <1>8, <1>9, <1>10, ContinueOK DEF Top
<1>12. m \in Seq(Good(t, loaded, disturbed)) /\ m # <<>> /\ Head(m) = n
  <2>1. Tail(s) \in Seq(Good(t, loaded, disturbed))
    BY <1>1, <1>2, StackOf DEF CallerOK
  <2> QED
    BY <1>9, <1>10, <2>1, Pushed
<1>13. PICK w : w = <<in>> \o m
  OBVIOUS
<1>14. CallerOK(t, w, query[t], result[t], loaded, disturbed)
  <2>1. w \in Seq(Good(t, loaded, disturbed)) /\ w # <<>>
    BY <1>6, <1>12, <1>13, Pushed
  <2>2. Linked(m, query[t])
    BY <1>11 DEF CallerOK
  <2>3. Linked(w, query[t])
    BY <1>3, <1>6, <1>8, <1>12, <1>13, <2>2, LinkPush
  <2> QED
    BY <1>11, <1>12, <2>1, <2>3 DEF CallerOK
<1>15. stack' = [stack EXCEPT ![t] = w]
  <2>1. stack' = [stack EXCEPT ![t] = <<in, n>> \o Tail(s)]
    BY <1>2, <1>3, <1>5, <1>7 DEF LookUpImport, TypeOK
  <2>2. Tail(s) \in Seq(Good(t, loaded, disturbed))
    BY <1>1, <1>2, StackOf DEF CallerOK
  <2>3. <<in, n>> \o Tail(s) = <<in>> \o (<<n>> \o Tail(s))
    BY <1>6, <1>9, <2>2, PushedTwo
  <2> QED
    BY <1>10, <1>13, <2>1, <2>3
<1>16. IInv'
  <2>1. CacheOK' /\ loaded' = loaded /\ loaded \subseteq loaded'
    BY <1>1, CacheSame DEF IInv, cacheVars
  <2>2. /\ query[t] \in Queries /\ query' = [query EXCEPT ![t] = query[t]]
        /\ result[t] \in {"none", "pending", "ok"} \cup Errors
        /\ result' = [result EXCEPT ![t] = result[t]]
    BY <1>1, <1>2 DEF TypeOK
  <2>3. /\ disturbed' \in SUBSET Callers
        /\ \A u \in Callers \ {t} : u \in disturbed => u \in disturbed'
    BY <1>1, <1>2 DEF TypeOK
  <2>4. CallerOK(t, w, query[t], result[t], loaded', disturbed')
    BY <1>1, <1>14, <2>1
  <2> QED
    BY <1>15, <2>1, <2>2, <2>3, <2>4, CallerStep
<1> QED
  BY <1>1, <1>16 DEF Abstract, FileRegistry!lookupVars, cacheVars

\* When the imports have been looked up, those that were not given up are there;
\* so a file that cannot be built lacks one that it needs.
LEMMA BuildReason ==
  ASSUME IInv, NEW t \in Callers, stack[t] # <<>>,
         Top(t).step = "build", Top(t).deps = <<>>
  PROVE  LET fr == Top(t)
             file == Head(fr.fds)
         IN /\ file \in Served /\ file \in Files
            /\ KeptBy(fr) \subseteq (loaded \cup Fallback) \cap Available
            /\ \A g \in Range(Imports[file]) \ KeptBy(fr) :
                 AllowMissing /\ g \notin Available
            /\ NewFileSucceeds(fr) => /\ Required[file] \subseteq KeptBy(fr)
                                      /\ file \in Available
            /\ ~ NewFileSucceeds(fr) => /\ fr.missing # {}
                                        /\ fr.path \notin Available
<1> DEFINE fr == Top(t)
           file == Head(fr.fds)
<1>1. /\ fr.fds \in Seq(Files) /\ fr.path \in Files
      /\ FrameOK(t, fr, loaded, disturbed)
  BY TopOK
<1>2. /\ fr.fds # <<>> /\ Range(fr.fds) \subseteq Served
      /\ Readable(fr.path, fr.fds) /\ ImportsOK(fr, loaded)
  BY <1>1 DEF FrameOK
<1>3. file \in Served /\ file \in Files
  BY <1>1, <1>2, RangeOf
<1>4. KeptBy(fr) \subseteq (loaded \cup Fallback) \cap Available
  BY <1>2, RangeEmpty DEF KeptBy, ImportsOK, Usable
<1>5. \A g \in Range(Imports[file]) \ KeptBy(fr) : AllowMissing /\ g \notin Available
  BY <1>2 DEF KeptBy, ImportsOK
<1>6. ASSUME NewFileSucceeds(fr)
      PROVE  Required[file] \subseteq KeptBy(fr) /\ file \in Available
  <2>1. Needs[file] \cap fr.missing = {}
    BY <1>6 DEF NewFileSucceeds
  <2>2. Required[file] \subseteq KeptBy(fr)
    <3>1. CASE AllowMissing
      BY <1>3, <2>1, <3>1, RequiredFiles DEF KeptBy
    <3>2. CASE ~ AllowMissing
      BY <1>3, <1>5, <3>2, RequiredFiles
    <3> QED
      BY <3>1, <3>2
  <2>3. file \in Available
    BY <1>3, <1>4, <2>2, AvailableIf
  <2> QED
    BY <2>2, <2>3
<1>7. ASSUME ~ NewFileSucceeds(fr)
      PROVE  fr.missing # {} /\ fr.path \notin Available
  <2>1. PICK g \in Needs[file] : g \in fr.missing
    BY <1>4, <1>7 DEF NewFileSucceeds
  <2>2. AllowMissing /\ g \notin Available
    BY <1>2, <2>1 DEF ImportsOK
  <2>3. file \notin Available
    BY <1>3, <2>1, <2>2, RequiredFiles, AvailableReason
  <2> QED
    BY <1>1, <1>2, <2>1, <2>3, ReadableHead
<1> QED
  BY <1>3, <1>4, <1>5, <1>6, <1>7

LEMMA BuildStep ==
  ASSUME IInv, NEW t \in Callers, Build(t)
  PROVE  IInv' /\ Abstract
<1> DEFINE fr == Top(t)
           file == Head(fr.fds)
<1>1. /\ stack[t] # <<>> /\ fr.step = "build" /\ fr.deps = <<>>
      /\ protosByName' = protosByName /\ disturbed' = disturbed
  BY DEF Build, At
<1>2. /\ CacheOK /\ TypeOK /\ fr \in Frames
      /\ FrameOK(t, fr, loaded, disturbed)
  BY <1>1, TopOK DEF IInv
<1>3. PICK n : n = [fr EXCEPT !.step = "built"]
  OBVIOUS
<1>4. /\ n \in Frames /\ n.kind = fr.kind /\ n.path = fr.path
      /\ n.step = "built" /\ n.todo = fr.todo /\ n.fds = fr.fds
  BY <1>2, <1>3 DEF Frames, Steps
<1>5. ASSUME NEW L, file \in L PROVE n \in Good(t, L, disturbed)
  BY <1>1, <1>2, <1>4, <1>5 DEF Good, FrameOK
<1>6. CASE file \in loaded
  <2>1. Continue(t, n) /\ loaded' = loaded /\ kept' = kept
    BY <1>3, <1>6 DEF Build, Step
  <2>2. n \in Good(t, loaded, disturbed)
    BY <1>5, <1>6
  <2>3. CacheOK'
    BY <1>1, <1>2, <2>1, CacheSame DEF cacheVars
  <2> QED
    BY <1>1, <1>4, <2>1, <2>2, <2>3, MoveStep
<1>7. CASE file \notin loaded /\ NewFileSucceeds(fr)
  <2>1. /\ Continue(t, n) /\ loaded' = loaded \cup {file}
        /\ kept' = [kept EXCEPT ![file] = KeptBy(fr)]
    BY <1>3, <1>7 DEF Build, Step
  <2>2. /\ file \in Served /\ file \in Files /\ file \in Available
        /\ KeptBy(fr) \subseteq loaded \cup Fallback
        /\ \A g \in Range(Imports[file]) \ KeptBy(fr) :
             AllowMissing /\ g \notin Available
        /\ Required[file] \subseteq KeptBy(fr)
    BY <1>1, <1>7, BuildReason
  <2>3. n \in Good(t, loaded', disturbed')
    BY <1>1, <1>5, <2>1
  <2>4. CacheOK'
    <3>1. KeptBy(fr) \in SUBSET Files
      BY <2>2, RequiredFiles DEF KeptBy
    <3>2. /\ kept' \in [Files -> SUBSET Files]
          /\ kept'[file] = KeptBy(fr)
          /\ \A f \in Files : f # file => kept'[f] = kept[f]
      BY <1>2, <2>1, <2>2, <3>1 DEF CacheOK
    <3>3. ASSUME NEW f \in loaded'
          PROVE  /\ kept'[f] \subseteq loaded' \cup Fallback
                 /\ \A g \in Range(Imports[f]) \ kept'[f] :
                      AllowMissing /\ g \notin Available
      <4>1. CASE f = file
        BY <2>1, <2>2, <3>2, <4>1
      <4>2. CASE f # file
        <5>1. f \in loaded /\ f \in Files
          BY <1>2, <2>1, <4>2, ServedFiles DEF CacheOK
        <5>2. kept'[f] = kept[f]
          BY <3>2, <4>2, <5>1
        <5> QED
          BY <1>2, <2>1, <5>1, <5>2 DEF CacheOK, RegistryIsComplete
      <4> QED
        BY <4>1, <4>2
    <3>4. RegistryIsComplete'
      BY <3>3 DEF RegistryIsComplete
    <3> QED
      BY <1>1, <1>2, <2>1, <2>2, <3>2, <3>4 DEF CacheOK
  <2>5. /\ disturbed' \in SUBSET Callers /\ disturbed \subseteq disturbed'
        /\ loaded \subseteq loaded'
    BY <1>1, <1>2, <2>1 DEF TypeOK
  <2>6. IInv'
    BY <1>1, <1>4, <2>1, <2>3, <2>4, <2>5, ContinueStep
  <2>7. FileRegistry!Load(file)
    BY <1>7, <2>1, <2>2 DEF FileRegistry!Load, Continue
  <2> QED
    BY <2>2, <2>6, <2>7 DEF Abstract, FileRegistry!LookupNext
<1>8. CASE file \notin loaded /\ ~ NewFileSucceeds(fr)
  <2>1. fr.missing # {} /\ fr.path \notin Available
    BY <1>1, <1>8, BuildReason
  <2>2. Return(t, "notFound") /\ UNCHANGED cacheVars
    BY <1>1, <1>8, <2>1 DEF Build, cacheVars
  <2>3. /\ "notFound" \in {"ok"} \cup Errors
        /\ Right(t, fr, "notFound", loaded, disturbed)
    BY <1>2, <2>1 DEF Right, CacheOK, Errors
  <2> QED
    BY <1>1, <2>2, <2>3, ReturnHere
<1> QED
  BY <1>6, <1>7, <1>8

-----------------------------------------------------------------------------
(* The theorems. *)

LEMMA IInvInit == Init => IInv
<1> SUFFICES ASSUME Init PROVE IInv
  OBVIOUS
<1>1. TypeOK
  BY DEF Init, TypeOK
<1>2. CacheOK
  BY DEF Init, CacheOK, RegistryIsComplete
<1>3. ASSUME NEW t \in Callers
      PROVE  CallerOK(t, stack[t], query[t], result[t], loaded, disturbed)
  <2>1. stack[t] = <<>> /\ result[t] = "none"
    BY DEF Init
  <2>2. <<>> \in Seq(Good(t, loaded, disturbed)) /\ Linked(<<>>, query[t])
    BY DEF Linked
  <2> QED
    BY <2>1, <2>2 DEF CallerOK, AnswerOK
<1> QED
  BY <1>1, <1>2, <1>3 DEF IInv

\* Every step keeps the invariant, and is a step of FileLookup or none.
LEMMA IInvStep == IInv /\ [Next]_vars => IInv' /\ Abstract
<1> SUFFICES ASSUME IInv, [Next]_vars PROVE IInv' /\ Abstract
  OBVIOUS
<1>1. ASSUME NEW t \in Callers, Work(t) PROVE IInv' /\ Abstract
  BY <1>1, LookupStep, SendStep, StoreStep, LookUpImportStep, BuildStep,
     AcceptStep, MissStep, FailStep, RereadStep DEF Work
<1>2. ASSUME NEW t \in Callers, NEW q \in Queries, Begin(t, q)
      PROVE  IInv' /\ Abstract
  BY <1>2, BeginStep
<1>3. CASE UNCHANGED vars
  <2>1. TypeOK' /\ CacheOK'
    BY <1>3 DEF IInv, TypeOK, CacheOK, RegistryIsComplete, vars, cacheVars
  <2>2. /\ stack' = stack /\ query' = query /\ result' = result
        /\ loaded' = loaded /\ disturbed' = disturbed
    BY <1>3 DEF vars, cacheVars
  <2>3. IInv'
    BY <2>1, <2>2 DEF IInv
  <2> QED
    BY <2>2, <2>3 DEF Abstract, FileRegistry!lookupVars
<1> QED
  BY <1>1, <1>2, <1>3 DEF Next

\* The inductive invariant holds in every reachable state.
THEOREM CacheInvariance == Spec => []IInv
<1>1. IInv /\ [Next]_vars => IInv'
  BY IInvStep
<1> QED
  BY <1>1, IInvInit, PTL DEF Spec

\* Every variable has its type (ReflectCache!TypeOK).
THEOREM CacheTypeCorrect == Spec => []TypeOK
<1>1. IInv => TypeOK
  BY DEF IInv
<1> QED
  BY <1>1, CacheInvariance, PTL

\* No query fails because of what other callers do (ReflectCache!FailuresAreReal).
THEOREM QueriesFailForAReason == Spec => []FailuresAreReal
<1>1. IInv => FailuresAreReal
  BY DEF IInv, CallerOK, AnswerOK, FailuresAreReal
<1> QED
  BY <1>1, CacheInvariance, PTL

\* "Not found" is said only of what cannot be had, success only of what can
\* (ReflectCache!AnswersAreRight).
THEOREM QueriesAreAnsweredRight == Spec => []AnswersAreRight
<1>1. IInv => AnswersAreRight
  BY DEF IInv, CallerOK, AnswerOK, AnswersAreRight
<1> QED
  BY <1>1, CacheInvariance, PTL

\* No registered descriptor has a dangling import, and none lacks one that could
\* be had (ReflectCache!RegistryIsComplete).
THEOREM RegisteredFilesAreComplete == Spec => []RegistryIsComplete
<1>1. IInv => RegistryIsComplete
  BY DEF IInv, CacheOK
<1> QED
  BY <1>1, CacheInvariance, PTL

\* The cache implements a registry that loads each file once, after what it
\* requires, and answers each query at one moment
\* (ReflectCache!ImplementsLookupSafely).
THEOREM CacheImplementsLookup == Spec => ImplementsLookupSafely
<1>1. Init => FileRegistry!LookupInit
  BY DEF Init, FileRegistry!LookupInit
<1>2. IInv /\ [Next]_vars => [FileRegistry!LookupNext]_(FileRegistry!lookupVars)
  BY IInvStep DEF Abstract
<1> QED
  BY <1>1, <1>2, CacheInvariance, PTL
     DEF Spec, ImplementsLookupSafely, FileRegistry!LookupSafety
=============================================================================
