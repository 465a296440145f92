------------------------ MODULE RemoteRegistryProofs ------------------------
(***************************************************************************)
(* For any types, references, fetcher, fallback resolver and program:      *)
(* a type that was found is in the registry from then on, a find that says *)
(* not found has a reason, a find loses no reference of the types it gets, *)
(* and what a type in the cache refers to is to be had.                    *)
(*                                                                         *)
(* The first part is about the types of the variables and the kept finds.  *)
(* The rest is about the inductive invariant FindsInv: of every conversion *)
(* under way, who waits for whom (TasksInv), where its types have been put *)
(* (DataInv) and what its files import (ImportsInv).                       *)
(***************************************************************************)
EXTENDS RemoteRegistry, TLAPS

LEMMA ConstantFacts ==
  /\ TypeName \in [Urls -> Names] /\ DefaultURL \in [Names -> Urls]
  /\ Home \in [Names -> Files] /\ NoFile \notin Files /\ NoUrl \notin Urls
  /\ \A k \in Tasks : k[1] \in Urls /\ Target(k) \in Urls
  /\ \A u \in Urls : <<u, 0>> \in Tasks /\ Target(<<u, 0>>) = u
<1>1. \A u \in Urls : \A i \in DOMAIN Fields[TypeName[u]] : Fields[TypeName[u]][i] \in Urls
  BY RemoteAssumption
<1>2. \A k \in Tasks : k[1] \in Urls /\ (k[2] = 0 \/ k[2] \in DOMAIN Fields[TypeName[k[1]]])
  BY DEF Tasks
<1> QED
  BY <1>1, <1>2, RemoteAssumption DEF Tasks, Target

LEMMA NewContextType == NewContext \in Contexts
  BY DEF NewContext, Contexts

\* Contexts with one part replaced.
LEMMA ContextFacts ==
  ASSUME NEW cc \in Contexts
  PROVE  /\ cc.locs \in [Urls -> Files \cup {NoFile}] /\ cc.types \subseteq Names
         /\ cc.whole \subseteq Nesting
         /\ cc.deps \subseteq Files \X (Files \cup {NoFile})
         /\ cc.tasks \in [Tasks -> {"none", "check", "describe", "fetch", "wait", "done"}]
         /\ cc.errs \in [Urls -> {"none", "notFound", "failed"}]
  BY DEF Contexts

LEMMA EndedType ==
  ASSUME NEW cc \in Contexts, NEW k \in Tasks, NEW e \in {"none", "notFound", "failed"}
  PROVE  /\ Ended(cc, k, e) \in Contexts
         /\ Ended(cc, k, e).locs = cc.locs
         /\ Ended(cc, k, e).types = cc.types /\ Ended(cc, k, e).deps = cc.deps
         /\ Ended(cc, k, e).tasks = [cc.tasks EXCEPT ![k] = "done"]
         /\ \A u \in Urls : Ended(cc, k, e).errs[u] =
              IF u = k[1] /\ k[2] # 0 /\ cc.errs[u] = "none" THEN e ELSE cc.errs[u]
  BY ConstantFacts DEF Ended, Contexts

LEMMA RecordedType ==
  ASSUME NEW cc \in Contexts, NEW u \in Urls
  PROVE  /\ Recorded(cc, u) \in Contexts
         /\ Recorded(cc, u).locs = [cc.locs EXCEPT ![u] = Home[TypeName[u]]]
         /\ Recorded(cc, u).types = cc.types \cup {TypeName[u]}
         /\ Recorded(cc, u).tasks = cc.tasks
         /\ Recorded(cc, u).deps = cc.deps /\ Recorded(cc, u).errs = cc.errs
  BY ConstantFacts DEF Recorded, Contexts

LEMMA LocatedType ==
  ASSUME NEW cc \in Contexts, NEW u \in Urls
  PROVE  /\ LocatedIn(cc, u) \in Contexts
         /\ LocatedIn(cc, u).locs = [cc.locs EXCEPT ![u] = Home[TypeName[u]]]
         /\ LocatedIn(cc, u).tasks = cc.tasks /\ LocatedIn(cc, u).types = cc.types
         /\ LocatedIn(cc, u).deps = cc.deps /\ LocatedIn(cc, u).errs = cc.errs
  BY ConstantFacts DEF LocatedIn, Contexts

LEMMA SpawnedType ==
  ASSUME NEW cc \in Contexts, NEW u \in Urls, NEW k \in Tasks
  PROVE  /\ Spawned(cc, u, k) \in Contexts
         /\ Spawned(cc, u, k).locs = cc.locs /\ Spawned(cc, u, k).types = cc.types
         /\ Spawned(cc, u, k).deps = cc.deps /\ Spawned(cc, u, k).errs = cc.errs
         /\ \A j \in Tasks : Spawned(cc, u, k).tasks[j] =
              IF j = k THEN "wait" ELSE IF j[1] = u /\ j[2] # 0 THEN "check" ELSE cc.tasks[j]
         /\ \A v \in Urls : Spawned(cc, u, k).tasks[<<v, 0>>] =
              IF <<v, 0>> = k THEN "wait" ELSE cc.tasks[<<v, 0>>]
  BY ConstantFacts DEF Spawned, Contexts

\* The find's own task, and that it has its type when it is no longer fetching.
RootInv ==
  \A c \in Callers : pc[c] = "convert" =>
    /\ conv[c].tasks[<<want[c], 0>>] \in {"fetch", "wait", "done"}
    /\ conv[c].tasks[<<want[c], 0>>] # "fetch" => conv[c].locs[want[c]] # NoFile

Inv == TypeOK /\ RootInv /\ FoundIsKept

\* The steps that change the context of one find only.
LEMMA ContextStep ==
  ASSUME Inv, NEW c \in Callers, NEW dd \in Contexts,
         pc[c] = "convert", conv' = [conv EXCEPT ![c] = dd],
         UNCHANGED <<typeCache, whole, typeURLs, pc, want, result>>,
         \A v \in Urls : conv[c].locs[v] # NoFile => dd.locs[v] # NoFile,
         \/ dd.tasks[<<want[c], 0>>] = conv[c].tasks[<<want[c], 0>>]
         \/ dd.tasks[<<want[c], 0>>] \in {"wait", "done"} /\ dd.locs[want[c]] # NoFile
  PROVE  Inv'
<1>1. TypeOK'
  BY DEF Inv, TypeOK
<1>2. RootInv'
  <2> SUFFICES ASSUME NEW b \in Callers, pc'[b] = "convert"
               PROVE  /\ conv'[b].tasks[<<want'[b], 0>>] \in {"fetch", "wait", "done"}
                      /\ conv'[b].tasks[<<want'[b], 0>>] # "fetch" => conv'[b].locs[want'[b]] # NoFile
    BY DEF RootInv
  <2>1. CASE b = c
    BY <2>1 DEF Inv, RootInv, TypeOK
  <2>2. CASE b # c
    BY <2>2 DEF Inv, RootInv, TypeOK
  <2> QED
    BY <2>1, <2>2
<1>3. FoundIsKept'
  BY DEF Inv, FoundIsKept
<1> QED
  BY <1>1, <1>2, <1>3 DEF Inv

\* The steps that end a find, or hand it to the fallback resolver.
LEMMA LeaveStep ==
  ASSUME Inv, NEW c \in Callers, NEW p \in {"idle", "fallback"},
         pc' = [pc EXCEPT ![c] = p], want' = want,
         conv' \in [Callers -> Contexts], \A b \in Callers \ {c} : conv'[b] = conv[b],
         NEW r \in {"none", "ok", "notFound", "failed"}, result' = [result EXCEPT ![c] = r],
         typeCache' \in [Urls -> {"none", "program", "fetched"}],
         typeURLs' \in [Names -> Urls \cup {NoUrl}], whole' \in [Urls -> SUBSET Nesting],
         \A u \in Urls : typeCache[u] # "none" => typeCache'[u] # "none",
         r = "ok" => typeCache'[want[c]] # "none" \/ TypeName[want[c]] \in Fallback
  PROVE  Inv'
<1>1. TypeOK'
  BY DEF Inv, TypeOK
<1>2. RootInv'
  BY DEF Inv, RootInv, TypeOK
<1>3. FoundIsKept'
  BY DEF Inv, FoundIsKept, TypeOK
<1> QED
  BY <1>1, <1>2, <1>3 DEF Inv

\* A find that may go on with its own task or another.
LEMMA AtFacts ==
  ASSUME Inv, NEW c \in Callers, NEW k \in Tasks, NEW x, At(c, k, x)
  PROVE  /\ pc[c] = "convert" /\ conv[c].tasks[k] = x /\ conv[c] \in Contexts
         /\ want[c] \in Urls /\ Target(k) \in Urls /\ k[1] \in Urls
  BY ConstantFacts DEF At, Inv, TypeOK

\* A step that leaves the registry and the other finds alone.
LEMMA QuietFacts ==
  ASSUME Inv, UNCHANGED Shared
  PROVE  UNCHANGED <<typeCache, whole, typeURLs, pc, want, result>>
  BY DEF Shared, Inv, TypeOK

LEMMA CheckStep ==
  ASSUME Inv, NEW c \in Callers, NEW k \in Tasks, Check(c, k) PROVE Inv'
<1> DEFINE x == IF typeCache[Target(k)] # "none" THEN "describe" ELSE "fetch"
           dd == [conv[c] EXCEPT !.tasks[k] = x]
<1>1. /\ pc[c] = "convert" /\ conv[c].tasks[k] = "check" /\ conv[c] \in Contexts
      /\ want[c] \in Urls
  BY AtFacts DEF Check
<1>2. conv' = [conv EXCEPT ![c] = dd] /\ UNCHANGED Shared
  BY DEF Check
<1>3. dd \in Contexts /\ dd.locs = conv[c].locs /\ dd.tasks = [conv[c].tasks EXCEPT ![k] = x]
  BY <1>1 DEF Contexts
<1>4. k # <<want[c], 0>>
  BY <1>1 DEF Inv, RootInv
<1> HIDE DEF dd
<1>5. /\ \A v \in Urls : conv[c].locs[v] # NoFile => dd.locs[v] # NoFile
      /\ \/ dd.tasks[<<want[c], 0>>] = conv[c].tasks[<<want[c], 0>>]
         \/ dd.tasks[<<want[c], 0>>] \in {"wait", "done"} /\ dd.locs[want[c]] # NoFile
  BY <1>1, <1>3, <1>4, ContextFacts
<1> QED
  BY <1>1, <1>2, <1>3, <1>5, QuietFacts, ContextStep

LEMMA ImportsType ==
  ASSUME NEW S \in SUBSET Names
  PROVE  Imports(S) \subseteq Files \X (Files \cup {NoFile})
  BY ConstantFacts DEF Imports

LEMMA DescribedType ==
  ASSUME TypeOK, NEW cc \in Contexts, NEW url \in Urls, NEW ref \in Files, NEW S \in SUBSET Names
  PROVE  /\ Described(cc, url, ref, S) \in Contexts
         /\ Described(cc, url, ref, S).tasks = cc.tasks
         /\ Described(cc, url, ref, S).errs = cc.errs
         /\ Described(cc, url, ref, S).types = cc.types \cup S
         /\ Described(cc, url, ref, S).deps =
              cc.deps \cup Imports(S) \cup ({<<ref, Home[TypeName[url]]>>} \ {<<ref, ref>>})
         /\ \A v \in Urls : Described(cc, url, ref, S).locs[v] =
              IF TypeName[v] \in S /\ (v = URLForType(TypeName[v]) \/ v = url)
              THEN Home[TypeName[v]] ELSE cc.locs[v]
         /\ \A v \in Urls : cc.locs[v] # NoFile => Described(cc, url, ref, S).locs[v] # NoFile
<1> DEFINE f == Home[TypeName[url]]
           T == cc.types \cup S
           M == cc.whole \cup (S \cap whole[url])
           D == cc.deps \cup Imports(S) \cup ({<<ref, f>>} \ {<<ref, ref>>})
           L == [u \in Urls |->
                  IF TypeName[u] \in S /\ (u = URLForType(TypeName[u]) \/ u = url)
                  THEN Home[TypeName[u]] ELSE cc.locs[u]]
<1>1. Described(cc, url, ref, S) = [cc EXCEPT !.types = T, !.whole = M, !.deps = D, !.locs = L]
  BY DEF Described
<1>2. T \subseteq Names /\ M \subseteq Nesting
  BY ContextFacts DEF TypeOK
<1>3. D \subseteq Files \X (Files \cup {NoFile})
  <2>1. {<<ref, f>>} \subseteq Files \X (Files \cup {NoFile})
    BY ConstantFacts
  <2> QED
    BY <2>1, ContextFacts, ImportsType
<1>4. /\ L \in [Urls -> Files \cup {NoFile}]
      /\ \A v \in Urls : cc.locs[v] # NoFile => L[v] # NoFile
  BY ContextFacts, ConstantFacts
<1> HIDE DEF T, M, D, L
<1>5. LET dd == Described(cc, url, ref, S) IN
      /\ dd \in Contexts
      /\ dd.tasks = cc.tasks /\ dd.errs = cc.errs /\ dd.types = T /\ dd.deps = D /\ dd.locs = L
  BY <1>1, <1>2, <1>3, <1>4 DEF Contexts
<1> QED
  BY <1>4, <1>5 DEF T, D, L

LEMMA VisitedType ==
  ASSUME NEW n \in Names, NEW seen
  PROVE  Visited(n, seen) \subseteq Names
<1>1. Reachable[n] \subseteq Names
  BY DEF Reachable
<1> QED
  BY <1>1 DEF Visited

LEMMA DescribeStep ==
  ASSUME Inv, NEW c \in Callers, NEW k \in Tasks, Describe(c, k) PROVE Inv'
<1> DEFINE url == Target(k)
           ref == Home[TypeName[k[1]]]
           new == Visited(TypeName[url], Located(conv[c]))
           cc == Described(conv[c], url, ref, new)
           dd == [cc EXCEPT !.tasks[k] = "done"]
<1>1. /\ pc[c] = "convert" /\ conv[c].tasks[k] = "describe" /\ conv[c] \in Contexts
      /\ want[c] \in Urls /\ url \in Urls /\ k[1] \in Urls
  BY AtFacts DEF Describe
<1>2. conv' = [conv EXCEPT ![c] = dd] /\ UNCHANGED Shared
  BY DEF Describe
<1>3. new \in SUBSET Names /\ ref \in Files
  BY <1>1, ConstantFacts, VisitedType
<1>4. /\ cc \in Contexts /\ cc.tasks = conv[c].tasks
      /\ \A v \in Urls : conv[c].locs[v] # NoFile => cc.locs[v] # NoFile
  BY <1>1, <1>3, DescribedType DEF Inv
<1> HIDE DEF cc
<1>5. dd \in Contexts /\ dd.locs = cc.locs /\ dd.tasks = [conv[c].tasks EXCEPT ![k] = "done"]
  BY <1>4 DEF Contexts
<1>6. k # <<want[c], 0>>
  BY <1>1 DEF Inv, RootInv
<1> HIDE DEF dd
<1>7. /\ \A v \in Urls : conv[c].locs[v] # NoFile => dd.locs[v] # NoFile
      /\ \/ dd.tasks[<<want[c], 0>>] = conv[c].tasks[<<want[c], 0>>]
         \/ dd.tasks[<<want[c], 0>>] \in {"wait", "done"} /\ dd.locs[want[c]] # NoFile
  BY <1>1, <1>4, <1>5, <1>6, ContextFacts
<1> QED
  BY <1>1, <1>2, <1>5, <1>7, QuietFacts, ContextStep

LEMMA FetchedMessageStep ==
  ASSUME Inv, NEW c \in Callers, NEW k \in Tasks, FetchedMessage(c, k) PROVE Inv'
<1> DEFINE cc == conv[c]
           url == Target(k)
           dd == IF cc.locs[url] # NoFile THEN Ended(cc, k, "none")
                 ELSE Spawned(Recorded(cc, url), url, k)
<1>1. /\ pc[c] = "convert" /\ cc \in Contexts
      /\ want[c] \in Urls /\ url \in Urls
  BY AtFacts DEF FetchedMessage
<1>2. conv' = [conv EXCEPT ![c] = dd] /\ UNCHANGED Shared
  BY DEF FetchedMessage
<1>3. <<want[c], 0>> \in Tasks /\ (k = <<want[c], 0>> => url = want[c])
  BY <1>1, ConstantFacts
<1>4. /\ dd \in Contexts
      /\ \A v \in Urls : cc.locs[v] # NoFile => dd.locs[v] # NoFile
      /\ \/ dd.tasks[<<want[c], 0>>] = cc.tasks[<<want[c], 0>>]
         \/ dd.tasks[<<want[c], 0>>] \in {"wait", "done"} /\ dd.locs[want[c]] # NoFile
  <2>1. CASE cc.locs[url] # NoFile
    <3>1. dd = Ended(cc, k, "none")
      BY <2>1
    <3>2. /\ Ended(cc, k, "none") \in Contexts /\ Ended(cc, k, "none").locs = cc.locs
          /\ Ended(cc, k, "none").tasks = [cc.tasks EXCEPT ![k] = "done"]
      BY <1>1, EndedType
    <3> HIDE DEF dd
    <3> QED
      BY <1>1, <1>3, <2>1, <3>1, <3>2, ContextFacts
  <2>2. CASE cc.locs[url] = NoFile
    <3>1. dd = Spawned(Recorded(cc, url), url, k)
      BY <2>2
    <3>2. /\ Recorded(cc, url) \in Contexts /\ Recorded(cc, url).tasks = cc.tasks
          /\ Recorded(cc, url).locs = [cc.locs EXCEPT ![url] = Home[TypeName[url]]]
      BY <1>1, RecordedType
    <3>3. Home[TypeName[url]] # NoFile
      BY <1>1, ConstantFacts
    <3> HIDE DEF dd
    <3>4. /\ dd \in Contexts /\ dd.locs = [cc.locs EXCEPT ![url] = Home[TypeName[url]]]
          /\ dd.tasks[<<want[c], 0>>] = IF <<want[c], 0>> = k THEN "wait" ELSE cc.tasks[<<want[c], 0>>]
      BY <1>1, <3>1, <3>2, SpawnedType
    <3> QED
      BY <1>1, <1>3, <3>3, <3>4, ContextFacts
  <2> QED
    BY <2>1, <2>2
<1> HIDE DEF dd
<1> QED
  BY <1>1, <1>2, <1>4, QuietFacts, ContextStep

LEMMA FetchedEnumStep ==
  ASSUME Inv, NEW c \in Callers, NEW k \in Tasks, FetchedEnum(c, k) PROVE Inv'
<1> DEFINE cc == conv[c]
           url == Target(k)
           dd == Ended(Recorded(cc, url), k, "none")
<1>1. /\ pc[c] = "convert" /\ cc \in Contexts
      /\ want[c] \in Urls /\ url \in Urls
  BY AtFacts DEF FetchedEnum
<1>2. conv' = [conv EXCEPT ![c] = dd] /\ UNCHANGED Shared
  BY DEF FetchedEnum
<1>3. <<want[c], 0>> \in Tasks /\ (k = <<want[c], 0>> => url = want[c])
  BY <1>1, ConstantFacts
<1>4. /\ dd \in Contexts /\ dd.locs = [cc.locs EXCEPT ![url] = Home[TypeName[url]]]
      /\ dd.tasks = [cc.tasks EXCEPT ![k] = "done"]
  <2>1. /\ Recorded(cc, url) \in Contexts /\ Recorded(cc, url).tasks = cc.tasks
        /\ Recorded(cc, url).locs = [cc.locs EXCEPT ![url] = Home[TypeName[url]]]
    BY <1>1, RecordedType
  <2>2. Ended(Recorded(cc, url), k, "none") \in Contexts
        /\ Ended(Recorded(cc, url), k, "none").locs = Recorded(cc, url).locs
        /\ Ended(Recorded(cc, url), k, "none").tasks = [Recorded(cc, url).tasks EXCEPT ![k] = "done"]
    BY <2>1, EndedType
  <2> QED
    BY <2>1, <2>2
<1>5. Home[TypeName[url]] # NoFile
  BY <1>1, ConstantFacts
<1> HIDE DEF dd
<1>6. /\ \A v \in Urls : cc.locs[v] # NoFile => dd.locs[v] # NoFile
      /\ \/ dd.tasks[<<want[c], 0>>] = cc.tasks[<<want[c], 0>>]
         \/ dd.tasks[<<want[c], 0>>] \in {"wait", "done"} /\ dd.locs[want[c]] # NoFile
  BY <1>1, <1>3, <1>4, <1>5, ContextFacts
<1> QED
  BY <1>1, <1>2, <1>4, <1>6, QuietFacts, ContextStep

\* Return ends the find and forgets its context.
LEMMA ReturnStep ==
  ASSUME Inv, NEW c \in Callers, NEW r \in {"ok", "notFound", "failed"}, Return(c, r),
         UNCHANGED <<typeCache, whole, typeURLs, want>>,
         r = "ok" => typeCache[want[c]] # "none" \/ TypeName[want[c]] \in Fallback
  PROVE  Inv'
<1>1. /\ pc' = [pc EXCEPT ![c] = "idle"] /\ result' = [result EXCEPT ![c] = r]
      /\ conv' \in [Callers -> Contexts] /\ \A b \in Callers \ {c} : conv'[b] = conv[b]
  BY NewContextType DEF Return, Inv, TypeOK
<1>2. /\ typeCache' \in [Urls -> {"none", "program", "fetched"}]
      /\ typeURLs' \in [Names -> Urls \cup {NoUrl}] /\ whole' \in [Urls -> SUBSET Nesting]
      /\ \A u \in Urls : typeCache[u] # "none" => typeCache'[u] # "none"
  BY DEF Inv, TypeOK
<1> QED
  BY <1>1, <1>2, LeaveStep

\* The find goes on to the fallback resolver.
LEMMA ToFallbackStep ==
  ASSUME Inv, NEW c \in Callers, NEW dd \in Contexts,
         pc' = [pc EXCEPT ![c] = "fallback"], conv' = [conv EXCEPT ![c] = dd],
         UNCHANGED <<typeCache, whole, typeURLs, want, result>>
  PROVE  Inv'
<1>1. TypeOK'
  BY DEF Inv, TypeOK
<1>2. RootInv'
  BY DEF Inv, RootInv, TypeOK
<1>3. FoundIsKept'
  BY DEF Inv, FoundIsKept
<1> QED
  BY <1>1, <1>2, <1>3 DEF Inv

LEMMA NotFetchedStep ==
  ASSUME Inv, NEW c \in Callers, NEW k \in Tasks, NotFetched(c, k) PROVE Inv'
<1> DEFINE cc == conv[c]
           url == Target(k)
           n == TypeName[url]
           found == Ended(LocatedIn(cc, url), k, "none")
           lost == Ended(cc, k, "notFound")
<1>1. /\ pc[c] = "convert" /\ cc \in Contexts
      /\ want[c] \in Urls /\ url \in Urls
  BY AtFacts DEF NotFetched
<1>2. <<want[c], 0>> \in Tasks /\ (k = <<want[c], 0>> => url = want[c])
  BY <1>1, ConstantFacts
<1>3. UNCHANGED <<typeCache, whole, typeURLs, want, result>>
  BY DEF NotFetched, Inv, TypeOK
<1>4. CASE n \in Fallback
  <2>1. conv' = [conv EXCEPT ![c] = found] /\ pc' = pc
    BY <1>4 DEF NotFetched
  <2>2. /\ LocatedIn(cc, url) \in Contexts /\ LocatedIn(cc, url).tasks = cc.tasks
        /\ LocatedIn(cc, url).locs = [cc.locs EXCEPT ![url] = Home[n]]
    BY <1>1, LocatedType
  <2>3. /\ found \in Contexts /\ found.locs = [cc.locs EXCEPT ![url] = Home[n]]
        /\ found.tasks = [cc.tasks EXCEPT ![k] = "done"]
    <3>1. /\ Ended(LocatedIn(cc, url), k, "none") \in Contexts
          /\ Ended(LocatedIn(cc, url), k, "none").locs = LocatedIn(cc, url).locs
          /\ Ended(LocatedIn(cc, url), k, "none").tasks =
               [LocatedIn(cc, url).tasks EXCEPT ![k] = "done"]
      BY <2>2, EndedType
    <3> QED
      BY <2>2, <3>1
  <2>4. Home[n] # NoFile
    BY <1>1, ConstantFacts
  <2> HIDE DEF found
  <2>5. /\ \A v \in Urls : cc.locs[v] # NoFile => found.locs[v] # NoFile
        /\ \/ found.tasks[<<want[c], 0>>] = cc.tasks[<<want[c], 0>>]
           \/ found.tasks[<<want[c], 0>>] \in {"wait", "done"} /\ found.locs[want[c]] # NoFile
    BY <1>1, <1>2, <2>3, <2>4, ContextFacts
  <2> QED
    BY <1>1, <1>3, <2>1, <2>3, <2>5, ContextStep
<1>5. CASE n \notin Fallback
  <2>1. conv' = [conv EXCEPT ![c] = lost]
        /\ pc' = IF k[2] = 0 THEN [pc EXCEPT ![c] = "fallback"] ELSE pc
    BY <1>5 DEF NotFetched
  <2>2. /\ lost \in Contexts /\ lost.locs = cc.locs
        /\ lost.tasks = [cc.tasks EXCEPT ![k] = "done"]
    BY <1>1, EndedType
  <2> HIDE DEF lost
  <2>3. CASE k[2] = 0
    BY <1>1, <1>3, <2>1, <2>2, <2>3, ToFallbackStep
  <2>4. CASE k[2] # 0
    <3>1. k # <<want[c], 0>> /\ pc' = pc
      BY <2>1, <2>4
    <3>2. /\ \A v \in Urls : cc.locs[v] # NoFile => lost.locs[v] # NoFile
          /\ \/ lost.tasks[<<want[c], 0>>] = cc.tasks[<<want[c], 0>>]
             \/ lost.tasks[<<want[c], 0>>] \in {"wait", "done"} /\ lost.locs[want[c]] # NoFile
      BY <1>1, <2>2, <3>1, ContextFacts
    <3> QED
      BY <1>1, <1>3, <2>1, <2>2, <3>1, <3>2, ContextStep
  <2> QED
    BY <2>3, <2>4
<1> QED
  BY <1>4, <1>5

\* A task that is not the find's own ends.
LEMMA EndStep ==
  ASSUME Inv, NEW c \in Callers, NEW k \in Tasks, k[2] # 0, pc[c] = "convert",
         NEW e \in {"none", "notFound", "failed"}, NEW cc \in Contexts,
         cc.locs = conv[c].locs, cc.tasks = conv[c].tasks,
         conv' = [conv EXCEPT ![c] = Ended(cc, k, e)],
         UNCHANGED <<typeCache, whole, typeURLs, pc, want, result>>
  PROVE  Inv'
<1>1. PICK dd : dd = Ended(cc, k, e)
  OBVIOUS
<1>2. k # <<want[c], 0>>
  OBVIOUS
<1>3. conv' = [conv EXCEPT ![c] = dd]
  BY <1>1
<1>4. /\ dd \in Contexts /\ dd.locs = cc.locs
      /\ dd.tasks = [cc.tasks EXCEPT ![k] = "done"]
  BY ONLY <1>1, cc \in Contexts, k \in Tasks, e \in {"none", "notFound", "failed"}, EndedType
<1>5. /\ \A v \in Urls : conv[c].locs[v] # NoFile => dd.locs[v] # NoFile
      /\ \/ dd.tasks[<<want[c], 0>>] = conv[c].tasks[<<want[c], 0>>]
         \/ dd.tasks[<<want[c], 0>>] \in {"wait", "done"} /\ dd.locs[want[c]] # NoFile
  BY <1>2, <1>4, ContextFacts
<1> QED
  BY <1>3, <1>4, <1>5, ContextStep

LEMMA FetchFailsStep ==
  ASSUME Inv, NEW c \in Callers, NEW k \in Tasks, FetchFails(c, k) PROVE Inv'
<1>1. pc[c] = "convert" /\ conv[c] \in Contexts
  BY AtFacts DEF FetchFails
<1>2. UNCHANGED <<typeCache, whole, typeURLs, want>>
  BY DEF FetchFails, Inv, TypeOK
<1>3. CASE k[2] = 0
  <2>1. Return(c, "failed")
    BY <1>3 DEF FetchFails
  <2> QED
    BY <1>2, <2>1, ReturnStep
<1>4. CASE k[2] # 0
  <2>1. conv' = [conv EXCEPT ![c] = Ended(conv[c], k, "failed")] /\ UNCHANGED <<pc, result>>
    BY <1>4 DEF FetchFails
  <2> QED
    BY <1>1, <1>2, <1>4, <2>1, EndStep
<1> QED
  BY <1>3, <1>4

LEMMA GroupDoneStep ==
  ASSUME Inv, NEW c \in Callers, NEW k \in Tasks, GroupDone(c, k) PROVE Inv'
<1> DEFINE cc == conv[c]
           url == Target(k)
           f == Home[TypeName[url]]
           used == {cc.locs[Fields[TypeName[url]][i]] : i \in DOMAIN Fields[TypeName[url]]}
           more == [cc EXCEPT !.deps = @ \cup ({f} \X (used \ {f}))]
<1>1. /\ pc[c] = "convert" /\ cc \in Contexts /\ cc.tasks[k] = "wait"
      /\ want[c] \in Urls /\ url \in Urls
  BY AtFacts DEF GroupDone
<1>2. UNCHANGED <<typeCache, whole, typeURLs, want>>
  BY DEF GroupDone, Inv, TypeOK
<1>3. CASE cc.errs[url] = "none"
  <2>1. conv' = [conv EXCEPT ![c] = Ended(more, k, "none")] /\ UNCHANGED <<pc, result>>
    BY <1>3 DEF GroupDone
  <2>2. f \in Files /\ used \subseteq Files \cup {NoFile}
    <3>1. \A i \in DOMAIN Fields[TypeName[url]] : Fields[TypeName[url]][i] \in Urls
      BY <1>1, RemoteAssumption
    <3> QED
      BY <1>1, <3>1, ConstantFacts, ContextFacts
  <2> HIDE DEF f, used
  <2>3. more \in Contexts /\ more.locs = cc.locs /\ more.tasks = cc.tasks
    BY <1>1, <2>2 DEF Contexts
  <2> HIDE DEF more
  <2>4. PICK dd : /\ dd = Ended(more, k, "none") /\ dd \in Contexts /\ dd.locs = cc.locs
                  /\ dd.tasks = [cc.tasks EXCEPT ![k] = "done"]
    BY <2>3, EndedType
  <2>5. /\ \A v \in Urls : cc.locs[v] # NoFile => dd.locs[v] # NoFile
        /\ \/ dd.tasks[<<want[c], 0>>] = cc.tasks[<<want[c], 0>>]
           \/ dd.tasks[<<want[c], 0>>] \in {"wait", "done"} /\ dd.locs[want[c]] # NoFile
    <3>1. cc.locs[want[c]] # NoFile \/ cc.tasks[<<want[c], 0>>] = "fetch"
      BY <1>1 DEF Inv, RootInv
    <3> HIDE DEF cc
    <3>2. dd.tasks[<<want[c], 0>>] =
            IF <<want[c], 0>> = k THEN "done" ELSE cc.tasks[<<want[c], 0>>]
      BY <1>1, <2>4, ContextFacts, ConstantFacts
    <3> QED
      BY <1>1, <2>4, <3>1, <3>2
  <2> QED
    BY <1>1, <1>2, <2>1, <2>4, <2>5, ContextStep
<1>4. CASE cc.errs[url] # "none" /\ k[2] # 0
  <2>1. conv' = [conv EXCEPT ![c] = Ended(cc, k, cc.errs[url])] /\ UNCHANGED <<pc, result>>
    BY <1>4 DEF GroupDone
  <2>2. cc.errs[url] \in {"none", "notFound", "failed"}
    BY <1>1, ContextFacts
  <2> QED
    BY <1>1, <1>2, <1>4, <2>1, <2>2, EndStep
<1>5. CASE cc.errs[url] # "none" /\ k[2] = 0 /\ cc.errs[url] = "notFound"
  <2>1. pc' = [pc EXCEPT ![c] = "fallback"] /\ UNCHANGED <<conv, result>>
    BY <1>5 DEF GroupDone
  <2>2. conv' = [conv EXCEPT ![c] = cc]
    BY <2>1 DEF Inv, TypeOK
  <2> QED
    BY <1>1, <1>2, <2>1, <2>2, ToFallbackStep
<1>6. CASE cc.errs[url] # "none" /\ k[2] = 0 /\ cc.errs[url] # "notFound"
  <2>1. Return(c, "failed")
    BY <1>6 DEF GroupDone
  <2> QED
    BY <1>2, <2>1, ReturnStep
<1> QED
  BY <1>3, <1>4, <1>5, <1>6

LEMMA TaskStep ==
  ASSUME Inv, NEW c \in Callers, NEW k \in Tasks, Task(c, k) PROVE Inv'
  BY CheckStep, DescribeStep, FetchedMessageStep, FetchedEnumStep, NotFetchedStep,
     FetchFailsStep, GroupDoneStep DEF Task

LEMMA LookStep == ASSUME Inv, NEW c \in Callers, Look(c) PROVE Inv'
<1> DEFINE w == want[c]
           dd == [conv[c] EXCEPT !.tasks[<<w, 0>>] = "fetch"]
<1>1. w \in Urls /\ conv[c] \in Contexts /\ <<w, 0>> \in Tasks
  BY ConstantFacts DEF Inv, TypeOK
<1>2. UNCHANGED <<typeCache, whole, typeURLs, want>>
  BY DEF Look, Inv, TypeOK
<1>3. CASE typeCache[w] # "none"
  <2>1. Return(c, "ok")
    BY <1>3 DEF Look
  <2> QED
    BY <1>2, <1>3, <2>1, ReturnStep
<1>4. CASE typeCache[w] = "none"
  <2>1. /\ pc' = [pc EXCEPT ![c] = "convert"] /\ result' = result
        /\ conv' = [conv EXCEPT ![c] = dd]
    BY <1>4 DEF Look
  <2>2. dd \in Contexts /\ dd.tasks[<<w, 0>>] = "fetch"
    BY <1>1 DEF Contexts
  <2> HIDE DEF dd
  <2>3. TypeOK'
    BY <1>2, <2>1, <2>2 DEF Inv, TypeOK
  <2>4. RootInv'
    BY <1>2, <2>1, <2>2 DEF Inv, RootInv, TypeOK
  <2>5. FoundIsKept'
    BY <1>2, <2>1 DEF Inv, FoundIsKept
  <2> QED
    BY <2>3, <2>4, <2>5 DEF Inv
<1> QED
  BY <1>3, <1>4

\* The URLs of types stay or become URLs.
LEMMA WithURLsType ==
  ASSUME typeURLs \in [Names -> Urls \cup {NoUrl}], NEW P \in SUBSET Urls
  PROVE  WithURLs(P) \in [Names -> Urls \cup {NoUrl}]
<1>1. ASSUME NEW n \in Names, \E u \in P : TypeName[u] = n
      PROVE  (CHOOSE u \in P : TypeName[u] = n) \in Urls
  BY <1>1
<1> QED
  BY <1>1 DEF WithURLs

\* A finished conversion stores the type that was asked for, or does not succeed.
LEMMA CommitStep == ASSUME Inv, NEW c \in Callers, Commit(c) PROVE Inv'
<1> DEFINE cc == conv[c]
           located == {u \in Urls : cc.locs[u] # NoFile}
           found == {u \in located : TypeName[u] \in Defined(cc)}
<1>1. /\ pc[c] = "convert" /\ cc.tasks[<<want[c], 0>>] = "done" /\ cc \in Contexts
      /\ want[c] \in located
  BY DEF Commit, Inv, RootInv, TypeOK
<1>2. want' = want
  BY DEF Commit, Inv, TypeOK
<1>3. CASE ~Converts(cc)
  <2>1. Return(c, "failed") /\ UNCHANGED <<typeCache, whole, typeURLs>>
    BY <1>3 DEF Commit
  <2> QED
    BY <1>2, <2>1, ReturnStep
<1>4. CASE Converts(cc)
  <2>1. PICK W \in IF found = located THEN {located} ELSE SUBSET found :
          /\ typeCache' = [u \in Urls |-> IF u \in Stored(c, W) THEN "fetched" ELSE typeCache[u]]
          /\ whole' = [u \in Urls |-> IF u \in Stored(c, W)
                                     THEN cc.whole \cup (Nesting \cap (Defined(cc) \ cc.types))
                                     ELSE whole[u]]
          /\ \E P \in OnePerType(Stored(c, W)) : typeURLs' = WithURLs(P)
          /\ IF found = located THEN Return(c, "ok")
             ELSE pc' = [pc EXCEPT ![c] = "fallback"] /\ UNCHANGED <<conv, result>>
    BY <1>4 DEF Commit
  <2>2. W \subseteq Urls /\ (found = located => want[c] \in W)
    BY <1>1, <2>1
  <2>3. /\ typeCache' \in [Urls -> {"none", "program", "fetched"}]
        /\ \A u \in Urls : typeCache[u] # "none" => typeCache'[u] # "none"
        /\ \A u \in W : typeCache'[u] # "none"
    BY <2>1, <2>2 DEF Stored, Inv, TypeOK
  <2>4. typeURLs' \in [Names -> Urls \cup {NoUrl}] /\ whole' \in [Urls -> SUBSET Nesting]
    <3>1. typeURLs' \in [Names -> Urls \cup {NoUrl}]
      BY <2>1, <2>2, WithURLsType DEF OnePerType, Stored, Inv, TypeOK
    <3>2. cc.whole \cup (Nesting \cap (Defined(cc) \ cc.types)) \subseteq Nesting
      BY <1>1, ContextFacts
    <3>3. whole' \in [Urls -> SUBSET Nesting]
      BY <2>1, <3>2 DEF Inv, TypeOK
    <3> QED
      BY <3>1, <3>3
  <2>5. CASE found = located
    <3>1. /\ pc' = [pc EXCEPT ![c] = "idle"] /\ result' = [result EXCEPT ![c] = "ok"]
          /\ conv' \in [Callers -> Contexts] /\ \A b \in Callers \ {c} : conv'[b] = conv[b]
      BY <2>1, <2>5, NewContextType DEF Return, Inv, TypeOK
    <3> QED
      BY <1>2, <2>2, <2>3, <2>4, <2>5, <3>1, LeaveStep
  <2>6. CASE found # located
    <3>1. pc' = [pc EXCEPT ![c] = "fallback"] /\ conv' = conv /\ result' = result
      BY <2>1, <2>6
    <3>2. TypeOK'
      BY <1>2, <2>3, <2>4, <3>1 DEF Inv, TypeOK
    <3>3. RootInv'
      BY <1>2, <3>1 DEF Inv, RootInv, TypeOK
    <3>4. FoundIsKept'
      BY <1>2, <2>3, <3>1 DEF Inv, FoundIsKept, TypeOK
    <3> QED
      BY <3>2, <3>3, <3>4 DEF Inv
  <2> QED
    BY <2>5, <2>6
<1> QED
  BY <1>3, <1>4

LEMMA RegisterStep ==
  ASSUME Inv, NEW S \in Registrations, Register(S) PROVE Inv'
<1>1. S \subseteq Urls
  BY RemoteAssumption DEF Registrations
<1>2. /\ typeCache' \in [Urls -> {"none", "program", "fetched"}]
      /\ \A u \in Urls : typeCache[u] # "none" => typeCache'[u] # "none"
  BY DEF Register, Inv, TypeOK
<1>3. typeURLs' \in [Names -> Urls \cup {NoUrl}] /\ whole' \in [Urls -> SUBSET Nesting]
  BY <1>1, WithURLsType DEF Register, Inv, TypeOK
<1>4. TypeOK'
  BY <1>2, <1>3 DEF Register, Inv, TypeOK
<1>5. RootInv'
  BY DEF Register, Inv, RootInv
<1>6. FoundIsKept'
  BY <1>2 DEF Register, Inv, FoundIsKept, TypeOK
<1> QED
  BY <1>4, <1>5, <1>6 DEF Inv

LEMMA BeginStep ==
  ASSUME Inv, NEW c \in Callers, NEW u \in Urls, Begin(c, u) PROVE Inv'
<1>1. TypeOK'
  BY DEF Begin, Inv, TypeOK
<1>2. RootInv'
  BY DEF Begin, Inv, RootInv, TypeOK
<1>3. FoundIsKept'
  BY DEF Begin, Inv, FoundIsKept, TypeOK
<1> QED
  BY <1>1, <1>2, <1>3 DEF Inv

LEMMA InvStep == Inv /\ [Next]_vars => Inv'
<1> SUFFICES ASSUME Inv, [Next]_vars PROVE Inv'
  OBVIOUS
<1>1. ASSUME NEW c \in Callers, Work(c) PROVE Inv'
  <2>1. CASE FallbackLookup(c)
    BY <2>1, ReturnStep DEF FallbackLookup, Inv, TypeOK
  <2> QED
    BY <1>1, <2>1, LookStep, CommitStep, TaskStep DEF Work
<1>2. ASSUME NEW c \in Callers, NEW u \in Wanted[c], Begin(c, u) PROVE Inv'
  <2>1. u \in Urls
    BY <1>2, RemoteAssumption
  <2> QED
    BY <1>2, <2>1, BeginStep
<1>3. ASSUME NEW S \in Registrations, Register(S) PROVE Inv'
  BY <1>3, RegisterStep
<1>4. CASE UNCHANGED vars
  BY <1>4 DEF vars, Inv, TypeOK, RootInv, FoundIsKept
<1> QED
  BY <1>1, <1>2, <1>3, <1>4 DEF Next

LEMMA InvInit == Init => Inv
<1> SUFFICES ASSUME Init PROVE Inv
  OBVIOUS
<1>1. TypeOK
  BY NewContextType DEF Init, TypeOK
<1> QED
  BY <1>1 DEF Init, Inv, RootInv, FoundIsKept

\* For any types and references, the registry and the contexts of the finds keep their
\* types: a type is in one file, and only files and types are recorded.
THEOREM TypeCorrect == Spec => []TypeOK
<1>1. Inv => TypeOK
  BY DEF Inv
<1> QED
  BY <1>1, InvInit, InvStep, PTL DEF Spec

\* Whatever other finds and the program store meanwhile, a type that was found by
\* fetching it is in the registry when the find returns, and stays there.
THEOREM FoundStays == Spec => []FoundIsKept
<1>1. Inv => FoundIsKept
  BY DEF Inv
<1> QED
  BY <1>1, InvInit, InvStep, PTL DEF Spec

-----------------------------------------------------------------------------
(* What can be reached, and what is needed. *)

LEMMA RefsType ==
  ASSUME NEW n \in Names
  PROVE  Refs(n) \subseteq Names /\ FieldUrls(n) \subseteq Urls
<1>1. FieldUrls(n) \subseteq Urls
  BY RemoteAssumption DEF FieldUrls
<1> QED
  BY <1>1, RemoteAssumption DEF Refs

\* A field's URL, and its type.
LEMMA RefsInType ==
  ASSUME NEW n \in Names, NEW W
  PROVE  RefsIn(n, W) \subseteq Names
  BY RefsType, RemoteAssumption DEF RefsIn

LEMMA TargetFacts ==
  ASSUME NEW k \in Tasks
  PROVE  /\ k[1] \in Urls /\ Target(k) \in Urls /\ TypeName[k[1]] \in Names
         /\ TypeName[Target(k)] \in Names
         /\ k[2] = 0 => k = <<k[1], 0>> /\ Target(k) = k[1]
         /\ k[2] # 0 => /\ Target(k) \in FieldUrls(TypeName[k[1]])
                        /\ TypeName[Target(k)] \in Refs(TypeName[k[1]])
<1>1. PICK u \in Urls : k \in {u} \X ({0} \cup DOMAIN Fields[TypeName[u]])
  BY DEF Tasks
<1>2. k = <<k[1], k[2]>> /\ k[1] = u /\ k[2] \in {0} \cup DOMAIN Fields[TypeName[u]]
  BY <1>1
<1>3. k[2] # 0 => Target(k) \in FieldUrls(TypeName[k[1]])
  BY <1>2 DEF Target, FieldUrls
<1>4. k[2] # 0 => TypeName[Target(k)] \in Refs(TypeName[k[1]])
  BY <1>3 DEF Refs
<1> QED
  BY <1>2, <1>3, <1>4, ConstantFacts

LEMMA FieldTask ==
  ASSUME NEW u \in Urls, NEW v \in FieldUrls(TypeName[u])
  PROVE  \E i \in DOMAIN Fields[TypeName[u]] :
           /\ Fields[TypeName[u]][i] = v /\ i # 0
           /\ <<u, i>> \in Tasks /\ Target(<<u, i>>) = v
<1>1. TypeName[u] \in Names /\ Fields[TypeName[u]] \in Seq(Urls)
  BY RemoteAssumption
<1>2. PICK i \in DOMAIN Fields[TypeName[u]] : Fields[TypeName[u]][i] = v
  BY DEF FieldUrls
<1>3. i # 0
  BY <1>1, <1>2
<1>4. <<u, i>> \in Tasks
  BY <1>2 DEF Tasks
<1> QED
  BY <1>2, <1>3, <1>4 DEF Target

LEMMA ReachableFacts ==
  ASSUME NEW n \in Names
  PROVE  /\ n \in Reachable[n] /\ Reachable[n] \subseteq Names
         /\ \A m \in Reachable[n] : Refs(m) \subseteq Reachable[n]
         /\ \A m \in Reachable[n] : Reachable[m] \subseteq Reachable[n]
<1>1. Reachable[n] = {m \in Names : \A C \in SUBSET Names :
        n \in C /\ (\A o \in C : Refs(o) \subseteq C) => m \in C}
  BY DEF Reachable
<1>2. n \in Reachable[n] /\ Reachable[n] \subseteq Names
  BY <1>1
<1>3. ASSUME NEW m \in Reachable[n], NEW o \in Refs(m)
      PROVE  o \in Reachable[n]
  <2>1. o \in Names
    BY <1>2, RefsType
  <2>2. ASSUME NEW C \in SUBSET Names, n \in C, \A p \in C : Refs(p) \subseteq C
        PROVE  o \in C
    <3>1. m \in C
      BY <1>1, <2>2
    <3> QED
      BY <2>2, <3>1
  <2> QED
    BY <1>1, <2>1, <2>2
<1>4. ASSUME NEW m \in Reachable[n], NEW o \in Reachable[m]
      PROVE  o \in Reachable[n]
  <2>1. m \in Names
    BY <1>2
  <2>2. Reachable[m] = {p \in Names : \A C \in SUBSET Names :
          m \in C /\ (\A q \in C : Refs(q) \subseteq C) => p \in C}
    BY <2>1 DEF Reachable
  <2>3. Reachable[n] \in SUBSET Names /\ \A q \in Reachable[n] : Refs(q) \subseteq Reachable[n]
    BY <1>2, <1>3
  <2> QED
    BY <2>2, <2>3
<1> QED
  BY <1>2, <1>3, <1>4

LEMMA NeededFacts ==
  ASSUME NEW w \in Urls
  PROVE  /\ w \in NeededUrls(w)
         /\ \A u \in NeededUrls(w) \cap Served : FieldUrls(TypeName[u]) \subseteq NeededUrls(w)
<1> DEFINE Complete(C) == w \in C /\ \A v \in C \cap Served : FieldUrls(TypeName[v]) \subseteq C
<1>1. NeededUrls(w) = {v \in Urls : \A C \in SUBSET Urls : Complete(C) => v \in C}
  BY DEF NeededUrls
<1>2. ASSUME NEW u \in NeededUrls(w) \cap Served, NEW v \in FieldUrls(TypeName[u])
      PROVE  v \in NeededUrls(w)
  <2>1. v \in Urls
    BY <1>1, RefsType, RemoteAssumption
  <2>2. ASSUME NEW C \in SUBSET Urls, Complete(C)
        PROVE  v \in C
    BY <1>1, <2>2
  <2> QED
    BY <1>1, <2>1, <2>2
<1> QED
  BY <1>1, <1>2

\* A type is not to be had if a URL it needs is not served and not in the fallback resolver.
LEMMA MissingURL ==
  ASSUME NEW w \in Urls, NEW u \in NeededUrls(w), u \notin Served, TypeName[u] \notin Fallback
  PROVE  w \notin Obtainable
  BY DEF Obtainable

\* addDescriptors visits the type it starts from and all that this leads to, up to what
\* was seen before.
LEMMA VisitedFacts ==
  ASSUME NEW n \in Names, NEW seen
  PROVE  /\ Visited(n, seen) \subseteq Reachable[n]
         /\ n \notin seen => n \in Visited(n, seen)
         /\ \A m \in Visited(n, seen) : Refs(m) \subseteq Visited(n, seen) \cup seen
<1> DEFINE Complete(C) == {n} \ seen \subseteq C /\ \A m \in C : Refs(m) \ seen \subseteq C
           V == Visited(n, seen)
<1>1. V = {m \in Reachable[n] : \A C \in SUBSET Reachable[n] : Complete(C) => m \in C}
  BY DEF Visited
<1>2. n \in Reachable[n] /\ \A m \in Reachable[n] : Refs(m) \subseteq Reachable[n]
  BY ReachableFacts
<1>3. n \notin seen => n \in V
  BY <1>1, <1>2
<1>4. ASSUME NEW m \in V, NEW o \in Refs(m), o \notin seen
      PROVE  o \in V
  <2>1. o \in Reachable[n]
    BY <1>1, <1>2
  <2>2. ASSUME NEW C \in SUBSET Reachable[n], Complete(C)
        PROVE  o \in C
    BY <1>1, <1>4, <2>2
  <2> QED
    BY <1>1, <2>1, <2>2
<1> QED
  BY <1>1, <1>3, <1>4

-----------------------------------------------------------------------------
(* The tasks of a conversion for w: those that wait are above those they   *)
(* started, so once the find's own task is done nobody waits, nobody       *)
(* works, and no error was left behind.                                    *)

\* Somebody waits for what the message fetched from u refers to.
Awaited(cc, u) == \E k \in Tasks : cc.tasks[k] = "wait" /\ Target(k) = u

\* The tasks of the find for w are its own, and those for the fields of a message that was
\* fetched and recorded.
Spawning(cc, w) ==
  \A k \in Tasks : cc.tasks[k] # "none" /\ k # <<w, 0>> =>
    /\ k[2] # 0 /\ k[1] \in Served /\ k[1] \in NeededUrls(w)
    /\ cc.locs[k[1]] # NoFile /\ TypeName[k[1]] \in cc.types

Nested(cc, w) ==
  \A k \in Tasks :
    /\ cc.tasks[k] \notin {"none", "done"} /\ k # <<w, 0>> => Awaited(cc, k[1])
    /\ cc.tasks[k] = "wait" => cc.locs[Target(k)] # NoFile /\ TypeName[Target(k)] \in cc.types

\* No circle of tasks waits for itself: each set of them has one that nobody in it waits
\* for.
Ordered(cc, w) ==
  \A S \in SUBSET {k \in Tasks : cc.tasks[k] = "wait"} : S # {} =>
    \E k \in S : k = <<w, 0>> \/ \A j \in S : Target(j) # k[1]

\* An error has a reason, and somebody will see it.
Errors(cc, w) ==
  /\ \A u \in Urls : cc.errs[u] = "notFound" => w \notin Obtainable
  /\ (\E u \in Urls : cc.errs[u] # "none") =>
       \E u \in Urls : cc.errs[u] # "none" /\ Awaited(cc, u)

TasksInv(cc, w) ==
  cc \in Contexts /\ Spawning(cc, w) /\ Nested(cc, w) /\ Ordered(cc, w) /\ Errors(cc, w)

\* A task that goes on to something else than waiting.
LEMMA TurnTask ==
  ASSUME NEW w \in Urls, NEW cc, TasksInv(cc, w), NEW dd \in Contexts, NEW k \in Tasks,
         NEW x, x \notin {"none", "wait"}, cc.tasks[k] \notin {"none", "wait", "done"},
         dd.tasks = [cc.tasks EXCEPT ![k] = x],
         \A u \in Urls : cc.locs[u] # NoFile => dd.locs[u] # NoFile,
         cc.types \subseteq dd.types,
         \/ dd.errs = cc.errs
         \/ /\ k # <<w, 0>>
            /\ \A u \in Urls : dd.errs[u] # cc.errs[u] => u = k[1] /\ cc.errs[u] = "none"
            /\ dd.errs[k[1]] = "notFound" => cc.errs[k[1]] = "notFound" \/ w \notin Obtainable
  PROVE  TasksInv(dd, w)
<1>1. cc \in Contexts /\ Spawning(cc, w) /\ Nested(cc, w) /\ Ordered(cc, w) /\ Errors(cc, w)
  BY DEF TasksInv
<1>2. \A j \in Tasks : dd.tasks[j] = IF j = k THEN x ELSE cc.tasks[j]
  BY <1>1, ContextFacts
<1>3. \A j \in Tasks : dd.tasks[j] = "wait" <=> cc.tasks[j] = "wait"
  BY <1>2
<1>4. \A u : Awaited(dd, u) <=> Awaited(cc, u)
  BY <1>3 DEF Awaited
<1>5. Spawning(dd, w)
  <2> SUFFICES ASSUME NEW j \in Tasks, dd.tasks[j] # "none", j # <<w, 0>>
               PROVE  /\ j[2] # 0 /\ j[1] \in Served /\ j[1] \in NeededUrls(w)
                      /\ dd.locs[j[1]] # NoFile /\ TypeName[j[1]] \in dd.types
    BY DEF Spawning
  <2>1. cc.tasks[j] # "none"
    BY <1>2
  <2>2. /\ j[2] # 0 /\ j[1] \in Served /\ j[1] \in NeededUrls(w)
        /\ cc.locs[j[1]] # NoFile /\ TypeName[j[1]] \in cc.types
    BY <1>1, <2>1 DEF Spawning
  <2> QED
    BY <2>2, TargetFacts
<1>6. Nested(dd, w)
  <2> SUFFICES ASSUME NEW j \in Tasks
               PROVE  /\ dd.tasks[j] \notin {"none", "done"} /\ j # <<w, 0>> => Awaited(dd, j[1])
                      /\ dd.tasks[j] = "wait" => dd.locs[Target(j)] # NoFile /\ TypeName[Target(j)] \in dd.types
    BY DEF Nested
  <2>1. dd.tasks[j] \notin {"none", "done"} => cc.tasks[j] \notin {"none", "done"}
    BY <1>2
  <2>2. dd.tasks[j] \notin {"none", "done"} /\ j # <<w, 0>> => Awaited(dd, j[1])
    BY <1>1, <1>4, <2>1 DEF Nested
  <2>3. dd.tasks[j] = "wait" => dd.locs[Target(j)] # NoFile /\ TypeName[Target(j)] \in dd.types
    BY <1>1, <1>3, TargetFacts DEF Nested
  <2> QED
    BY <2>2, <2>3
<1>7. Ordered(dd, w)
  <2>1. {j \in Tasks : dd.tasks[j] = "wait"} = {j \in Tasks : cc.tasks[j] = "wait"}
    BY <1>3
  <2> QED
    BY <1>1, <2>1 DEF Ordered
<1>8. Errors(dd, w)
  <2>1. CASE dd.errs = cc.errs
    BY <1>1, <1>4, <2>1 DEF Errors
  <2>2. CASE /\ k # <<w, 0>>
             /\ \A u \in Urls : dd.errs[u] # cc.errs[u] => u = k[1] /\ cc.errs[u] = "none"
             /\ dd.errs[k[1]] = "notFound" => cc.errs[k[1]] = "notFound" \/ w \notin Obtainable
    <3>1. \A u \in Urls : dd.errs[u] = "notFound" => w \notin Obtainable
      BY <1>1, <2>2 DEF Errors
    <3>2. ASSUME NEW v \in Urls, dd.errs[v] # "none"
          PROVE  \E u \in Urls : dd.errs[u] # "none" /\ Awaited(dd, u)
      <4>1. CASE cc.errs[v] # "none"
        <5>1. PICK u \in Urls : cc.errs[u] # "none" /\ Awaited(cc, u)
          BY <1>1, <4>1 DEF Errors
        <5>2. dd.errs[u] # "none" /\ Awaited(dd, u)
          BY <1>4, <2>2, <5>1
        <5> QED
          BY <5>2
      <4>2. CASE cc.errs[v] = "none"
        <5>1. v = k[1]
          BY <2>2, <3>2, <4>2
        <5>2. Awaited(cc, k[1])
          BY <1>1, <2>2 DEF Nested
        <5> QED
          BY <1>4, <3>2, <5>1, <5>2
      <4> QED
        BY <4>1, <4>2
    <3> QED
      BY <3>1, <3>2 DEF Errors
  <2> QED
    BY <2>1, <2>2
<1> QED
  BY <1>5, <1>6, <1>7, <1>8 DEF TasksInv

\* A task that has waited for all it started, and hands an error on.
LEMMA WaitedTask ==
  ASSUME NEW w \in Urls, NEW cc, TasksInv(cc, w), NEW dd \in Contexts, NEW k \in Tasks,
         cc.tasks[k] = "wait", GroupEnded(cc, Target(k)),
         dd.tasks = [cc.tasks EXCEPT ![k] = "done"],
         dd.locs = cc.locs, dd.types = cc.types,
         \A u \in Urls : cc.errs[u] # "none" => dd.errs[u] = cc.errs[u],
         \A u \in Urls : dd.errs[u] # cc.errs[u] => u = k[1] /\ dd.errs[u] = cc.errs[Target(k)],
         cc.errs[Target(k)] # "none" => k # <<w, 0>> /\ dd.errs[k[1]] # "none"
  PROVE  TasksInv(dd, w)
<1>1. cc \in Contexts /\ Spawning(cc, w) /\ Nested(cc, w) /\ Ordered(cc, w) /\ Errors(cc, w)
  BY DEF TasksInv
<1>2. \A j \in Tasks : dd.tasks[j] = IF j = k THEN "done" ELSE cc.tasks[j]
  BY <1>1, ContextFacts
<1>3. \A u : u # Target(k) /\ Awaited(cc, u) => Awaited(dd, u)
  BY <1>2 DEF Awaited
<1>4. Spawning(dd, w)
  BY <1>1, <1>2 DEF Spawning
<1>5. Nested(dd, w)
  <2> SUFFICES ASSUME NEW j \in Tasks
               PROVE  /\ dd.tasks[j] \notin {"none", "done"} /\ j # <<w, 0>> => Awaited(dd, j[1])
                      /\ dd.tasks[j] = "wait" => dd.locs[Target(j)] # NoFile /\ TypeName[Target(j)] \in dd.types
    BY DEF Nested
  <2>1. ASSUME dd.tasks[j] \notin {"none", "done"}, j # <<w, 0>>
        PROVE  Awaited(dd, j[1])
    <3>1. j # k /\ cc.tasks[j] \notin {"none", "done"}
      BY <1>2, <2>1
    <3>2. Awaited(cc, j[1]) /\ j[2] # 0
      BY <1>1, <2>1, <3>1 DEF Nested, Spawning
    <3>3. j[1] # Target(k)
      <4> SUFFICES ASSUME j[1] = Target(k) PROVE FALSE
        OBVIOUS
      <4>1. PICK u \in Urls : j \in {u} \X ({0} \cup DOMAIN Fields[TypeName[u]])
        BY DEF Tasks
      <4>2. j = <<Target(k), j[2]>> /\ j[2] \in DOMAIN Fields[TypeName[Target(k)]]
        BY <3>2, <4>1
      <4> QED
        BY <3>1, <4>2 DEF GroupEnded
    <3> QED
      BY <1>3, <3>2, <3>3
  <2>2. dd.tasks[j] = "wait" => dd.locs[Target(j)] # NoFile /\ TypeName[Target(j)] \in dd.types
    BY <1>1, <1>2 DEF Nested
  <2> QED
    BY <2>1, <2>2
<1>6. Ordered(dd, w)
  <2>1. {j \in Tasks : dd.tasks[j] = "wait"} \subseteq {j \in Tasks : cc.tasks[j] = "wait"}
    BY <1>2
  <2> QED
    BY <1>1, <2>1 DEF Ordered
<1>7. Errors(dd, w)
  <2>1. Target(k) \in Urls /\ k[1] \in Urls
    BY TargetFacts
  <2>2. \A u \in Urls : dd.errs[u] = "notFound" => w \notin Obtainable
    BY <1>1, <2>1 DEF Errors
  <2>3. ASSUME NEW v \in Urls, dd.errs[v] # "none"
        PROVE  \E u \in Urls : dd.errs[u] # "none" /\ Awaited(dd, u)
    <3>1. CASE cc.errs[Target(k)] = "none"
      <4>1. \A u \in Urls : dd.errs[u] # "none" => cc.errs[u] # "none"
        BY <3>1
      <4>2. PICK u \in Urls : cc.errs[u] # "none" /\ Awaited(cc, u)
        BY <1>1, <2>3, <4>1 DEF Errors
      <4> QED
        BY <1>3, <3>1, <4>2
    <3>2. CASE cc.errs[Target(k)] # "none"
      <4>1. k # <<w, 0>> /\ dd.errs[k[1]] # "none"
        BY <3>2
      <4>2. Awaited(cc, k[1])
        BY <1>1, <4>1 DEF Nested
      <4>3. Target(k) # k[1]
        <5>1. {k} \in SUBSET {j \in Tasks : cc.tasks[j] = "wait"} /\ {k} # {}
          OBVIOUS
        <5>2. PICK i \in {k} : i = <<w, 0>> \/ \A j \in {k} : Target(j) # i[1]
          BY <1>1, <5>1 DEF Ordered
        <5> QED
          BY <4>1, <5>2
      <4> QED
        BY <1>3, <2>1, <4>1, <4>2, <4>3
    <3> QED
      BY <3>1, <3>2
  <2> QED
    BY <2>2, <2>3 DEF Errors
<1> QED
  BY <1>4, <1>5, <1>6, <1>7 DEF TasksInv

\* A task that was the first to get a message starts one for each of its fields.
LEMMA SpawnTasks ==
  ASSUME NEW w \in Urls, NEW cc, TasksInv(cc, w), NEW dd \in Contexts, NEW k \in Tasks,
         cc.tasks[k] = "fetch", Target(k) \in Served, cc.locs[Target(k)] = NoFile,
         \A j \in Tasks : dd.tasks[j] = IF j = k THEN "wait"
                                        ELSE IF j[1] = Target(k) /\ j[2] # 0 THEN "check"
                                        ELSE cc.tasks[j],
         dd.locs[Target(k)] # NoFile,
         \A u \in Urls : cc.locs[u] # NoFile => dd.locs[u] # NoFile,
         TypeName[Target(k)] \in dd.types, cc.types \subseteq dd.types, dd.errs = cc.errs
  PROVE  TasksInv(dd, w) /\ Awaited(dd, Target(k)) /\ \A u : Awaited(cc, u) => Awaited(dd, u)
<1>1. cc \in Contexts /\ Spawning(cc, w) /\ Nested(cc, w) /\ Ordered(cc, w) /\ Errors(cc, w)
  BY DEF TasksInv
<1> DEFINE url == Target(k)
<1>2. url \in Urls /\ k[1] \in Urls /\ Awaited(dd, url)
  BY TargetFacts DEF Awaited
<1>3. \A j \in Tasks : cc.tasks[j] # "none" /\ j # <<w, 0>> => j[1] # url
  BY <1>1 DEF Spawning
<1>4. \A j \in Tasks : cc.tasks[j] = "wait" => j # k /\ dd.tasks[j] = "wait"
  BY <1>1, <1>3, TargetFacts
<1>5. \A u : Awaited(cc, u) => Awaited(dd, u)
  BY <1>4 DEF Awaited
<1>6. Spawning(dd, w)
  <2> SUFFICES ASSUME NEW j \in Tasks, dd.tasks[j] # "none", j # <<w, 0>>
               PROVE  /\ j[2] # 0 /\ j[1] \in Served /\ j[1] \in NeededUrls(w)
                      /\ dd.locs[j[1]] # NoFile /\ TypeName[j[1]] \in dd.types
    BY DEF Spawning
  <2>1. CASE cc.tasks[j] # "none"
    <3>1. /\ j[2] # 0 /\ j[1] \in Served /\ j[1] \in NeededUrls(w)
          /\ cc.locs[j[1]] # NoFile /\ TypeName[j[1]] \in cc.types
      BY <1>1, <2>1 DEF Spawning
    <3> QED
      BY <3>1, TargetFacts
  <2>2. CASE cc.tasks[j] = "none"
    <3>1. j[1] = url /\ j[2] # 0
      BY <2>2
    <3>2. url \in NeededUrls(w)
      <4>1. CASE k = <<w, 0>>
        BY <4>1, ConstantFacts, NeededFacts
      <4>2. CASE k # <<w, 0>>
        <5>1. k[2] # 0 /\ k[1] \in NeededUrls(w) \cap Served
          BY <1>1, <4>2 DEF Spawning
        <5> QED
          BY <5>1, TargetFacts, NeededFacts
      <4> QED
        BY <4>1, <4>2
    <3> QED
      BY <3>1, <3>2
  <2> QED
    BY <2>1, <2>2
<1>7. Nested(dd, w)
  <2> SUFFICES ASSUME NEW j \in Tasks
               PROVE  /\ dd.tasks[j] \notin {"none", "done"} /\ j # <<w, 0>> => Awaited(dd, j[1])
                      /\ dd.tasks[j] = "wait" => dd.locs[Target(j)] # NoFile /\ TypeName[Target(j)] \in dd.types
    BY DEF Nested
  <2>1. ASSUME dd.tasks[j] \notin {"none", "done"}, j # <<w, 0>>
        PROVE  Awaited(dd, j[1])
    <3>1. CASE j[1] = url
      BY <1>2, <3>1
    <3>2. CASE j[1] # url
      <4>1. cc.tasks[j] \notin {"none", "done"}
        BY <2>1, <3>2
      <4>2. Awaited(cc, j[1])
        BY <1>1, <2>1, <4>1 DEF Nested
      <4> QED
        BY <1>5, <4>2
    <3> QED
      BY <3>1, <3>2
  <2>2. dd.tasks[j] = "wait" => dd.locs[Target(j)] # NoFile /\ TypeName[Target(j)] \in dd.types
    <3>1. j # k /\ dd.tasks[j] = "wait" => cc.tasks[j] = "wait"
      OBVIOUS
    <3>2. cc.tasks[j] = "wait" => cc.locs[Target(j)] # NoFile /\ TypeName[Target(j)] \in cc.types
      BY <1>1 DEF Nested
    <3> QED
      BY <3>1, <3>2, TargetFacts
  <2> QED
    BY <2>1, <2>2
<1>8. Ordered(dd, w)
  <2> SUFFICES ASSUME NEW S \in SUBSET {j \in Tasks : dd.tasks[j] = "wait"}, S # {}
               PROVE  \E i \in S : i = <<w, 0>> \/ \A j \in S : Target(j) # i[1]
    BY DEF Ordered
  <2>1. \A j \in S : j \in Tasks /\ (j = k \/ cc.tasks[j] = "wait")
    OBVIOUS
  <2>2. CASE k \notin S
    <3>1. S \in SUBSET {j \in Tasks : cc.tasks[j] = "wait"}
      BY <2>1, <2>2
    <3> QED
      BY <1>1, <3>1 DEF Ordered
  <2>3. CASE S = {k}
    <3>1. k = <<w, 0>> \/ url # k[1]
      BY <1>3
    <3> QED
      BY <2>3, <3>1
  <2>4. CASE k \in S /\ S # {k}
    <3>1. S \ {k} # {} /\ S \ {k} \in SUBSET {j \in Tasks : cc.tasks[j] = "wait"}
      BY <2>1, <2>4
    <3>2. PICK i \in S \ {k} : i = <<w, 0>> \/ \A j \in S \ {k} : Target(j) # i[1]
      BY <1>1, <3>1 DEF Ordered
    <3>3. i = <<w, 0>> \/ url # i[1]
      BY <1>3, <2>1
    <3> QED
      BY <3>2, <3>3
  <2> QED
    BY <2>2, <2>3, <2>4
<1>9. Errors(dd, w)
  BY <1>1, <1>5 DEF Errors
<1> QED
  BY <1>2, <1>5, <1>6, <1>7, <1>8, <1>9 DEF TasksInv

\* Once the find's own task is done, no other works or waits, and there was no error.
LEMMA RootDone ==
  ASSUME NEW w \in Urls, NEW cc, TasksInv(cc, w), cc.tasks[<<w, 0>>] = "done"
  PROVE  /\ \A u : ~Awaited(cc, u)
         /\ \A u \in Urls : cc.errs[u] = "none"
<1>1. cc \in Contexts /\ Nested(cc, w) /\ Ordered(cc, w) /\ Errors(cc, w)
  BY DEF TasksInv
<1> DEFINE W == {k \in Tasks : cc.tasks[k] = "wait"}
<1>2. W = {}
  <2> SUFFICES ASSUME W # {} PROVE FALSE
    OBVIOUS
  <2>1. PICK k \in W : k = <<w, 0>> \/ \A j \in W : Target(j) # k[1]
    BY <1>1 DEF Ordered
  <2>2. k # <<w, 0>>
    BY <2>1
  <2>3. Awaited(cc, k[1])
    BY <1>1, <2>2 DEF Nested
  <2> QED
    BY <2>1, <2>2, <2>3 DEF Awaited
<1>3. \A u : ~Awaited(cc, u)
  BY <1>2 DEF Awaited
<1> QED
  BY <1>1, <1>3 DEF Errors

-----------------------------------------------------------------------------
(* What a conversion has recorded: where types are, and that they are      *)
(* needed.                                                                 *)

\* A type has a place.
Has(cc, n) == \E u \in Urls : TypeName[u] = n /\ cc.locs[u] # NoFile

\* Nothing is recorded before the type that is looked for.
Begun(cc, w) ==
  \/ TypeName[w] \in cc.types
  \/ cc.types = {} /\ \A u \in Urls : cc.locs[u] # NoFile => u = w

\* What is located has been put into a file, or is in the fallback resolver and was looked
\* for or referred to.
Places(cc, w) ==
  /\ \A u \in Urls : cc.locs[u] # NoFile =>
       /\ cc.locs[u] = Home[TypeName[u]]
       /\ \/ TypeName[u] \in cc.types
          \/ TypeName[u] \in Fallback /\ (u = w \/ \E n \in cc.types : TypeName[u] \in Refs(n))
  /\ \A n \in cc.types : Has(cc, n) /\ n \in Reachable[TypeName[w]]

DataInv(cc, w) == Begun(cc, w) /\ Places(cc, w)

\* RegistryInv is about URLForType: the registry knows a type under a URL of its own.
RegistryInv == \A n \in Names : typeURLs[n] # NoUrl => TypeName[typeURLs[n]] = n

LEMMA URLForTypeFacts ==
  ASSUME TypeOK, RegistryInv, NEW n \in Names
  PROVE  URLForType(n) \in Urls /\ TypeName[URLForType(n)] = n
  BY RemoteAssumption DEF URLForType, RegistryInv, TypeOK

\* What a task is for is needed by the type that is looked for.
LEMMA TaskIsNeeded ==
  ASSUME NEW w \in Urls, NEW cc, TasksInv(cc, w), DataInv(cc, w),
         NEW k \in Tasks, cc.tasks[k] # "none"
  PROVE  /\ Target(k) \in NeededUrls(w)
         /\ TypeName[Target(k)] \in Reachable[TypeName[w]]
         /\ k # <<w, 0>> =>
              /\ k[2] # 0 /\ TypeName[k[1]] \in cc.types /\ TypeName[w] \in cc.types
              /\ TypeName[Target(k)] \in Refs(TypeName[k[1]])
         /\ k = <<w, 0>> => Target(k) = w
<1>1. TypeName[w] \in Names
  BY ConstantFacts
<1>2. CASE k = <<w, 0>>
  BY <1>1, <1>2, ConstantFacts, NeededFacts, ReachableFacts
<1>3. CASE k # <<w, 0>>
  <2>1. /\ k[2] # 0 /\ k[1] \in Served \cap NeededUrls(w) /\ TypeName[k[1]] \in cc.types
    BY <1>3 DEF TasksInv, Spawning
  <2>2. TypeName[k[1]] \in Reachable[TypeName[w]] /\ TypeName[w] \in cc.types
    BY <2>1 DEF DataInv, Places, Begun
  <2>3. Target(k) \in FieldUrls(TypeName[k[1]]) /\ TypeName[Target(k)] \in Refs(TypeName[k[1]])
    BY <2>1, TargetFacts
  <2>4. Target(k) \in NeededUrls(w)
    BY <2>1, <2>3, NeededFacts
  <2>5. TypeName[Target(k)] \in Reachable[TypeName[w]]
    BY <1>1, <2>2, <2>3, ReachableFacts
  <2> QED
    BY <1>3, <2>1, <2>2, <2>3, <2>4, <2>5
<1> QED
  BY <1>2, <1>3

LEMMA SameData ==
  ASSUME NEW w \in Urls, NEW cc, DataInv(cc, w), NEW dd,
         dd.locs = cc.locs, dd.types = cc.types
  PROVE  DataInv(dd, w)
  BY DEF DataInv, Begun, Places, Has

\* A type was fetched.
LEMMA RecordedData ==
  ASSUME NEW w \in Urls, NEW cc, TasksInv(cc, w), DataInv(cc, w),
         NEW k \in Tasks, cc.tasks[k] # "none", NEW dd \in Contexts,
         dd.locs = [cc.locs EXCEPT ![Target(k)] = Home[TypeName[Target(k)]]],
         dd.types = cc.types \cup {TypeName[Target(k)]}
  PROVE  DataInv(dd, w)
<1>1. PICK url \in Urls : url = Target(k)
  BY TargetFacts
<1>2. cc \in Contexts /\ cc.locs \in [Urls -> Files \cup {NoFile}]
  BY ContextFacts DEF TasksInv
<1>3. /\ \A u \in Urls : dd.locs[u] = IF u = url THEN Home[TypeName[url]] ELSE cc.locs[u]
      /\ dd.types = cc.types \cup {TypeName[url]}
  BY <1>1, <1>2
<1>4. Home[TypeName[url]] # NoFile /\ TypeName[url] \in Reachable[TypeName[w]]
  BY <1>1, ConstantFacts, TaskIsNeeded
<1>5. TypeName[w] \in dd.types
  BY <1>1, <1>3, TaskIsNeeded
<1>6. Places(dd, w)
  <2>1. ASSUME NEW u \in Urls, dd.locs[u] # NoFile
        PROVE  /\ dd.locs[u] = Home[TypeName[u]]
               /\ \/ TypeName[u] \in dd.types
                  \/ TypeName[u] \in Fallback /\ (u = w \/ \E n \in dd.types : TypeName[u] \in Refs(n))
    <3>1. CASE u = url
      BY <1>3, <3>1
    <3>2. CASE u # url
      BY <1>3, <2>1, <3>2 DEF DataInv, Places
    <3> QED
      BY <3>1, <3>2
  <2>2. ASSUME NEW n \in dd.types
        PROVE  Has(dd, n) /\ n \in Reachable[TypeName[w]]
    <3>1. CASE n = TypeName[url]
      BY <1>3, <1>4, <3>1 DEF Has
    <3>2. CASE n # TypeName[url]
      <4>1. Has(cc, n) /\ n \in Reachable[TypeName[w]]
        BY <1>3, <3>2 DEF DataInv, Places
      <4> QED
        BY <1>3, <1>4, <4>1 DEF Has
    <3> QED
      BY <3>1, <3>2
  <2> QED
    BY <2>1, <2>2 DEF Places
<1> QED
  BY <1>5, <1>6 DEF DataInv, Begun

\* A type was not fetched, but is in the fallback resolver.
LEMMA LocatedData ==
  ASSUME NEW w \in Urls, NEW cc, TasksInv(cc, w), DataInv(cc, w),
         NEW k \in Tasks, cc.tasks[k] # "none", NEW dd \in Contexts,
         TypeName[Target(k)] \in Fallback,
         dd.locs = [cc.locs EXCEPT ![Target(k)] = Home[TypeName[Target(k)]]],
         dd.types = cc.types
  PROVE  DataInv(dd, w)
<1>1. PICK url \in Urls : url = Target(k)
  BY TargetFacts
<1>2. cc \in Contexts /\ cc.locs \in [Urls -> Files \cup {NoFile}]
  BY ContextFacts DEF TasksInv
<1>3. \A u \in Urls : dd.locs[u] = IF u = url THEN Home[TypeName[url]] ELSE cc.locs[u]
  BY <1>1, <1>2
<1>4. Home[TypeName[url]] # NoFile
  BY ConstantFacts
<1>5. /\ \/ url = w
         \/ TypeName[w] \in cc.types /\ \E n \in cc.types : TypeName[url] \in Refs(n)
      /\ TypeName[url] \in Fallback
  BY <1>1, TaskIsNeeded
<1>6. Begun(dd, w)
  BY <1>3, <1>5 DEF DataInv, Begun
<1>7. Places(dd, w)
  <2>1. ASSUME NEW u \in Urls, dd.locs[u] # NoFile
        PROVE  /\ dd.locs[u] = Home[TypeName[u]]
               /\ \/ TypeName[u] \in dd.types
                  \/ TypeName[u] \in Fallback /\ (u = w \/ \E n \in dd.types : TypeName[u] \in Refs(n))
    <3>1. CASE u = url
      BY <1>3, <1>5, <3>1
    <3>2. CASE u # url
      BY <1>3, <2>1, <3>2 DEF DataInv, Places
    <3> QED
      BY <3>1, <3>2
  <2>2. \A n \in dd.types : Has(dd, n) /\ n \in Reachable[TypeName[w]]
    BY <1>3, <1>4 DEF DataInv, Places, Has
  <2> QED
    BY <2>1, <2>2 DEF Places
<1> QED
  BY <1>6, <1>7 DEF DataInv

\* A type the registry has was described, with all it leads to.
LEMMA DescribedData ==
  ASSUME TypeOK, RegistryInv,
         NEW w \in Urls, NEW cc, TasksInv(cc, w), DataInv(cc, w),
         NEW k \in Tasks, cc.tasks[k] # "none", k # <<w, 0>>,
         NEW S \in SUBSET Reachable[TypeName[Target(k)]], NEW dd \in Contexts,
         \A v \in Urls : dd.locs[v] =
           IF TypeName[v] \in S /\ (v = URLForType(TypeName[v]) \/ v = Target(k))
           THEN Home[TypeName[v]] ELSE cc.locs[v],
         dd.types = cc.types \cup S
  PROVE  DataInv(dd, w) /\ \A n \in S : Has(dd, n)
<1>1. TypeName[w] \in Names /\ TypeName[Target(k)] \in Reachable[TypeName[w]]
  BY ConstantFacts, TaskIsNeeded
<1>2. S \subseteq Reachable[TypeName[w]] /\ S \subseteq Names
  BY <1>1, ReachableFacts
<1>3. TypeName[w] \in dd.types
  BY TaskIsNeeded
<1>4. \A n \in Names : Home[n] # NoFile
  BY ConstantFacts
<1>5. \A n \in S : Has(dd, n)
  <2> SUFFICES ASSUME NEW n \in S PROVE Has(dd, n)
    OBVIOUS
  <2>1. PICK u \in Urls : u = URLForType(n) /\ TypeName[u] = n
    BY <1>2, URLForTypeFacts
  <2> QED
    BY <1>2, <1>4, <2>1 DEF Has
<1>6. \A u \in Urls : cc.locs[u] # NoFile => dd.locs[u] # NoFile
  BY <1>4, ConstantFacts
<1>7. Places(dd, w)
  <2>1. ASSUME NEW u \in Urls, dd.locs[u] # NoFile
        PROVE  /\ dd.locs[u] = Home[TypeName[u]]
               /\ \/ TypeName[u] \in dd.types
                  \/ TypeName[u] \in Fallback /\ (u = w \/ \E n \in dd.types : TypeName[u] \in Refs(n))
    <3>1. CASE TypeName[u] \in S /\ (u = URLForType(TypeName[u]) \/ u = Target(k))
      BY <3>1
    <3>2. CASE ~(TypeName[u] \in S /\ (u = URLForType(TypeName[u]) \/ u = Target(k)))
      <4>1. dd.locs[u] = cc.locs[u]
        BY <3>2
      <4> QED
        BY <2>1, <4>1 DEF DataInv, Places
    <3> QED
      BY <3>1, <3>2
  <2>2. ASSUME NEW n \in dd.types
        PROVE  Has(dd, n) /\ n \in Reachable[TypeName[w]]
    <3>1. CASE n \in S
      BY <1>2, <1>5, <3>1
    <3>2. CASE n \notin S
      <4>1. Has(cc, n) /\ n \in Reachable[TypeName[w]]
        BY <3>2 DEF DataInv, Places
      <4> QED
        BY <1>6, <4>1 DEF Has
    <3> QED
      BY <3>1, <3>2
  <2> QED
    BY <2>1, <2>2 DEF Places
<1> QED
  BY <1>3, <1>5, <1>7 DEF DataInv, Begun

\* A URL that is located though no file has its type is the one that was looked for, and
\* nothing else was recorded.
LEMMA LocatedIsDefined ==
  ASSUME NEW w \in Urls, NEW cc, DataInv(cc, w), TypesResolve(cc),
         NEW u \in Urls, cc.locs[u] # NoFile, TypeName[u] \notin Defined(cc)
  PROVE  /\ TypeName[w] \in Fallback /\ TypeName[w] \notin Defined(cc)
         /\ \A v \in Urls : cc.locs[v] # NoFile => v = w
<1>1. cc.types \subseteq Defined(cc)
  BY DEF Defined
<1>2. u = w /\ TypeName[u] \in Fallback
  BY <1>1 DEF DataInv, Places, TypesResolve, RefsIn
<1> QED
  BY <1>1, <1>2 DEF DataInv, Begun

-----------------------------------------------------------------------------
(* What the files of a conversion import: with what its tasks have         *)
(* located, enough for all its types refer to.                             *)

\* Something has a place, and the file of n imports the file of that.
Imported(cc, n, m) ==
  Has(cc, m) /\ (Home[m] = Home[n] \/ <<Home[n], Home[m]>> \in cc.deps)

Full(cc, n) == \A m \in Refs(n) : Imported(cc, n, m)

\* A task that is done has located what it was for, or it has been imported since another
\* URL of it was located, or it left an error; each type is full when nobody waits for it.
ImportsInv(cc) ==
  /\ \A k \in Tasks :
       cc.tasks[k] = "done" /\ k[2] # 0 /\ cc.errs[k[1]] = "none" =>
         cc.locs[Target(k)] # NoFile \/ Imported(cc, TypeName[k[1]], TypeName[Target(k)])
  /\ \A n \in cc.types :
       Full(cc, n) \/ \E u \in Urls : TypeName[u] = n /\ (Awaited(cc, u) \/ cc.errs[u] # "none")

\* Nothing is taken out of a context.
Grows(cc, dd) ==
  /\ \A u \in Urls : cc.locs[u] # NoFile => dd.locs[u] # NoFile
  /\ \A u \in Urls : cc.errs[u] # "none" => dd.errs[u] # "none"
  /\ cc.types \subseteq dd.types /\ cc.deps \subseteq dd.deps

\* The file of a message imports the files its fields are located in.
AddsImports(cc, deps, url) ==
  LET f == Home[TypeName[url]] IN
  /\ cc.deps \subseteq deps
  /\ \A u \in FieldUrls(TypeName[url]) : cc.locs[u] = f \/ <<f, cc.locs[u]>> \in deps

LEMMA GrowingContext ==
  ASSUME NEW cc, NEW dd, Grows(cc, dd)
  PROVE  /\ \A n : Has(cc, n) => Has(dd, n)
         /\ \A n, m : Imported(cc, n, m) => Imported(dd, n, m)
         /\ \A n : Full(cc, n) => Full(dd, n)
<1>1. \A n : Has(cc, n) => Has(dd, n)
  BY DEF Has, Grows
<1>2. \A n, m : Imported(cc, n, m) => Imported(dd, n, m)
  BY <1>1 DEF Imported, Grows
<1>3. \A n : Full(cc, n) => Full(dd, n)
  BY <1>2 DEF Full
<1> QED
  BY <1>1, <1>2, <1>3

\* A task that neither waited nor waits now.
LEMMA TurnImports ==
  ASSUME NEW cc \in Contexts, NEW dd \in Contexts, ImportsInv(cc), Grows(cc, dd),
         NEW k \in Tasks, NEW x, x # "wait", cc.tasks[k] # "wait",
         dd.tasks = [cc.tasks EXCEPT ![k] = x],
         \A n \in dd.types \ cc.types : Full(dd, n),
         x = "done" /\ k[2] # 0 /\ dd.errs[k[1]] = "none" =>
           dd.locs[Target(k)] # NoFile \/ Imported(dd, TypeName[k[1]], TypeName[Target(k)])
  PROVE  ImportsInv(dd)
<1>1. \A j \in Tasks : dd.tasks[j] = IF j = k THEN x ELSE cc.tasks[j]
  BY ContextFacts
<1>2. \A u : Awaited(cc, u) => Awaited(dd, u)
  BY <1>1 DEF Awaited
<1>3. ASSUME NEW j \in Tasks, dd.tasks[j] = "done", j[2] # 0, dd.errs[j[1]] = "none"
      PROVE  dd.locs[Target(j)] # NoFile \/ Imported(dd, TypeName[j[1]], TypeName[Target(j)])
  <2>1. CASE j = k
    BY <1>1, <1>3, <2>1
  <2>2. CASE j # k
    <3>1. cc.tasks[j] = "done" /\ cc.errs[j[1]] = "none"
      BY <1>1, <1>3, <2>2, TargetFacts DEF Grows
    <3>2. cc.locs[Target(j)] # NoFile \/ Imported(cc, TypeName[j[1]], TypeName[Target(j)])
      BY <1>3, <3>1 DEF ImportsInv
    <3> QED
      BY <3>2, TargetFacts, GrowingContext DEF Grows
  <2> QED
    BY <2>1, <2>2
<1>4. ASSUME NEW n \in dd.types
      PROVE  Full(dd, n) \/ \E u \in Urls : TypeName[u] = n /\ (Awaited(dd, u) \/ dd.errs[u] # "none")
  <2>1. CASE n \in cc.types
    <3>1. Full(cc, n) \/ \E u \in Urls : TypeName[u] = n /\ (Awaited(cc, u) \/ cc.errs[u] # "none")
      BY <2>1 DEF ImportsInv
    <3> QED
      BY <1>2, <3>1, GrowingContext DEF Grows
  <2>2. CASE n \notin cc.types
    BY <2>2
  <2> QED
    BY <2>1, <2>2
<1> QED
  BY <1>3, <1>4 DEF ImportsInv

\* A task starts others for the fields of the message it got.
LEMMA SpawnImports ==
  ASSUME NEW cc \in Contexts, NEW dd \in Contexts, ImportsInv(cc), Grows(cc, dd),
         NEW k \in Tasks,
         \A j \in Tasks : dd.tasks[j] = IF j = k THEN "wait"
                                        ELSE IF j[1] = Target(k) /\ j[2] # 0 THEN "check"
                                        ELSE cc.tasks[j],
         Awaited(dd, Target(k)), \A u : Awaited(cc, u) => Awaited(dd, u),
         dd.types = cc.types \cup {TypeName[Target(k)]}
  PROVE  ImportsInv(dd)
<1>1. ASSUME NEW j \in Tasks, dd.tasks[j] = "done", j[2] # 0, dd.errs[j[1]] = "none"
      PROVE  dd.locs[Target(j)] # NoFile \/ Imported(dd, TypeName[j[1]], TypeName[Target(j)])
  <2>1. cc.tasks[j] = "done" /\ cc.errs[j[1]] = "none"
    BY <1>1, TargetFacts DEF Grows
  <2>2. cc.locs[Target(j)] # NoFile \/ Imported(cc, TypeName[j[1]], TypeName[Target(j)])
    BY <1>1, <2>1 DEF ImportsInv
  <2> QED
    BY <2>2, TargetFacts, GrowingContext DEF Grows
<1>2. ASSUME NEW n \in dd.types
      PROVE  Full(dd, n) \/ \E u \in Urls : TypeName[u] = n /\ (Awaited(dd, u) \/ dd.errs[u] # "none")
  <2>1. CASE n \in cc.types
    <3>1. Full(cc, n) \/ \E u \in Urls : TypeName[u] = n /\ (Awaited(cc, u) \/ cc.errs[u] # "none")
      BY <2>1 DEF ImportsInv
    <3> QED
      BY <3>1, GrowingContext DEF Grows
  <2>2. CASE n \notin cc.types
    BY <2>2, TargetFacts
  <2> QED
    BY <2>1, <2>2
<1> QED
  BY <1>1, <1>2 DEF ImportsInv

\* A task has waited for all fields of a message: its file imports their files, or an error
\* is handed on.
LEMMA WaitedImports ==
  ASSUME NEW cc \in Contexts, NEW dd \in Contexts, ImportsInv(cc), Grows(cc, dd),
         NEW k \in Tasks, GroupEnded(cc, Target(k)), cc.locs[Target(k)] # NoFile,
         \A u \in Urls : cc.locs[u] # NoFile => cc.locs[u] = Home[TypeName[u]],
         dd.tasks = [cc.tasks EXCEPT ![k] = "done"], dd.locs = cc.locs, dd.types = cc.types,
         cc.errs[Target(k)] = "none" => AddsImports(cc, dd.deps, Target(k))
  PROVE  ImportsInv(dd)
<1>1. \A j \in Tasks : dd.tasks[j] = IF j = k THEN "done" ELSE cc.tasks[j]
  BY ContextFacts
<1>2. PICK url \in Urls : url = Target(k)
  BY TargetFacts
<1>3. \A u : Awaited(cc, u) /\ u # url => Awaited(dd, u)
  BY <1>1, <1>2 DEF Awaited
<1>4. ASSUME cc.errs[url] = "none", NEW u \in FieldUrls(TypeName[url])
      PROVE  Imported(dd, TypeName[url], TypeName[u])
  <2>1. PICK i \in DOMAIN Fields[TypeName[url]] :
          i # 0 /\ <<url, i>> \in Tasks /\ Target(<<url, i>>) = u
    BY FieldTask
  <2>2. GroupEnded(cc, url)
    BY <1>2
  <2>3. cc.tasks[<<url, i>>] = "done" /\ u \in Urls
    BY <2>1, <2>2, TargetFacts DEF GroupEnded
  <2>4. cc.locs[u] # NoFile \/ Imported(cc, TypeName[url], TypeName[u])
    BY <1>4, <2>1, <2>3 DEF ImportsInv
  <2>5. CASE cc.locs[u] # NoFile
    <3>1. cc.locs[u] = Home[TypeName[u]] /\ Has(dd, TypeName[u])
      BY <2>3, <2>5 DEF Has
    <3>2. AddsImports(cc, dd.deps, url)
      BY <1>2, <1>4
    <3> QED
      BY <3>1, <3>2 DEF AddsImports, Imported
  <2>6. CASE Imported(cc, TypeName[url], TypeName[u])
    BY <2>6, GrowingContext
  <2> QED
    BY <2>4, <2>5, <2>6
<1>5. ASSUME NEW j \in Tasks, dd.tasks[j] = "done", j[2] # 0, dd.errs[j[1]] = "none"
      PROVE  dd.locs[Target(j)] # NoFile \/ Imported(dd, TypeName[j[1]], TypeName[Target(j)])
  <2>1. CASE j = k
    BY <2>1
  <2>2. CASE j # k
    <3>1. cc.tasks[j] = "done" /\ cc.errs[j[1]] = "none"
      BY <1>1, <1>5, <2>2, TargetFacts DEF Grows
    <3>2. cc.locs[Target(j)] # NoFile \/ Imported(cc, TypeName[j[1]], TypeName[Target(j)])
      BY <1>5, <3>1 DEF ImportsInv
    <3> QED
      BY <3>2, GrowingContext
  <2> QED
    BY <2>1, <2>2
<1>6. ASSUME NEW n \in dd.types
      PROVE  Full(dd, n) \/ \E u \in Urls : TypeName[u] = n /\ (Awaited(dd, u) \/ dd.errs[u] # "none")
  <2>1. n \in cc.types
    OBVIOUS
  <2>2. CASE Full(cc, n)
    BY <2>2, GrowingContext
  <2>3. CASE ~Full(cc, n) /\ n # TypeName[url]
    <3>1. PICK u \in Urls : TypeName[u] = n /\ (Awaited(cc, u) \/ cc.errs[u] # "none")
      BY <2>1, <2>3 DEF ImportsInv
    <3>2. u # url
      BY <2>3, <3>1
    <3> QED
      BY <1>3, <3>1, <3>2 DEF Grows
  <2>4. CASE n = TypeName[url] /\ cc.errs[url] # "none"
    BY <2>4 DEF Grows
  <2>5. CASE n = TypeName[url] /\ cc.errs[url] = "none"
    <3>1. ASSUME NEW m \in Refs(n)
          PROVE  Imported(dd, n, m)
      <4>1. PICK u \in FieldUrls(n) : m = TypeName[u]
        BY DEF Refs
      <4> QED
        BY <1>4, <2>5, <4>1
    <3> QED
      BY <3>1 DEF Full
  <2> QED
    BY <2>2, <2>3, <2>4, <2>5
<1> QED
  BY <1>5, <1>6 DEF ImportsInv

\* A conversion whose own task is done has all its types refer to.
LEMMA DoneIsFull ==
  ASSUME NEW w \in Urls, NEW cc, TasksInv(cc, w), ImportsInv(cc), cc.tasks[<<w, 0>>] = "done"
  PROVE  \A n \in cc.types : Full(cc, n)
  BY RootDone DEF ImportsInv

-----------------------------------------------------------------------------
(* The steps of a conversion. *)

ConvInv(cc, w) == TasksInv(cc, w) /\ DataInv(cc, w) /\ ImportsInv(cc)

\* A task ends without an error.
LEMMA EndedWell ==
  ASSUME NEW cc \in Contexts, NEW k \in Tasks, NEW dd, dd = Ended(cc, k, "none")
  PROVE  /\ dd \in Contexts /\ dd.tasks = [cc.tasks EXCEPT ![k] = "done"]
         /\ dd.locs = cc.locs /\ dd.types = cc.types /\ dd.deps = cc.deps /\ dd.errs = cc.errs
<1>1. \A u \in Urls : dd.errs[u] = cc.errs[u]
  <2> SUFFICES ASSUME NEW u \in Urls PROVE dd.errs[u] = cc.errs[u]
    OBVIOUS
  <2>1. dd.errs[u] = IF u = k[1] /\ k[2] # 0 /\ cc.errs[u] = "none" THEN "none" ELSE cc.errs[u]
    BY EndedType
  <2> QED
    BY <2>1
<1>2. dd \in Contexts
  BY EndedType
<1>3. dd.errs = cc.errs
  BY <1>1, <1>2, ContextFacts
<1> QED
  BY <1>2, <1>3, EndedType

LEMMA NewConversion ==
  ASSUME NEW w \in Urls
  PROVE  LET dd == [NewContext EXCEPT !.tasks[<<w, 0>>] = "fetch"] IN
         ConvInv(dd, w)
<1>1. PICK dd : dd = [NewContext EXCEPT !.tasks[<<w, 0>>] = "fetch"]
  OBVIOUS
<1>2. /\ dd \in Contexts /\ dd.types = {} /\ dd.deps = {}
      /\ \A u \in Urls : dd.locs[u] = NoFile /\ dd.errs[u] = "none"
      /\ \A k \in Tasks : dd.tasks[k] = IF k = <<w, 0>> THEN "fetch" ELSE "none"
  BY <1>1, ConstantFacts DEF NewContext, Contexts
<1>3. TasksInv(dd, w)
  BY <1>2 DEF TasksInv, Spawning, Nested, Ordered, Errors
<1>4. DataInv(dd, w)
  BY <1>2 DEF DataInv, Begun, Places
<1>5. ImportsInv(dd)
  BY <1>2 DEF ImportsInv
<1> QED
  BY <1>1, <1>2, <1>3, <1>4, <1>5 DEF ConvInv

LEMMA CheckedContext ==
  ASSUME NEW w \in Urls, NEW cc, ConvInv(cc, w), NEW k \in Tasks, cc.tasks[k] = "check",
         NEW x \in {"describe", "fetch"}
  PROVE  ConvInv([cc EXCEPT !.tasks[k] = x], w)
<1>1. cc \in Contexts
  BY DEF ConvInv, TasksInv
<1>2. PICK dd : dd = [cc EXCEPT !.tasks[k] = x]
  OBVIOUS
<1>3. /\ dd \in Contexts /\ dd.tasks = [cc.tasks EXCEPT ![k] = x]
      /\ dd.locs = cc.locs /\ dd.types = cc.types /\ dd.deps = cc.deps /\ dd.errs = cc.errs
  BY <1>1, <1>2 DEF Contexts
<1>4. TasksInv(dd, w)
  BY <1>3, TurnTask DEF ConvInv
<1>5. DataInv(dd, w)
  BY <1>3, SameData DEF ConvInv
<1>6. ImportsInv(cc) => ImportsInv(dd)
  BY <1>1, <1>3, TurnImports DEF Grows
<1> QED
  BY <1>2, <1>3, <1>4, <1>5, <1>6 DEF ConvInv

\* A message somebody else got meanwhile.
LEMMA JoinedContext ==
  ASSUME NEW w \in Urls, NEW cc, ConvInv(cc, w), NEW k \in Tasks, cc.tasks[k] = "fetch",
         cc.locs[Target(k)] # NoFile
  PROVE  ConvInv(Ended(cc, k, "none"), w)
<1>1. cc \in Contexts
  BY DEF ConvInv, TasksInv
<1>2. PICK dd : dd = Ended(cc, k, "none")
  OBVIOUS
<1>3. /\ dd \in Contexts /\ dd.tasks = [cc.tasks EXCEPT ![k] = "done"]
      /\ dd.locs = cc.locs /\ dd.types = cc.types /\ dd.deps = cc.deps /\ dd.errs = cc.errs
  BY <1>1, <1>2, EndedWell
<1>4. TasksInv(dd, w)
  BY <1>2, <1>3, TurnTask DEF ConvInv
<1>5. DataInv(dd, w)
  BY <1>3, SameData DEF ConvInv
<1>6. ImportsInv(cc) => ImportsInv(dd)
  BY <1>1, <1>3, TurnImports DEF Grows
<1> QED
  BY <1>2, <1>3, <1>4, <1>5, <1>6 DEF ConvInv

\* Nothing was had.
LEMMA FailedContext ==
  ASSUME NEW w \in Urls, NEW cc, ConvInv(cc, w), NEW k \in Tasks, cc.tasks[k] = "fetch",
         k # <<w, 0>>, NEW e \in {"notFound", "failed"},
         e = "notFound" => Target(k) \notin Served /\ TypeName[Target(k)] \notin Fallback
  PROVE  ConvInv(Ended(cc, k, e), w)
<1>1. cc \in Contexts /\ k[2] # 0 /\ k[1] \in Urls
  BY TargetFacts DEF ConvInv, TasksInv, Spawning
<1>2. PICK dd : /\ dd = Ended(cc, k, e) /\ dd \in Contexts
                /\ dd.tasks = [cc.tasks EXCEPT ![k] = "done"]
                /\ dd.locs = cc.locs /\ dd.types = cc.types /\ dd.deps = cc.deps
                /\ \A u \in Urls : dd.errs[u] = IF u = k[1] /\ cc.errs[u] = "none" THEN e ELSE cc.errs[u]
  BY <1>1, EndedType
<1>3. /\ \A u \in Urls : dd.errs[u] # cc.errs[u] => u = k[1] /\ cc.errs[u] = "none"
      /\ dd.errs[k[1]] # "none"
      /\ dd.errs[k[1]] = "notFound" => cc.errs[k[1]] = "notFound" \/ e = "notFound"
  BY <1>1, <1>2
<1>4. e = "notFound" => w \notin Obtainable
  BY TaskIsNeeded, MissingURL DEF ConvInv
<1>5. TasksInv(dd, w)
  BY <1>2, <1>3, <1>4, TurnTask DEF ConvInv
<1>6. DataInv(dd, w)
  BY <1>2, SameData DEF ConvInv
<1>7. ImportsInv(cc) => ImportsInv(dd)
  <2>1. Grows(cc, dd)
    BY <1>2 DEF Grows
  <2> QED
    BY <1>1, <1>2, <1>3, <2>1, TurnImports
<1> QED
  BY <1>2, <1>5, <1>6, <1>7 DEF ConvInv

\* An enum was fetched.
LEMMA EnumContext ==
  ASSUME NEW w \in Urls, NEW cc, ConvInv(cc, w), NEW k \in Tasks, cc.tasks[k] = "fetch",
         TypeName[Target(k)] \in Enums
  PROVE  LET dd == Ended(Recorded(cc, Target(k)), k, "none") IN
         ConvInv(dd, w)
<1>1. PICK u \in Urls : u = Target(k)
  BY ConstantFacts
<1>2. cc \in Contexts /\ TasksInv(cc, w) /\ DataInv(cc, w)
  BY DEF ConvInv, TasksInv
<1>3. PICK bb : bb = Recorded(cc, u)
  OBVIOUS
<1>4. /\ bb \in Contexts /\ bb.locs = [cc.locs EXCEPT ![u] = Home[TypeName[u]]]
      /\ bb.types = cc.types \cup {TypeName[u]}
      /\ bb.tasks = cc.tasks /\ bb.deps = cc.deps /\ bb.errs = cc.errs
  BY <1>2, <1>3, RecordedType
<1>5. PICK dd : dd = Ended(bb, k, "none")
  OBVIOUS
<1>6. /\ dd \in Contexts /\ dd.tasks = [bb.tasks EXCEPT ![k] = "done"]
      /\ dd.locs = bb.locs /\ dd.types = bb.types /\ dd.deps = bb.deps /\ dd.errs = bb.errs
  <2>1. bb \in Contexts
    BY <1>4
  <2> QED
    BY <1>5, <2>1, EndedWell
<1>7. Home[TypeName[u]] # NoFile
  BY ConstantFacts
<1>8. dd.locs[u] # NoFile /\ Grows(cc, dd)
  <2>1. \A v \in Urls : dd.locs[v] = IF v = u THEN Home[TypeName[u]] ELSE cc.locs[v]
    BY <1>2, <1>4, <1>6, ContextFacts
  <2> QED
    BY <1>4, <1>6, <1>7, <2>1 DEF Grows
<1>9. dd.tasks = [cc.tasks EXCEPT ![k] = "done"] /\ dd.errs = cc.errs
  BY <1>4, <1>6
<1>10. TasksInv(dd, w)
  BY <1>2, <1>6, <1>8, <1>9, TurnTask DEF Grows
<1>11. DataInv(dd, w)
  BY <1>1, <1>2, <1>4, <1>6, RecordedData
<1>12. Refs(TypeName[u]) = {}
  <2>1. Fields[TypeName[u]] = <<>>
    BY <1>1, RemoteAssumption
  <2>2. DOMAIN Fields[TypeName[u]] = {}
    BY <2>1
  <2> QED
    BY <2>2 DEF Refs, FieldUrls
<1>13. /\ \A n \in dd.types \ cc.types : Full(dd, n)
       /\ dd.deps \ cc.deps = {}
  BY <1>4, <1>6, <1>12 DEF Full
<1>14. ImportsInv(cc) => ImportsInv(dd)
  BY <1>1, <1>2, <1>6, <1>8, <1>9, <1>13, TurnImports
<1> QED
  BY <1>1, <1>3, <1>5, <1>9, <1>10, <1>11, <1>14 DEF ConvInv

\* A type of the fallback resolver.
LEMMA FallbackContext ==
  ASSUME NEW w \in Urls, NEW cc, ConvInv(cc, w), NEW k \in Tasks, cc.tasks[k] = "fetch",
         TypeName[Target(k)] \in Fallback
  PROVE  LET dd == Ended(LocatedIn(cc, Target(k)), k, "none") IN
         ConvInv(dd, w)
<1>1. PICK u \in Urls : u = Target(k)
  BY ConstantFacts
<1>2. cc \in Contexts /\ TasksInv(cc, w) /\ DataInv(cc, w)
  BY DEF ConvInv, TasksInv
<1>3. PICK bb : bb = LocatedIn(cc, u)
  OBVIOUS
<1>4. /\ bb \in Contexts /\ bb.locs = [cc.locs EXCEPT ![u] = Home[TypeName[u]]]
      /\ bb.types = cc.types
      /\ bb.tasks = cc.tasks /\ bb.deps = cc.deps /\ bb.errs = cc.errs
  BY <1>2, <1>3, LocatedType
<1>5. PICK dd : dd = Ended(bb, k, "none")
  OBVIOUS
<1>6. /\ dd \in Contexts /\ dd.tasks = [bb.tasks EXCEPT ![k] = "done"]
      /\ dd.locs = bb.locs /\ dd.types = bb.types /\ dd.deps = bb.deps /\ dd.errs = bb.errs
  <2>1. bb \in Contexts
    BY <1>4
  <2> QED
    BY <1>5, <2>1, EndedWell
<1>7. Home[TypeName[u]] # NoFile
  BY ConstantFacts
<1>8. dd.locs[u] # NoFile /\ Grows(cc, dd)
  <2>1. \A v \in Urls : dd.locs[v] = IF v = u THEN Home[TypeName[u]] ELSE cc.locs[v]
    BY <1>2, <1>4, <1>6, ContextFacts
  <2> QED
    BY <1>4, <1>6, <1>7, <2>1 DEF Grows
<1>9. dd.tasks = [cc.tasks EXCEPT ![k] = "done"] /\ dd.errs = cc.errs
  BY <1>4, <1>6
<1>10. TasksInv(dd, w)
  BY <1>2, <1>6, <1>8, <1>9, TurnTask DEF Grows
<1>11. DataInv(dd, w)
  BY <1>1, <1>2, <1>4, <1>6, LocatedData
<1>12. dd.types \ cc.types = {} /\ dd.deps \ cc.deps = {}
  BY <1>4, <1>6
<1>13. ImportsInv(cc) => ImportsInv(dd)
  BY <1>1, <1>2, <1>6, <1>8, <1>9, <1>12, TurnImports
<1> QED
  BY <1>1, <1>3, <1>5, <1>9, <1>10, <1>11, <1>13 DEF ConvInv

\* A message was fetched, by the first task that got it.
LEMMA SpawnedContext ==
  ASSUME NEW w \in Urls, NEW cc, ConvInv(cc, w), NEW k \in Tasks, cc.tasks[k] = "fetch",
         Target(k) \in Served, cc.locs[Target(k)] = NoFile
  PROVE  LET dd == Spawned(Recorded(cc, Target(k)), Target(k), k) IN
         ConvInv(dd, w)
<1>1. PICK u \in Urls : u = Target(k)
  BY ConstantFacts
<1>2. cc \in Contexts /\ TasksInv(cc, w) /\ DataInv(cc, w)
  BY DEF ConvInv, TasksInv
<1>3. PICK bb : bb = Recorded(cc, u)
  OBVIOUS
<1>4. /\ bb \in Contexts /\ bb.locs = [cc.locs EXCEPT ![u] = Home[TypeName[u]]]
      /\ bb.types = cc.types \cup {TypeName[u]}
      /\ bb.tasks = cc.tasks /\ bb.deps = cc.deps /\ bb.errs = cc.errs
  BY <1>2, <1>3, RecordedType
<1>5. PICK dd : dd = Spawned(bb, u, k)
  OBVIOUS
<1>6. /\ dd \in Contexts
      /\ dd.locs = bb.locs /\ dd.types = bb.types /\ dd.deps = bb.deps /\ dd.errs = bb.errs
      /\ \A j \in Tasks : dd.tasks[j] =
           IF j = k THEN "wait" ELSE IF j[1] = u /\ j[2] # 0 THEN "check" ELSE bb.tasks[j]
  <2>1. bb \in Contexts
    BY <1>4
  <2> QED
    BY <1>5, <2>1, SpawnedType
<1>7. Home[TypeName[u]] # NoFile
  BY ConstantFacts
<1>8. dd.locs[u] # NoFile /\ Grows(cc, dd)
  <2>1. \A v \in Urls : dd.locs[v] = IF v = u THEN Home[TypeName[u]] ELSE cc.locs[v]
    BY <1>2, <1>4, <1>6, ContextFacts
  <2> QED
    BY <1>4, <1>6, <1>7, <2>1 DEF Grows
<1>9. /\ \A j \in Tasks : dd.tasks[j] =
           IF j = k THEN "wait" ELSE IF j[1] = u /\ j[2] # 0 THEN "check" ELSE cc.tasks[j]
      /\ dd.errs = cc.errs /\ dd.deps = cc.deps /\ dd.types = cc.types \cup {TypeName[u]}
  BY <1>4, <1>6
<1>10. TypeName[u] \in dd.types
  BY <1>9
<1>11. TasksInv(dd, w) /\ Awaited(dd, u) /\ \A v : Awaited(cc, v) => Awaited(dd, v)
  BY <1>1, <1>2, <1>6, <1>8, <1>9, <1>10, SpawnTasks DEF Grows
<1>12. DataInv(dd, w)
  BY <1>1, <1>2, <1>4, <1>6, RecordedData
<1>13. ImportsInv(cc) => ImportsInv(dd)
  BY <1>1, <1>2, <1>6, <1>8, <1>9, <1>11, SpawnImports
<1> QED
  BY <1>1, <1>3, <1>5, <1>9, <1>11, <1>12, <1>13 DEF ConvInv

\* The registry had the type.
LEMMA DescribedContext ==
  ASSUME TypeOK, RegistryInv,
         NEW w \in Urls, NEW cc, ConvInv(cc, w), NEW k \in Tasks, cc.tasks[k] = "describe",
         k # <<w, 0>>,
         NEW V, V = Visited(TypeName[Target(k)], Located(cc)),
         NEW bb, bb = Described(cc, Target(k), Home[TypeName[k[1]]], V)
  PROVE  ConvInv([bb EXCEPT !.tasks[k] = "done"], w)
<1>1. PICK url \in Urls : url = Target(k) /\ TypeName[url] \in Names
  BY ConstantFacts
<1>2. PICK owner \in Names : owner = TypeName[k[1]]
  BY TargetFacts
<1>3. cc \in Contexts /\ TasksInv(cc, w) /\ DataInv(cc, w)
  BY DEF ConvInv, TasksInv
<1>4. /\ V \subseteq Reachable[TypeName[url]]
      /\ TypeName[url] \in V \cup Located(cc)
      /\ \A n \in V : Refs(n) \subseteq V \cup Located(cc)
  BY <1>1, VisitedFacts
<1>5. V \subseteq Names /\ Home[owner] \in Files
  BY <1>1, <1>4, ReachableFacts, ConstantFacts
<1>6. /\ bb \in Contexts /\ bb.tasks = cc.tasks /\ bb.errs = cc.errs /\ bb.types = cc.types \cup V
      /\ bb.deps = cc.deps \cup Imports(V) \cup ({<<Home[owner], Home[TypeName[url]]>>} \
                                                   {<<Home[owner], Home[owner]>>})
      /\ \A v \in Urls : bb.locs[v] =
           IF TypeName[v] \in V /\ (v = URLForType(TypeName[v]) \/ v = url)
           THEN Home[TypeName[v]] ELSE cc.locs[v]
  BY <1>1, <1>2, <1>3, <1>5, DescribedType
<1>7. PICK dd : dd = [bb EXCEPT !.tasks[k] = "done"]
  OBVIOUS
<1>8. /\ dd \in Contexts /\ dd.tasks = [bb.tasks EXCEPT ![k] = "done"]
      /\ dd.locs = bb.locs /\ dd.types = bb.types /\ dd.deps = bb.deps /\ dd.errs = bb.errs
  <2>1. bb \in Contexts
    BY <1>6
  <2> QED
    BY <1>7, <2>1 DEF Contexts
<1>9. \A n \in Names : Home[n] # NoFile
  BY ConstantFacts
<1>10. Grows(cc, dd)
  <2>1. \A v \in Urls : cc.locs[v] # NoFile => dd.locs[v] # NoFile
    BY <1>5, <1>6, <1>8, <1>9
  <2> QED
    BY <1>6, <1>8, <2>1 DEF Grows
<1>11. dd.tasks = [cc.tasks EXCEPT ![k] = "done"] /\ dd.errs = cc.errs
  BY <1>6, <1>8
<1>12. TasksInv(dd, w)
  BY <1>3, <1>8, <1>10, <1>11, TurnTask DEF Grows
<1>13. DataInv(dd, w) /\ \A n \in V : Has(dd, n)
  <2>1. /\ \A v \in Urls : dd.locs[v] =
             IF TypeName[v] \in V /\ (v = URLForType(TypeName[v]) \/ v = Target(k))
             THEN Home[TypeName[v]] ELSE cc.locs[v]
        /\ dd.types = cc.types \cup V
        /\ V \in SUBSET Reachable[TypeName[Target(k)]]
    BY <1>1, <1>4, <1>6, <1>8
  <2> QED
    BY <1>3, <1>8, <2>1, DescribedData
<1>14. \A m \in V \cup Located(cc) : Has(dd, m)
  <2>1. ASSUME NEW m \in Located(cc)
        PROVE  Has(cc, m)
    <3>1. m \in Names /\ cc.locs[URLForType(m)] # NoFile
      BY DEF Located
    <3>2. URLForType(m) \in Urls /\ TypeName[URLForType(m)] = m
      BY <3>1, URLForTypeFacts
    <3> QED
      BY <3>1, <3>2 DEF Has
  <2> QED
    BY <1>10, <1>13, <2>1, GrowingContext
<1>15. \A n \in dd.types \ cc.types : Full(dd, n)
  <2> SUFFICES ASSUME NEW n \in V, NEW m \in Refs(n)
               PROVE  Has(dd, m) /\ (Home[m] = Home[n] \/ <<Home[n], Home[m]>> \in dd.deps)
    BY <1>6, <1>8 DEF Full, Imported
  <2>1. Has(dd, m) /\ m \in Names
    BY <1>4, <1>5, <1>14, RefsType
  <2>2. Home[m] # Home[n] => <<Home[n], Home[m]>> \in Imports(V)
    BY <2>1 DEF Imports
  <2> QED
    BY <1>6, <1>8, <2>1, <2>2
<1>16. dd.locs[url] # NoFile \/ Imported(dd, owner, TypeName[url])
  <2>1. Has(dd, TypeName[url])
    BY <1>4, <1>14
  <2>2. Home[TypeName[url]] # Home[owner] => <<Home[owner], Home[TypeName[url]]>> \in dd.deps
    BY <1>6, <1>8
  <2> QED
    BY <2>1, <2>2 DEF Imported
<1>17. ImportsInv(cc) => ImportsInv(dd)
  BY <1>1, <1>2, <1>3, <1>8, <1>10, <1>11, <1>15, <1>16, TurnImports
<1> QED
  BY <1>7, <1>11, <1>12, <1>13, <1>17 DEF ConvInv

\* All tasks a message's task had started are done, without an error.
LEMMA WaitedContext ==
  ASSUME NEW w \in Urls, NEW cc, ConvInv(cc, w), NEW k \in Tasks, cc.tasks[k] = "wait",
         GroupEnded(cc, Target(k)), cc.errs[Target(k)] = "none",
         NEW bb \in Contexts, bb.tasks = cc.tasks, bb.errs = cc.errs, bb.types = cc.types,
         bb.locs = cc.locs, AddsImports(cc, bb.deps, Target(k))
  PROVE  ConvInv(Ended(bb, k, "none"), w)
<1>1. cc \in Contexts /\ TasksInv(cc, w) /\ DataInv(cc, w) /\ Target(k) \in Urls
  BY ConstantFacts DEF ConvInv, TasksInv
<1>2. PICK dd : dd = Ended(bb, k, "none")
  OBVIOUS
<1>3. /\ dd \in Contexts /\ dd.tasks = [bb.tasks EXCEPT ![k] = "done"]
      /\ dd.locs = bb.locs /\ dd.types = bb.types /\ dd.deps = bb.deps /\ dd.errs = bb.errs
  BY <1>2, EndedWell
<1>4. /\ dd.tasks = [cc.tasks EXCEPT ![k] = "done"]
      /\ dd.locs = cc.locs /\ dd.types = cc.types /\ dd.errs = cc.errs
  BY <1>3
<1>5. TasksInv(dd, w)
  BY <1>1, <1>3, <1>4, WaitedTask
<1>6. DataInv(dd, w)
  BY <1>1, <1>4, SameData
<1>7. AddsImports(cc, dd.deps, Target(k))
  BY <1>3
<1>8. Grows(cc, dd)
  BY <1>4, <1>7 DEF Grows, AddsImports
<1>9. /\ cc.locs[Target(k)] # NoFile /\ TypeName[Target(k)] \in cc.types
      /\ \A u \in Urls : cc.locs[u] # NoFile => cc.locs[u] = Home[TypeName[u]]
  BY <1>1 DEF TasksInv, Nested, DataInv, Places
<1>10. ImportsInv(cc) => ImportsInv(dd)
  BY <1>1, <1>3, <1>4, <1>7, <1>8, <1>9, WaitedImports
<1> QED
  BY <1>2, <1>4, <1>5, <1>6, <1>10 DEF ConvInv

\* An error of a task that was waited for is handed on.
LEMMA HandedContext ==
  ASSUME NEW w \in Urls, NEW cc, ConvInv(cc, w), NEW k \in Tasks, cc.tasks[k] = "wait",
         GroupEnded(cc, Target(k)), cc.errs[Target(k)] # "none", k[2] # 0
  PROVE  LET dd == Ended(cc, k, cc.errs[Target(k)]) IN
         ConvInv(dd, w)
<1>1. cc \in Contexts /\ TasksInv(cc, w) /\ DataInv(cc, w) /\ Target(k) \in Urls /\ k[1] \in Urls
  BY ConstantFacts DEF ConvInv, TasksInv
<1>2. PICK e \in {"none", "notFound", "failed"} : e = cc.errs[Target(k)] /\ e # "none"
  BY <1>1, ContextFacts
<1>3. PICK dd : dd = Ended(cc, k, e)
  OBVIOUS
<1>4. /\ dd \in Contexts /\ dd.tasks = [cc.tasks EXCEPT ![k] = "done"]
      /\ dd.locs = cc.locs /\ dd.types = cc.types /\ dd.deps = cc.deps
      /\ \A u \in Urls : dd.errs[u] = IF u = k[1] /\ k[2] # 0 /\ cc.errs[u] = "none" THEN e ELSE cc.errs[u]
  BY <1>1, <1>3, EndedType
<1>5. /\ \A u \in Urls : cc.errs[u] # "none" => dd.errs[u] = cc.errs[u]
      /\ \A u \in Urls : dd.errs[u] # cc.errs[u] => u = k[1] /\ dd.errs[u] = e
      /\ dd.errs[k[1]] # "none"
  BY <1>1, <1>2, <1>4
<1>6. TasksInv(dd, w)
  BY <1>1, <1>2, <1>4, <1>5, WaitedTask
<1>7. DataInv(dd, w)
  BY <1>1, <1>4, SameData
<1>8. Grows(cc, dd)
  BY <1>2, <1>4, <1>5 DEF Grows
<1>9. /\ cc.locs[Target(k)] # NoFile /\ TypeName[Target(k)] \in cc.types
      /\ \A u \in Urls : cc.locs[u] # NoFile => cc.locs[u] = Home[TypeName[u]]
  BY <1>1 DEF TasksInv, Nested, DataInv, Places
<1>10. ImportsInv(cc) => ImportsInv(dd)
  BY <1>1, <1>4, <1>8, <1>9, WaitedImports
<1> QED
  BY <1>2, <1>3, <1>6, <1>7, <1>10 DEF ConvInv

-----------------------------------------------------------------------------
(* The finds and the registry. *)

\* A find says not found because something it needs is nowhere to be had.
EndsWell(c) == result[c] = "notFound" => want[c] \notin Obtainable

FindGood(c) ==
  /\ pc[c] \in {"idle", "look"} => conv[c] = NewContext
  /\ pc[c] = "convert" => ConvInv(conv[c], want[c])
  /\ pc[c] = "fallback" => TypeName[want[c]] \in Fallback \/ want[c] \notin Obtainable
  /\ EndsWell(c)

\* The fallback resolver has what its types refer to.
FallbackClosed == \A n \in Fallback : Refs(n) \cup NestedRefs[n] \subseteq Fallback

FindsInv ==
  /\ Inv /\ RegistryInv
  /\ \A c \in Callers : FindGood(c)
  /\ FallbackClosed => CacheIsClosed

\* A step of one find is none of the others'.
LEMMA OtherFinds ==
  ASSUME FindsInv, NEW c \in Callers,
         \A b \in Callers \ {c} :
           pc'[b] = pc[b] /\ want'[b] = want[b] /\ conv'[b] = conv[b] /\ result'[b] = result[b],
         FindGood(c)'
  PROVE  \A b \in Callers : FindGood(b)'
<1> SUFFICES ASSUME NEW b \in Callers, b # c PROVE FindGood(b)'
  OBVIOUS
<1>1. FindGood(b)
  BY DEF FindsInv
<1>2. pc'[b] = pc[b] /\ want'[b] = want[b] /\ conv'[b] = conv[b] /\ result'[b] = result[b]
  OBVIOUS
<1>3. EndsWell(b)'
  BY <1>1, <1>2 DEF FindGood, EndsWell
<1> QED
  BY <1>1, <1>2, <1>3 DEF FindGood

LEMMA SameRegistry ==
  ASSUME FindsInv, UNCHANGED <<typeCache, whole, typeURLs>>
  PROVE  RegistryInv' /\ (FallbackClosed => CacheIsClosed)'
  BY DEF FindsInv, RegistryInv, CacheIsClosed, FallbackClosed

\* A step within a conversion.
LEMMA ConversionStep ==
  ASSUME FindsInv, Inv', NEW c \in Callers, pc[c] = "convert",
         NEW dd, ConvInv(dd, want[c]), conv' = [conv EXCEPT ![c] = dd],
         UNCHANGED <<typeCache, whole, typeURLs, pc, want, result>>
  PROVE  FindsInv'
<1>1. FindGood(c) /\ conv'[c] = dd /\ \A b \in Callers \ {c} : conv'[b] = conv[b]
  BY DEF FindsInv, Inv, TypeOK
<1>2. EndsWell(c)'
  BY <1>1 DEF FindGood, EndsWell
<1>3. FindGood(c)'
  BY <1>1, <1>2 DEF FindGood
<1>4. \A b \in Callers : FindGood(b)'
  BY <1>1, <1>3, OtherFinds
<1> QED
  BY <1>4, SameRegistry DEF FindsInv

\* A find that goes on to the fallback resolver.
LEMMA FallbackStep ==
  ASSUME FindsInv, Inv', NEW c \in Callers,
         pc' = [pc EXCEPT ![c] = "fallback"], UNCHANGED <<want, result>>,
         \A b \in Callers \ {c} : conv'[b] = conv[b],
         TypeName[want[c]] \in Fallback \/ want[c] \notin Obtainable
  PROVE  \A b \in Callers : FindGood(b)'
<1>1. FindGood(c) /\ pc'[c] = "fallback" /\ \A b \in Callers \ {c} : pc'[b] = pc[b]
  BY DEF FindsInv, Inv, TypeOK
<1>2. EndsWell(c)'
  BY <1>1 DEF FindGood, EndsWell
<1>3. FindGood(c)'
  BY <1>1, <1>2 DEF FindGood
<1> QED
  BY <1>1, <1>3, OtherFinds

\* A find that ends.
LEMMA EndedStep ==
  ASSUME FindsInv, NEW c \in Callers, NEW r, Return(c, r), want' = want,
         r = "notFound" => want[c] \notin Obtainable
  PROVE  \A b \in Callers : FindGood(b)'
<1>1. /\ pc'[c] = "idle" /\ conv'[c] = NewContext /\ result'[c] = r
      /\ \A b \in Callers \ {c} : pc'[b] = pc[b] /\ conv'[b] = conv[b] /\ result'[b] = result[b]
  BY DEF Return, FindsInv, Inv, TypeOK
<1>2. EndsWell(c)'
  BY <1>1 DEF EndsWell
<1>3. FindGood(c)'
  BY <1>1, <1>2 DEF FindGood
<1> QED
  BY <1>1, <1>3, OtherFinds

\* A task of a find that converts.
LEMMA TaskFacts ==
  ASSUME FindsInv, NEW c \in Callers, NEW k \in Tasks, NEW x \in {"check", "describe", "fetch", "wait"},
         At(c, k, x)
  PROVE  /\ Inv /\ TypeOK /\ RegistryInv /\ FindGood(c) /\ pc[c] = "convert"
         /\ want[c] \in Urls /\ Target(k) \in Urls
         /\ conv[c].tasks[k] = x /\ conv[c] \in Contexts /\ ConvInv(conv[c], want[c])
         /\ conv[c].tasks[<<want[c], 0>>] \in {"fetch", "wait", "done"}
         /\ k[2] = 0 => k = <<want[c], 0>> /\ Target(k) = want[c]
         /\ k # <<want[c], 0>> => k[2] # 0
<1>1. Inv /\ TypeOK /\ RegistryInv /\ FindGood(c) /\ RootInv
  BY DEF FindsInv, Inv
<1>2. /\ pc[c] = "convert" /\ conv[c].tasks[k] = x /\ conv[c] \in Contexts
      /\ want[c] \in Urls /\ Target(k) \in Urls
  BY <1>1, AtFacts
<1>3. ConvInv(conv[c], want[c])
  BY <1>1, <1>2 DEF FindGood
<1>4. conv[c].tasks[<<want[c], 0>>] \in {"fetch", "wait", "done"}
  BY <1>1, <1>2 DEF RootInv
<1>5. k # <<want[c], 0>> => k[2] # 0
  BY <1>2, <1>3 DEF ConvInv, TasksInv, Spawning
<1>6. k = <<want[c], 0>> => Target(k) = want[c]
  BY <1>2, ConstantFacts
<1> QED
  BY <1>1, <1>2, <1>3, <1>4, <1>5, <1>6

LEMMA CheckGood ==
  ASSUME FindsInv, Inv', NEW c \in Callers, NEW k \in Tasks, Check(c, k) PROVE FindsInv'
<1>1. PICK x \in {"describe", "fetch"} :
        x = IF typeCache[Target(k)] # "none" THEN "describe" ELSE "fetch"
  OBVIOUS
<1>2. PICK dd : dd = [conv[c] EXCEPT !.tasks[k] = x]
  OBVIOUS
<1>3. /\ pc[c] = "convert" /\ conv[c].tasks[k] = "check" /\ want[c] \in Urls
      /\ ConvInv(conv[c], want[c])
  BY TaskFacts DEF Check
<1>4. conv' = [conv EXCEPT ![c] = dd]
  BY <1>1, <1>2 DEF Check
<1>5. ConvInv(dd, want[c])
  BY <1>2, <1>3, CheckedContext
<1>6. UNCHANGED <<typeCache, whole, typeURLs, pc, want, result>>
  BY DEF Check, Shared
<1> QED
  BY <1>3, <1>4, <1>5, <1>6, ConversionStep

LEMMA DescribeGood ==
  ASSUME FindsInv, Inv', NEW c \in Callers, NEW k \in Tasks, Describe(c, k) PROVE FindsInv'
<1>1. PICK V : V = Visited(TypeName[Target(k)], Located(conv[c]))
  OBVIOUS
<1>2. PICK bb : bb = Described(conv[c], Target(k), Home[TypeName[k[1]]], V)
  OBVIOUS
<1>3. PICK dd : dd = [bb EXCEPT !.tasks[k] = "done"]
  OBVIOUS
<1>4. /\ pc[c] = "convert" /\ conv[c].tasks[k] = "describe" /\ want[c] \in Urls
      /\ ConvInv(conv[c], want[c]) /\ TypeOK /\ RegistryInv
      /\ conv[c].tasks[<<want[c], 0>>] # "describe"
  BY TaskFacts DEF Describe
<1>5. conv' = [conv EXCEPT ![c] = dd]
  BY <1>1, <1>2, <1>3 DEF Describe
<1>6. ConvInv(dd, want[c])
  <2>1. k # <<want[c], 0>>
    BY <1>4
  <2> QED
    BY <1>1, <1>2, <1>3, <1>4, <2>1, DescribedContext
<1>7. UNCHANGED <<typeCache, whole, typeURLs, pc, want, result>>
  BY DEF Describe, Shared
<1> QED
  BY <1>4, <1>5, <1>6, <1>7, ConversionStep

LEMMA FetchedMessageGood ==
  ASSUME FindsInv, Inv', NEW c \in Callers, NEW k \in Tasks, FetchedMessage(c, k) PROVE FindsInv'
<1>1. /\ pc[c] = "convert" /\ conv[c].tasks[k] = "fetch" /\ want[c] \in Urls
      /\ ConvInv(conv[c], want[c])
  BY TaskFacts DEF FetchedMessage
<1>2. UNCHANGED <<typeCache, whole, typeURLs, pc, want, result>> /\ Target(k) \in Served
  BY DEF FetchedMessage, Shared
<1>3. PICK dd : dd = IF conv[c].locs[Target(k)] # NoFile THEN Ended(conv[c], k, "none")
                     ELSE Spawned(Recorded(conv[c], Target(k)), Target(k), k)
  OBVIOUS
<1>4. conv' = [conv EXCEPT ![c] = dd]
  BY <1>3 DEF FetchedMessage
<1>5. ConvInv(dd, want[c])
  <2>1. CASE conv[c].locs[Target(k)] # NoFile
    BY <1>1, <1>3, <2>1, JoinedContext
  <2>2. CASE conv[c].locs[Target(k)] = NoFile
    BY <1>1, <1>2, <1>3, <2>2, SpawnedContext
  <2> QED
    BY <2>1, <2>2
<1> QED
  BY <1>1, <1>2, <1>4, <1>5, ConversionStep

LEMMA FetchedEnumGood ==
  ASSUME FindsInv, Inv', NEW c \in Callers, NEW k \in Tasks, FetchedEnum(c, k) PROVE FindsInv'
<1>1. /\ pc[c] = "convert" /\ conv[c].tasks[k] = "fetch" /\ want[c] \in Urls
      /\ ConvInv(conv[c], want[c])
  BY TaskFacts DEF FetchedEnum
<1>2. UNCHANGED <<typeCache, whole, typeURLs, pc, want, result>> /\ TypeName[Target(k)] \in Enums
  BY DEF FetchedEnum, Shared
<1>3. PICK dd : dd = Ended(Recorded(conv[c], Target(k)), k, "none")
  OBVIOUS
<1>4. conv' = [conv EXCEPT ![c] = dd]
  BY <1>3 DEF FetchedEnum
<1>5. ConvInv(dd, want[c])
  BY <1>1, <1>2, <1>3, EnumContext
<1> QED
  BY <1>1, <1>2, <1>4, <1>5, ConversionStep

LEMMA NotFetchedGood ==
  ASSUME FindsInv, Inv', NEW c \in Callers, NEW k \in Tasks, NotFetched(c, k) PROVE FindsInv'
<1>1. /\ pc[c] = "convert" /\ conv[c].tasks[k] = "fetch" /\ want[c] \in Urls
      /\ ConvInv(conv[c], want[c])
      /\ k[2] = 0 => k = <<want[c], 0>> /\ Target(k) = want[c]
      /\ k # <<want[c], 0>> => k[2] # 0
  BY TaskFacts DEF NotFetched
<1>2. UNCHANGED <<typeCache, whole, typeURLs, want, result>> /\ Target(k) \notin Served
  BY DEF NotFetched
<1>3. CASE TypeName[Target(k)] \in Fallback
  <2>1. PICK dd : dd = Ended(LocatedIn(conv[c], Target(k)), k, "none")
    OBVIOUS
  <2>2. conv' = [conv EXCEPT ![c] = dd] /\ pc' = pc
    BY <1>3, <2>1 DEF NotFetched
  <2>3. ConvInv(dd, want[c])
    BY <1>1, <1>3, <2>1, FallbackContext
  <2> QED
    BY <1>1, <1>2, <2>2, <2>3, ConversionStep
<1>4. CASE TypeName[Target(k)] \notin Fallback
  <2>1. PICK dd : dd = Ended(conv[c], k, "notFound")
    OBVIOUS
  <2>2. /\ conv' = [conv EXCEPT ![c] = dd]
        /\ pc' = IF k[2] = 0 THEN [pc EXCEPT ![c] = "fallback"] ELSE pc
    BY <1>4, <2>1 DEF NotFetched
  <2>3. CASE k[2] = 0
    <3>1. want[c] \notin Obtainable
      BY <1>1, <1>2, <1>4, <2>3, NeededFacts, MissingURL
    <3>2. \A b \in Callers \ {c} : conv'[b] = conv[b]
      BY <2>2 DEF FindsInv, Inv, TypeOK
    <3> QED
      BY <1>2, <2>2, <2>3, <3>1, <3>2, FallbackStep, SameRegistry DEF FindsInv
  <2>4. CASE k[2] # 0
    <3>1. k # <<want[c], 0>> /\ pc' = pc
      BY <2>2, <2>4
    <3>2. ConvInv(dd, want[c])
      BY <1>1, <1>2, <1>4, <2>1, <3>1, FailedContext
    <3> QED
      BY <1>1, <1>2, <2>2, <3>1, <3>2, ConversionStep
  <2> QED
    BY <2>3, <2>4
<1> QED
  BY <1>3, <1>4

LEMMA FetchFailsGood ==
  ASSUME FindsInv, Inv', NEW c \in Callers, NEW k \in Tasks, FetchFails(c, k) PROVE FindsInv'
<1>1. /\ pc[c] = "convert" /\ conv[c].tasks[k] = "fetch" /\ want[c] \in Urls
      /\ ConvInv(conv[c], want[c])
      /\ k # <<want[c], 0>> => k[2] # 0
  BY TaskFacts DEF FetchFails
<1>2. UNCHANGED <<typeCache, whole, typeURLs, want>>
  BY DEF FetchFails
<1>3. CASE k[2] = 0
  <2>1. Return(c, "failed")
    BY <1>2, <1>3 DEF FetchFails
  <2> QED
    BY <1>2, <2>1, EndedStep, SameRegistry DEF FindsInv
<1>4. CASE k[2] # 0
  <2>1. PICK dd : dd = Ended(conv[c], k, "failed")
    OBVIOUS
  <2>2. conv' = [conv EXCEPT ![c] = dd] /\ UNCHANGED <<pc, result>>
    BY <1>4, <2>1 DEF FetchFails
  <2>3. ConvInv(dd, want[c])
    <3>1. k # <<want[c], 0>>
      BY <1>4
    <3> QED
      BY <1>1, <2>1, <3>1, FailedContext
  <2> QED
    BY <1>1, <1>2, <2>2, <2>3, ConversionStep
<1> QED
  BY <1>3, <1>4

LEMMA GroupDoneGood ==
  ASSUME FindsInv, Inv', NEW c \in Callers, NEW k \in Tasks, GroupDone(c, k) PROVE FindsInv'
<1>1. PICK cc : cc = conv[c]
  OBVIOUS
<1>2. PICK url : url = Target(k)
  OBVIOUS
<1>3. PICK F : F = Fields[TypeName[url]]
  OBVIOUS
<1>4. PICK used : used = {cc.locs[F[i]] : i \in DOMAIN F}
  OBVIOUS
<1>5. PICK f : f = Home[TypeName[url]]
  OBVIOUS
<1>6. PICK bb : bb = [cc EXCEPT !.deps = @ \cup ({f} \X (used \ {f}))]
  OBVIOUS
<1>7. /\ pc[c] = "convert" /\ cc \in Contexts /\ cc.tasks[k] = "wait" /\ want[c] \in Urls
      /\ ConvInv(cc, want[c]) /\ url \in Urls
      /\ k[2] = 0 => k = <<want[c], 0>> /\ url = want[c]
      /\ FindGood(c)
  BY <1>1, <1>2, TaskFacts DEF GroupDone
<1>8. UNCHANGED <<typeCache, whole, typeURLs, want>> /\ GroupEnded(cc, url)
  BY <1>1, <1>2 DEF GroupDone
<1>9. CASE cc.errs[url] = "none"
  <2>1. PICK dd : dd = Ended(bb, k, "none")
    OBVIOUS
  <2>2. conv' = [conv EXCEPT ![c] = dd] /\ UNCHANGED <<pc, result>>
    BY <1>1, <1>2, <1>3, <1>4, <1>5, <1>6, <1>9, <2>1 DEF GroupDone
  <2>3. FieldUrls(TypeName[url]) = {F[i] : i \in DOMAIN F} /\ FieldUrls(TypeName[url]) \subseteq Urls
    BY <1>3, <1>7, RefsType, ConstantFacts DEF FieldUrls
  <2>4. \A g : g \in used <=> \E u \in FieldUrls(TypeName[url]) : g = cc.locs[u]
    BY <1>4, <2>3
  <2>5. f \in Files /\ used \subseteq Files \cup {NoFile}
    BY <1>5, <1>7, <2>3, <2>4, ConstantFacts, ContextFacts
  <2>6. /\ bb \in Contexts /\ bb.tasks = cc.tasks /\ bb.errs = cc.errs /\ bb.types = cc.types
        /\ bb.locs = cc.locs /\ bb.deps = cc.deps \cup ({f} \X (used \ {f}))
    BY <1>6, <1>7, <2>5 DEF Contexts
  <2>7. AddsImports(cc, bb.deps, url)
    BY <1>5, <2>4, <2>6 DEF AddsImports
  <2>8. ConvInv(dd, want[c])
    BY <1>2, <1>7, <1>8, <1>9, <2>1, <2>6, <2>7, WaitedContext
  <2> QED
    BY <1>1, <1>7, <1>8, <2>2, <2>8, ConversionStep
<1>10. CASE cc.errs[url] # "none" /\ k[2] # 0
  <2>1. PICK dd : dd = Ended(cc, k, cc.errs[url])
    OBVIOUS
  <2>2. conv' = [conv EXCEPT ![c] = dd] /\ UNCHANGED <<pc, result>>
    BY <1>1, <1>2, <1>10, <2>1 DEF GroupDone
  <2>3. ConvInv(dd, want[c])
    BY <1>2, <1>7, <1>8, <1>10, <2>1, HandedContext
  <2> QED
    BY <1>1, <1>7, <1>8, <2>2, <2>3, ConversionStep
<1>11. CASE cc.errs[url] = "notFound" /\ k[2] = 0
  <2>1. pc' = [pc EXCEPT ![c] = "fallback"] /\ UNCHANGED <<conv, result>>
    BY <1>1, <1>2, <1>11 DEF GroupDone
  <2>2. want[c] \notin Obtainable
    BY <1>7, <1>11 DEF ConvInv, TasksInv, Errors
  <2> QED
    BY <1>8, <2>1, <2>2, FallbackStep, SameRegistry DEF FindsInv
<1>12. CASE cc.errs[url] \notin {"none", "notFound"} /\ k[2] = 0
  <2>1. Return(c, "failed")
    BY <1>1, <1>2, <1>12 DEF GroupDone
  <2> QED
    BY <1>8, <2>1, EndedStep, SameRegistry DEF FindsInv
<1> QED
  BY <1>9, <1>10, <1>11, <1>12

LEMMA LookGood == ASSUME FindsInv, Inv', NEW c \in Callers, Look(c) PROVE FindsInv'
<1>1. /\ TypeOK /\ want[c] \in Urls /\ pc[c] = "look" /\ FindGood(c)
      /\ UNCHANGED <<typeCache, whole, typeURLs, want>>
  BY DEF FindsInv, Inv, TypeOK, Look
<1>2. CASE typeCache[want[c]] # "none"
  <2>1. Return(c, "ok")
    BY <1>2 DEF Look
  <2> QED
    BY <1>1, <2>1, EndedStep, SameRegistry DEF FindsInv
<1>3. CASE typeCache[want[c]] = "none"
  <2>1. PICK dd : dd = [NewContext EXCEPT !.tasks[<<want[c], 0>>] = "fetch"]
    OBVIOUS
  <2>2. conv[c] = NewContext
    BY <1>1 DEF FindGood
  <2>3. conv' = [conv EXCEPT ![c] = dd] /\ pc' = [pc EXCEPT ![c] = "convert"] /\ result' = result
    BY <1>3, <2>1, <2>2 DEF Look
  <2>4. ConvInv(dd, want[c])
    BY <1>1, <2>1, NewConversion
  <2>5. /\ conv'[c] = dd /\ pc'[c] = "convert"
        /\ \A b \in Callers \ {c} : conv'[b] = conv[b] /\ pc'[b] = pc[b]
    BY <1>1, <2>3 DEF TypeOK
  <2>6. EndsWell(c)'
    BY <1>1, <2>3 DEF FindGood, EndsWell
  <2>7. FindGood(c)'
    BY <1>1, <2>4, <2>5, <2>6 DEF FindGood
  <2>8. \A b \in Callers : FindGood(b)'
    BY <1>1, <2>3, <2>5, <2>7, OtherFinds
  <2> QED
    BY <1>1, <2>8, SameRegistry DEF FindsInv
<1> QED
  BY <1>2, <1>3

LEMMA FallbackLookupGood ==
  ASSUME FindsInv, Inv', NEW c \in Callers, FallbackLookup(c) PROVE FindsInv'
<1>1. /\ pc[c] = "fallback" /\ UNCHANGED <<typeCache, whole, typeURLs, want>>
      /\ TypeName[want[c]] \in Fallback \/ want[c] \notin Obtainable
  BY DEF FindsInv, FindGood, FallbackLookup
<1>2. PICK r : r = IF TypeName[want[c]] \in Fallback THEN "ok" ELSE "notFound"
  OBVIOUS
<1>3. Return(c, r)
  BY <1>2 DEF FallbackLookup
<1>4. /\ r = "notFound" => want[c] \notin Obtainable
      /\ r # "failed"
  BY <1>1, <1>2
<1> QED
  BY <1>1, <1>3, <1>4, EndedStep, SameRegistry DEF FindsInv

LEMMA BeginGood ==
  ASSUME FindsInv, Inv', NEW c \in Callers, NEW u \in Urls, Begin(c, u) PROVE FindsInv'
<1>1. /\ pc[c] = "idle" /\ FindGood(c) /\ UNCHANGED <<typeCache, whole, typeURLs, conv>>
      /\ pc'[c] = "look" /\ result'[c] = "none"
      /\ \A b \in Callers \ {c} :
           pc'[b] = pc[b] /\ want'[b] = want[b] /\ result'[b] = result[b]
  BY DEF FindsInv, Inv, TypeOK, Begin
<1>2. EndsWell(c)'
  BY <1>1 DEF EndsWell
<1>3. FindGood(c)'
  BY <1>1, <1>2 DEF FindGood
<1>4. \A b \in Callers : FindGood(b)'
  BY <1>1, <1>3, OtherFinds
<1> QED
  BY <1>1, <1>4, SameRegistry DEF FindsInv

\* The URLs that are stored are of their types, and no type is forgotten.
LEMMA WithURLsFacts ==
  ASSUME TypeOK, RegistryInv, NEW P \in SUBSET Urls, typeURLs' = WithURLs(P)
  PROVE  /\ RegistryInv'
         /\ \A n \in Names : typeURLs[n] # NoUrl => typeURLs'[n] # NoUrl
         /\ \A u \in P : typeURLs'[TypeName[u]] # NoUrl
<1>1. NoUrl \notin Urls /\ \A u \in P : TypeName[u] \in Names
  BY ConstantFacts
<1>2. ASSUME NEW n \in Names, \E u \in P : TypeName[u] = n
      PROVE  typeURLs'[n] \in P /\ TypeName[typeURLs'[n]] = n
  <2>1. typeURLs'[n] = CHOOSE u \in P : TypeName[u] = n
    BY <1>2 DEF WithURLs
  <2> QED
    BY <1>2, <2>1
<1>3. ASSUME NEW n \in Names, ~\E u \in P : TypeName[u] = n
      PROVE  typeURLs'[n] = typeURLs[n]
  BY <1>3 DEF WithURLs
<1>4. RegistryInv'
  BY <1>2, <1>3 DEF RegistryInv
<1> QED
  BY <1>1, <1>2, <1>3, <1>4

LEMMA RegisterGood ==
  ASSUME FindsInv, Inv', NEW R \in Registrations, Register(R) PROVE FindsInv'
<1>1. R \in SUBSET Urls
  BY RemoteAssumption DEF Registrations
<1>2. /\ TypeOK /\ RegistryInv /\ typeURLs' = WithURLs(R)
      /\ UNCHANGED <<pc, want, conv, result>>
      /\ \A u \in Urls : typeCache'[u] = "fetched" => typeCache[u] = "fetched" /\ whole'[u] = whole[u]
  BY DEF FindsInv, Inv, TypeOK, Register
<1>3. RegistryInv' /\ \A n \in Names : typeURLs[n] # NoUrl => typeURLs'[n] # NoUrl
  BY <1>1, <1>2, WithURLsFacts
<1>4. \A b \in Callers : FindGood(b)'
  BY <1>2 DEF FindsInv, FindGood, EndsWell
<1>5. (FallbackClosed => CacheIsClosed)'
  <2> SUFFICES ASSUME FallbackClosed, NEW u \in Urls, typeCache'[u] = "fetched",
                      NEW m \in RefsIn(TypeName[u], whole'[u])
               PROVE  typeURLs'[m] # NoUrl \/ m \in Fallback
    BY DEF CacheIsClosed, FallbackClosed
  <2>1. typeURLs[m] # NoUrl \/ m \in Fallback
    BY <1>2 DEF FindsInv, CacheIsClosed
  <2>2. m \in Names
    BY ConstantFacts, RefsInType
  <2> QED
    BY <1>3, <2>1, <2>2
<1> QED
  BY <1>3, <1>4, <1>5 DEF FindsInv

LEMMA CommitGood == ASSUME FindsInv, Inv', NEW c \in Callers, Commit(c) PROVE FindsInv'
<1>1. PICK cc : cc = conv[c]
  OBVIOUS
<1>2. PICK w \in Urls : w = want[c]
  BY DEF FindsInv, Inv, TypeOK
<1>3. PICK located : located = {u \in Urls : cc.locs[u] # NoFile}
  OBVIOUS
<1>4. PICK found : found = {u \in located : TypeName[u] \in Defined(cc)}
  OBVIOUS
<1>5. /\ pc[c] = "convert" /\ cc.tasks[<<w, 0>>] = "done" /\ UNCHANGED want
      /\ Inv /\ TypeOK /\ RegistryInv /\ FindGood(c)
  BY <1>1, <1>2 DEF Commit, FindsInv, Inv
<1>6. ConvInv(cc, w)
  BY <1>1, <1>2, <1>5 DEF FindGood
<1>7. CASE ~Converts(cc)
  <2>1. Return(c, "failed") /\ UNCHANGED <<typeCache, whole, typeURLs>>
    BY <1>1, <1>7 DEF Commit
  <2> QED
    BY <1>2, <1>5, <2>1, EndedStep, SameRegistry DEF FindsInv
<1>8. CASE Converts(cc)
  <2>1. PICK W \in IF found = located THEN {located} ELSE SUBSET found :
          /\ typeCache' = [u \in Urls |-> IF u \in Stored(c, W) THEN "fetched" ELSE typeCache[u]]
          /\ whole' = [u \in Urls |-> IF u \in Stored(c, W)
                                     THEN cc.whole \cup (Nesting \cap (Defined(cc) \ cc.types))
                                     ELSE whole[u]]
          /\ \E P \in OnePerType(Stored(c, W)) : typeURLs' = WithURLs(P)
          /\ IF found = located THEN Return(c, "ok")
             ELSE pc' = [pc EXCEPT ![c] = "fallback"] /\ UNCHANGED <<conv, result>>
    BY <1>1, <1>3, <1>4, <1>8 DEF Commit
  <2>2. Stored(c, W) = W /\ W \subseteq located /\ located \subseteq Urls
    BY <1>3, <1>4, <2>1 DEF Stored
  <2>3. PICK P \in OnePerType(W) : typeURLs' = WithURLs(P)
    BY <2>1, <2>2
  <2>4. P \in SUBSET Urls /\ \A u \in W : \E v \in P : TypeName[v] = TypeName[u]
    BY <2>2, <2>3 DEF OnePerType
  <2>5. /\ RegistryInv'
        /\ \A n \in Names : typeURLs[n] # NoUrl => typeURLs'[n] # NoUrl
        /\ \A u \in P : typeURLs'[TypeName[u]] # NoUrl
    BY <1>5, <2>3, <2>4, WithURLsFacts
  <2>6. TypesResolve(cc) /\ DataInv(cc, w)
    BY <1>6, <1>8 DEF Converts, ConvInv
  <2>7. found # located => W = {} /\ TypeName[w] \in Fallback
    <3> SUFFICES ASSUME found # located PROVE W = {} /\ TypeName[w] \in Fallback
      OBVIOUS
    <3>1. PICK u \in located : TypeName[u] \notin Defined(cc)
      BY <1>4
    <3>2. /\ TypeName[w] \in Fallback /\ TypeName[w] \notin Defined(cc)
          /\ \A v \in Urls : cc.locs[v] # NoFile => v = w
      BY <1>3, <2>6, <3>1, LocatedIsDefined
    <3>3. found = {}
      BY <1>3, <1>4, <3>2
    <3> QED
      BY <2>1, <3>2, <3>3
  <2>8. (FallbackClosed => CacheIsClosed)'
    <3> SUFFICES ASSUME FallbackClosed, NEW u \in Urls, typeCache'[u] = "fetched",
                        NEW m \in RefsIn(TypeName[u], whole'[u])
                 PROVE  typeURLs'[m] # NoUrl \/ m \in Fallback
      BY DEF CacheIsClosed, FallbackClosed
    <3>1. m \in Names
      BY ConstantFacts, RefsInType
    <3>2. CASE u \notin W
      <4>1. typeCache[u] = "fetched" /\ whole'[u] = whole[u]
        BY <2>1, <2>2, <3>2
      <4>2. typeURLs[m] # NoUrl \/ m \in Fallback
        BY <4>1 DEF FindsInv, CacheIsClosed
      <4> QED
        BY <2>5, <3>1, <4>2
    <3>3. CASE u \in W
      <4>1. found = located /\ W = located
        BY <2>1, <2>7, <3>3
      <4>2. TypeName[u] \in Defined(cc)
        BY <1>4, <3>3, <4>1
      <4>3. CASE TypeName[u] \in cc.types
        <5>1. m \in Defined(cc)
          <6>1. whole'[u] = cc.whole \cup (Nesting \cap (Defined(cc) \ cc.types))
            BY <2>1, <2>2, <3>3
          <6>2. TypeName[u] \in whole'[u] <=> TypeName[u] \in cc.whole
            BY <4>3, <6>1
          <6>3. m \in RefsIn(TypeName[u], cc.whole)
            BY <6>2 DEF RefsIn
          <6> QED
            BY <2>6, <4>3, <6>3 DEF TypesResolve
        <5>2. CASE m \in cc.types
          <6>1. PICK v \in Urls : TypeName[v] = m /\ cc.locs[v] # NoFile
            BY <2>6, <5>2 DEF DataInv, Places, Has
          <6>2. v \in W
            BY <1>3, <4>1, <6>1
          <6> QED
            BY <2>4, <2>5, <6>1, <6>2
        <5> QED
          BY <5>1, <5>2 DEF Defined
      <4>4. CASE TypeName[u] \in Fallback
        BY <4>4 DEF FallbackClosed, RefsIn
      <4> QED
        BY <4>2, <4>3, <4>4 DEF Defined
    <3> QED
      BY <3>2, <3>3
  <2>9. \A b \in Callers : FindGood(b)'
    <3>1. CASE found = located
      BY <1>5, <2>1, <3>1, EndedStep
    <3>2. CASE found # located
      BY <1>2, <1>5, <2>1, <2>7, <3>2, FallbackStep
    <3> QED
      BY <3>1, <3>2
  <2> QED
    BY <2>5, <2>8, <2>9 DEF FindsInv
<1> QED
  BY <1>7, <1>8

LEMMA FindsInit == Init => FindsInv
<1> SUFFICES ASSUME Init PROVE FindsInv
  OBVIOUS
<1>1. Inv
  BY InvInit
<1>2. \A c \in Callers : FindGood(c)
  BY DEF Init, FindGood, EndsWell
<1>3. RegistryInv /\ CacheIsClosed
  BY DEF Init, RegistryInv, CacheIsClosed
<1> QED
  BY <1>1, <1>2, <1>3 DEF FindsInv

LEMMA FindsStep == FindsInv /\ [Next]_vars => FindsInv'
<1> SUFFICES ASSUME FindsInv, [Next]_vars PROVE FindsInv'
  OBVIOUS
<1>1. Inv'
  BY InvStep DEF FindsInv
<1>2. ASSUME NEW c \in Callers, Work(c) PROVE FindsInv'
  <2>1. ASSUME NEW k \in Tasks, Task(c, k) PROVE FindsInv'
    BY <1>1, <2>1, CheckGood, DescribeGood, FetchedMessageGood, FetchedEnumGood,
       NotFetchedGood, FetchFailsGood, GroupDoneGood DEF Task
  <2> QED
    BY <1>1, <1>2, <2>1, LookGood, FallbackLookupGood, CommitGood DEF Work
<1>3. ASSUME NEW c \in Callers, NEW u \in Wanted[c], Begin(c, u) PROVE FindsInv'
  <2>1. u \in Urls
    BY <1>3, RemoteAssumption
  <2> QED
    BY <1>1, <1>3, <2>1, BeginGood
<1>4. ASSUME NEW R \in Registrations, Register(R) PROVE FindsInv'
  BY <1>1, <1>4, RegisterGood
<1>5. CASE UNCHANGED vars
  <2>1. \A c \in Callers : FindGood(c)'
    BY <1>5 DEF vars, FindsInv, FindGood, EndsWell
  <2> QED
    BY <1>1, <1>5, <2>1, SameRegistry DEF vars, FindsInv
<1> QED
  BY <1>2, <1>3, <1>4, <1>5 DEF Next

\* Whatever the finds and the program do at the same time, a find says not found only if
\* nothing is served at some URL the type needs, and the type of that URL is not in the
\* fallback resolver either.
THEOREM NotFoundIsJustified == Spec => []NotFoundIsReal
<1>1. FindsInv => NotFoundIsReal
  BY DEF FindsInv, FindGood, EndsWell, NotFoundIsReal
<1> QED
  BY <1>1, FindsInit, FindsStep, PTL DEF Spec

\* Whatever the goroutines of a find do at the same time, and the program and other finds
\* in the registry, once they have ended without an error all that the find's types refer
\* to is located and imported, under whichever URLs it was met.
THEOREM ReferencesAreKept == Spec => []ConversionsAreComplete
<1>1. FindsInv => ConversionsAreComplete
  <2> SUFFICES ASSUME FindsInv, NEW c \in Callers, pc[c] = "convert",
                      conv[c].tasks[<<want[c], 0>>] = "done",
                      NEW n \in conv[c].types, NEW m \in Refs(n)
               PROVE  /\ \E u \in Urls : TypeName[u] = m /\ conv[c].locs[u] # NoFile
                      /\ Home[m] \in {Home[n]} \cup DepsOf(conv[c], Home[n])
    BY DEF ConversionsAreComplete
  <2>1. ConvInv(conv[c], want[c]) /\ want[c] \in Urls
    BY DEF FindsInv, FindGood, Inv, TypeOK
  <2>2. Full(conv[c], n)
    BY <2>1, DoneIsFull DEF ConvInv
  <2>3. Imported(conv[c], n, m)
    BY <2>2 DEF Full
  <2>4. n \in Names
    BY <2>1, ContextFacts DEF ConvInv, TasksInv
  <2>5. Home[m] \in Files
    BY <2>4, RefsType, ConstantFacts
  <2> QED
    BY <2>3, <2>5 DEF Imported, Has, DepsOf
<1> QED
  BY <1>1, FindsInit, FindsStep, PTL DEF Spec

\* If the fallback resolver has what its types refer to, what a type in the cache
\* refers to is known or in the fallback resolver, whichever finds stored it.
THEOREM CacheStaysClosed ==
  ASSUME FallbackClosed PROVE Spec => []CacheIsClosed
<1>1. FindsInv => CacheIsClosed
  BY DEF FindsInv
<1> QED
  BY <1>1, FindsInit, FindsStep, PTL DEF Spec
=============================================================================
