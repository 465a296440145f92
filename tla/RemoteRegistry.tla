--------------------------- MODULE RemoteRegistry ---------------------------
(***************************************************************************)
(* remotereg.Registry (protoresolve/remotereg): types registered by the    *)
(* program, looked up by URL, fetched with all they refer to and converted *)
(* to descriptors (remote_registry.go; convertContext of converter.go).    *)
(*                                                                         *)
(* A find has a conversion context of its own, to which one goroutine for  *)
(* each reference adds what it gets.  A task <<u, i>> is the goroutine for *)
(* field i of the message fetched from u; <<u, 0>> is the find itself.     *)
(* Each critical section of Registry.mu and of convertContext.mu is one    *)
(* action.                                                                 *)
(*                                                                         *)
(* The names are those of top-level types.  Of the messages nested in one, *)
(* which come along in its descriptor, only what they refer to counts.     *)
(***************************************************************************)
EXTENDS Integers, Sequences, FiniteSets

CONSTANTS
  Callers,      \* goroutines that call the registry
  Names,        \* full names of types
  Urls,         \* type URLs
  Files,        \* paths
  TypeName,     \* the name a URL ends with (TypeNameFromURL)
  DefaultURL,   \* the URL made of the base URL and the name
  Enums,        \* the names that are enums; the others are messages
  Home,         \* the file that defines a type, wherever it is obtained
  Fields,       \* the URLs a message's fields refer to, in order
  NestedRefs,   \* the types the fields of the messages nested in it refer to
  Served,       \* the URLs the TypeFetcher has
  Fallback,     \* the types the fallback resolver has
  Program,      \* the types the program has descriptors of
  Wanted,       \* for each caller the URLs it may look for
  NoUrl, NoFile

FieldUrls(n) == {Fields[n][i] : i \in DOMAIN Fields[n]}
Refs(n) == {TypeName[u] : u \in FieldUrls(n)}

\* A file may import another; imports are acyclic, and a file is in the fallback
\* resolver as a whole or not at all.
ASSUME RemoteAssumption ==
  /\ TypeName \in [Urls -> Names] /\ DefaultURL \in [Names -> Urls]
  /\ \A n \in Names : TypeName[DefaultURL[n]] = n
  /\ Home \in [Names -> Files] /\ Fields \in [Names -> Seq(Urls)]
  /\ NestedRefs \in [Names -> SUBSET Names]
  /\ Enums \subseteq Names /\ \A n \in Enums : Fields[n] = <<>> /\ NestedRefs[n] = {}
  /\ Served \subseteq Urls /\ Fallback \subseteq Names /\ Program \subseteq Names
  /\ Wanted \in [Callers -> SUBSET Urls]
  /\ \A n \in Program : Refs(n) \cup NestedRefs[n] \subseteq Program
  /\ \A n \in Fallback, u \in Served : Home[n] # Home[TypeName[u]]
  /\ NoUrl \notin Urls /\ NoFile \notin Files

VARIABLES
  typeCache,    \* for each URL where its descriptor is from, or "none"
  whole,        \* of each cached descriptor, the types it leads to that are there
                \* with the messages nested in them
  typeURLs,     \* the URL of each known type, or NoUrl
  pc,           \* where each caller is
  want,         \* the URL it looks for
  conv,         \* its convertContext
  result        \* how its latest find ended

vars == <<typeCache, whole, typeURLs, pc, want, conv, result>>

\* The types that have nested messages to lose: a typepb.Type comes without them.
Nesting == {n \in Names : NestedRefs[n] # {}}

Tasks == UNION {{u} \X ({0} \cup DOMAIN Fields[TypeName[u]]) : u \in Urls}

Target(k) == IF k[2] = 0 THEN k[1] ELSE Fields[TypeName[k[1]]][k[2]]

\* locs is typeLocations; the files map is types (all types put into some
\* fileEntry, each under its own file), whole (those that were put there as
\* descriptors, with the messages nested in them) and deps (pairs of files,
\* NoFile for the empty path); tasks and errs are the errgroups, by the URL of their message.
Contexts ==
  [locs : [Urls -> Files \cup {NoFile}],
   types : SUBSET Names,
   whole : SUBSET Nesting,
   deps : SUBSET (Files \X (Files \cup {NoFile})),
   tasks : [Tasks -> {"none", "check", "describe", "fetch", "wait", "done"}],
   errs : [Urls -> {"none", "notFound", "failed"}]]

NewContext ==
  [locs |-> [u \in Urls |-> NoFile], types |-> {}, whole |-> {}, deps |-> {},
   tasks |-> [k \in Tasks |-> "none"], errs |-> [u \in Urls |-> "none"]]

TypeOK ==
  /\ typeCache \in [Urls -> {"none", "program", "fetched"}]
  /\ whole \in [Urls -> SUBSET Nesting]
  /\ typeURLs \in [Names -> Urls \cup {NoUrl}]
  /\ pc \in [Callers -> {"idle", "look", "convert", "fallback"}]
  /\ want \in [Callers -> Urls]
  /\ conv \in [Callers -> Contexts]
  /\ result \in [Callers -> {"none", "ok", "notFound", "failed"}]

Init ==
  /\ typeCache = [u \in Urls |-> "none"]
  /\ whole = [u \in Urls |-> {}]
  /\ typeURLs = [n \in Names |-> NoUrl]
  /\ pc = [c \in Callers |-> "idle"]
  /\ want \in [Callers -> Urls]
  /\ conv = [c \in Callers |-> NewContext]
  /\ result = [c \in Callers |-> "none"]

-----------------------------------------------------------------------------
(* Registration by the program. *)

\* checkTypeLocked, for every type before any is registered.
Unregistered(R) ==
  \A u \in R : typeURLs[TypeName[u]] = NoUrl /\ typeCache[u] = "none"

\* typeURLs with each type of P (which has one URL for a type) under its URL.
WithURLs(P) ==
  [n \in Names |-> IF \E u \in P : TypeName[u] = n THEN CHOOSE u \in P : TypeName[u] = n
                   ELSE typeURLs[n]]

\* RegisterMessage(WithURL), RegisterEnum(WithURL) and RegisterTypesInFile; one
\* that is refused changes nothing.
Register(R) ==
  /\ Unregistered(R)
  /\ typeURLs' = WithURLs(R)
  /\ typeCache' = [u \in Urls |-> IF u \in R THEN "program" ELSE typeCache[u]]
  /\ whole' = [u \in Urls |-> IF u \in R THEN Nesting ELSE whole[u]]
  /\ UNCHANGED <<pc, want, conv, result>>

\* One type under a URL that ends with its name, or all types of a file.
Registrations ==
  {{u} : u \in {v \in Urls : TypeName[v] \in Program}} \cup
  {{DefaultURL[n] : n \in {m \in Program : Home[m] = f}} : f \in Files}

-----------------------------------------------------------------------------
(* A find: the registry, then a conversion, then the fallback resolver. *)

URLForType(n) == IF typeURLs[n] # NoUrl THEN typeURLs[n] ELSE DefaultURL[n]

Return(c, r) ==
  /\ result' = [result EXCEPT ![c] = r]
  /\ pc' = [pc EXCEPT ![c] = "idle"]
  /\ conv' = [conv EXCEPT ![c] = NewContext]

\* FindMessageByURLContext, FindEnumByURLContext.
Begin(c, u) ==
  /\ pc[c] = "idle"
  /\ pc' = [pc EXCEPT ![c] = "look"]
  /\ want' = [want EXCEPT ![c] = u]
  /\ result' = [result EXCEPT ![c] = "none"]
  /\ UNCHANGED <<typeCache, whole, typeURLs, conv>>

Look(c) ==
  /\ pc[c] = "look"
  /\ IF typeCache[want[c]] # "none"
     THEN Return(c, "ok")
     ELSE /\ pc' = [pc EXCEPT ![c] = "convert"]
          /\ conv' = [conv EXCEPT ![c].tasks[<<want[c], 0>>] = "fetch"]
          /\ UNCHANGED result
  /\ UNCHANGED <<typeCache, whole, typeURLs, want>>

FallbackLookup(c) ==
  /\ pc[c] = "fallback"
  /\ Return(c, IF TypeName[want[c]] \in Fallback THEN "ok" ELSE "notFound")
  /\ UNCHANGED <<typeCache, whole, typeURLs, want>>

-----------------------------------------------------------------------------
(* Goroutines that add to a conversion context. *)

At(c, k, s) == pc[c] = "convert" /\ conv[c].tasks[k] = s

Shared == <<typeCache, whole, typeURLs, pc, want, result>>

\* The registry is looked at first, under its lock.
Check(c, k) ==
  /\ At(c, k, "check")
  /\ conv' = [conv EXCEPT ![c].tasks[k] =
                IF typeCache[Target(k)] # "none" THEN "describe" ELSE "fetch"]
  /\ UNCHANGED Shared

\* What can be reached from n along the references of messages: the least set that has n
\* and what its members refer to.
Reachable ==
  [n \in Names |-> {m \in Names : \A C \in SUBSET Names :
     n \in C /\ (\A o \in C : Refs(o) \subseteq C) => m \in C}]

\* What addDescriptors visits from n: types not yet located, and what these refer to by
\* fields of their own.  Those of the messages nested in them are not looked at.
Visited(n, seen) ==
  LET complete == {C \in SUBSET Reachable[n] :
        {n} \ seen \subseteq C /\ \A m \in C : Refs(m) \ seen \subseteq C}
  IN {m \in Reachable[n] : \A C \in complete : m \in C}

Located(cc) == {n \in Names : cc.locs[URLForType(n)] # NoFile}

\* Fault: what the file of a known type imports is not recorded.
ImportsNone(S) == {}

Imports(S) == {p \in {<<Home[n], Home[m]>> : n \in S, m \in Names} :
  p[1] # p[2] /\ \E n \in S, m \in Names : m \in Refs(n) /\ p = <<Home[n], Home[m]>>}

\* recordDescriptor: the types of S, met from the type of url, for a field in file ref;
\* each as its descriptor has it, which is ToDescriptorProto of the linked one.
Described(cc, url, ref, S) ==
  LET f == Home[TypeName[url]] IN
  [cc EXCEPT !.types = @ \cup S,
             !.whole = @ \cup (S \cap whole[url]),
             !.deps = @ \cup Imports(S) \cup ({<<ref, f>>} \ {<<ref, ref>>}),
             !.locs = [u \in Urls |->
               IF TypeName[u] \in S /\ (u = URLForType(TypeName[u]) \/ u = url)
               THEN Home[TypeName[u]] ELSE @[u]]]

\* The registry has the type.
Describe(c, k) ==
  LET url == Target(k) IN
  /\ At(c, k, "describe")
  /\ \E new \in {Visited(TypeName[url], Located(conv[c]))} :
       conv' = [conv EXCEPT ![c] =
         [Described(@, url, Home[TypeName[k[1]]], new) EXCEPT !.tasks[k] = "done"]]
  /\ UNCHANGED Shared

\* The context with task k ended, its error (if any) the first of its group.
Ended(cc, k, e) ==
  [cc EXCEPT !.tasks[k] = "done",
             !.errs[k[1]] = IF k[2] # 0 /\ @ = "none" THEN e ELSE @]

\* Fault: a type is recorded at its name instead of its file.
RecordedByName(cc, url) ==
  [cc EXCEPT !.types = @ \cup {TypeName[url]}, !.locs[url] = TypeName[url]]

\* recordEnum, recordType: the types and where they are.  What was there under the
\* name is replaced, nested messages included.
Recorded(cc, url) ==
  [cc EXCEPT !.types = @ \cup {TypeName[url]}, !.whole = @ \ {TypeName[url]},
             !.locs[url] = Home[TypeName[url]]]

Spawned(cc, url, k) ==
  [cc EXCEPT !.tasks = [j \in Tasks |->
     IF j = k THEN "wait"
     ELSE IF j[1] = url /\ j[2] # 0 THEN "check" ELSE @[j]]]

\* Fault: the second goroutine to get a message waits for the first, which may
\* be waiting for it.
FetchedMessageJoins(c, k) ==
  LET cc == conv[c]
      url == Target(k)
  IN
  /\ At(c, k, "fetch") /\ url \in Served /\ TypeName[url] \notin Enums
  /\ conv' = [conv EXCEPT ![c] =
       IF cc.locs[url] # NoFile THEN [cc EXCEPT !.tasks[k] = "wait"]
       ELSE Spawned(Recorded(cc, url), url, k)]
  /\ UNCHANGED Shared

\* recordTypeAndDependencies: the second goroutine to get a message has nothing to
\* do; the first starts one for each reference.
FetchedMessage(c, k) ==
  LET cc == conv[c]
      url == Target(k)
  IN
  /\ At(c, k, "fetch") /\ url \in Served /\ TypeName[url] \notin Enums
  /\ conv' = [conv EXCEPT ![c] =
       IF cc.locs[url] # NoFile THEN Ended(cc, k, "none")
       ELSE Spawned(Recorded(cc, url), url, k)]
  /\ UNCHANGED Shared

FetchedEnum(c, k) ==
  LET url == Target(k) IN
  /\ At(c, k, "fetch") /\ url \in Served /\ TypeName[url] \in Enums
  /\ conv' = [conv EXCEPT ![c] = Ended(Recorded(@, url), k, "none")]
  /\ UNCHANGED Shared

\* Fault: a type that is not fetched is not looked for in the fallback resolver.
NotFetchedNoFallback(c, k) ==
  /\ At(c, k, "fetch") /\ Target(k) \notin Served
  /\ conv' = [conv EXCEPT ![c] = Ended(@, k, "notFound")]
  /\ pc' = IF k[2] = 0 THEN [pc EXCEPT ![c] = "fallback"] ELSE pc
  /\ UNCHANGED <<typeCache, whole, typeURLs, want, result>>

\* findWithFallback: a type of the fallback resolver is located, its file is left
\* to the end.
LocatedIn(cc, url) == [cc EXCEPT !.locs[url] = Home[TypeName[url]]]

NotFetched(c, k) ==
  LET url == Target(k) IN
  /\ At(c, k, "fetch") /\ url \notin Served
  /\ IF TypeName[url] \in Fallback
     THEN /\ conv' = [conv EXCEPT ![c] = Ended(LocatedIn(@, url), k, "none")]
          /\ UNCHANGED pc
     ELSE /\ conv' = [conv EXCEPT ![c] = Ended(@, k, "notFound")]
          /\ pc' = IF k[2] = 0 THEN [pc EXCEPT ![c] = "fallback"] ELSE pc
  /\ UNCHANGED <<typeCache, whole, typeURLs, want, result>>

\* The fetcher fails otherwise than with not found, or the caller's context ends.
FetchFails(c, k) ==
  /\ At(c, k, "fetch")
  /\ IF k[2] = 0 THEN Return(c, "failed")
     ELSE /\ conv' = [conv EXCEPT ![c] = Ended(@, k, "failed")]
          /\ UNCHANGED <<pc, result>>
  /\ UNCHANGED <<typeCache, whole, typeURLs, want>>

GroupEnded(cc, url) ==
  \A i \in DOMAIN Fields[TypeName[url]] : cc.tasks[<<url, i>>] = "done"

\* grp.Wait has returned: the first error, or the imports of the message's file.
GroupDone(c, k) ==
  LET cc == conv[c]
      url == Target(k)
      f == Home[TypeName[url]]
      used == {cc.locs[Fields[TypeName[url]][i]] : i \in DOMAIN Fields[TypeName[url]]}
  IN
  /\ At(c, k, "wait") /\ GroupEnded(cc, url)
  /\ IF cc.errs[url] = "none"
     THEN /\ conv' = [conv EXCEPT ![c] =
               Ended([cc EXCEPT !.deps = @ \cup ({f} \X (used \ {f}))], k, "none")]
          /\ UNCHANGED <<pc, result>>
     ELSE IF k[2] # 0
     THEN /\ conv' = [conv EXCEPT ![c] = Ended(cc, k, cc.errs[url])]
          /\ UNCHANGED <<pc, result>>
     ELSE IF cc.errs[url] = "notFound"
     THEN /\ pc' = [pc EXCEPT ![c] = "fallback"]
          /\ UNCHANGED <<conv, result>>
     ELSE Return(c, "failed")
  /\ UNCHANGED <<typeCache, whole, typeURLs, want>>

-----------------------------------------------------------------------------
(* The conversion to descriptors. *)

Entries(cc) == {Home[n] : n \in cc.types}
DepsOf(cc, f) == {g \in Files \cup {NoFile} : <<f, g>> \in cc.deps}
External(cc) == (UNION {DepsOf(cc, f) : f \in Entries(cc)}) \ Entries(cc)

\* addToRegistry: each import has an entry or is a file of the fallback resolver,
\* which is registered when it is met, and may be registered once.
ImportsResolve(cc) ==
  \A g \in External(cc) :
    /\ \E n \in Fallback : Home[n] = g
    /\ \A e, f \in Entries(cc) : g \in DepsOf(cc, e) \cap DepsOf(cc, f) => e = f

\* What the new files and those of the fallback resolver define.
Defined(cc) == cc.types \cup {n \in Fallback : Home[n] \in External(cc)}

\* What the fields of a converted type, and of the messages nested in it, refer to.
RefsIn(n, W) == Refs(n) \cup (IF n \in W THEN NestedRefs[n] ELSE {})

\* NewFile: the types a file refers to are in it or in its imports.
TypesResolve(cc) ==
  \A n \in cc.types : \A m \in RefsIn(n, cc.whole) :
    m \in Defined(cc) /\ Home[m] \in {Home[n]} \cup DepsOf(cc, Home[n])

Converts(cc) == ImportsResolve(cc) /\ TypesResolve(cc)

\* Fault: only the type that was asked for is stored.
StoredOnlyWanted(c, W) == W \cap {want[c]}

\* Fault: the type that was asked for is returned but not stored.
StoredNotWanted(c, W) == W \ {want[c]}

Stored(c, W) == W

\* The URLs that may end up in typeURLs when all of W are stored, in any order.
OnePerType(W) ==
  {P \in SUBSET W : \A u \in W : \E v \in P : {w \in P : TypeName[w] = TypeName[u]} = {v}}

\* resolveURLFromConvertContext: what is located is stored, whoever stored it
\* before; it stops at a type none of the files has, with some stored already.
Commit(c) ==
  LET cc == conv[c]
      located == {u \in Urls : cc.locs[u] # NoFile}
      found == {u \in located : TypeName[u] \in Defined(cc)}
  IN
  /\ pc[c] = "convert" /\ cc.tasks[<<want[c], 0>>] = "done"
  /\ IF ~Converts(cc)
     THEN Return(c, "failed") /\ UNCHANGED <<typeCache, whole, typeURLs>>
     ELSE \E W \in IF found = located THEN {located} ELSE SUBSET found :
       /\ typeCache' = [u \in Urls |-> IF u \in Stored(c, W) THEN "fetched" ELSE typeCache[u]]
       /\ whole' = [u \in Urls |-> IF u \in Stored(c, W) THEN cc.whole \cup (Nesting \cap (Defined(cc) \ cc.types))
                               ELSE whole[u]]
       /\ \E P \in OnePerType(Stored(c, W)) : typeURLs' = WithURLs(P)
       /\ IF found = located THEN Return(c, "ok")
          ELSE pc' = [pc EXCEPT ![c] = "fallback"] /\ UNCHANGED <<conv, result>>
  /\ UNCHANGED want

-----------------------------------------------------------------------------

Task(c, k) ==
  \/ Check(c, k) \/ Describe(c, k)
  \/ FetchedMessage(c, k) \/ FetchedEnum(c, k) \/ NotFetched(c, k) \/ FetchFails(c, k)
  \/ GroupDone(c, k)

Work(c) == Look(c) \/ FallbackLookup(c) \/ Commit(c) \/ \E k \in Tasks : Task(c, k)

Next ==
  \/ \E c \in Callers : Work(c) \/ \E u \in Wanted[c] : Begin(c, u)
  \/ \E R \in Registrations : Register(R)

Spec == Init /\ [][Next]_vars

\* Goroutines go on; fetches end.
FairSpec == Spec /\ \A c \in Callers : WF_vars(Work(c))

-----------------------------------------------------------------------------
(* Properties. *)

\* The URLs that must be had to have one of them: of the fields of what can be fetched.
NeededUrls(u) ==
  LET complete == {C \in SUBSET Urls : u \in C /\ \A v \in C \cap Served : FieldUrls(TypeName[v]) \subseteq C}
  IN {v \in Urls : \A C \in complete : v \in C}

Obtainable == {u \in Urls : \A v \in NeededUrls(u) : v \in Served \/ TypeName[v] \in Fallback}

\* A message in the cache can be used: whatever its fields, and those of the messages
\* nested in its descriptor, refer to is known to the registry or in the fallback
\* resolver, though it may have been obtained by finds that ran at the same time.
CacheIsClosed ==
  \A u \in Urls : typeCache[u] = "fetched" =>
    \A m \in RefsIn(TypeName[u], whole[u]) : typeURLs[m] # NoUrl \/ m \in Fallback

\* When a find's goroutines have ended without an error, all its types refer to by
\* fields of their own is located, and their files import the files of that: no
\* reference is lost between the goroutines that share the context, though one leaves a
\* message another has located to that one, and though other finds and the program
\* change the registry that each of them looks at.
ConversionsAreComplete ==
  \A c \in Callers : pc[c] = "convert" /\ conv[c].tasks[<<want[c], 0>>] = "done" =>
    \A n \in conv[c].types : \A m \in Refs(n) :
      /\ \E u \in Urls : TypeName[u] = m /\ conv[c].locs[u] # NoFile
      /\ Home[m] \in {Home[n]} \cup DepsOf(conv[c], Home[n])

\* A find says not found only if something the type needs is nowhere to be had: nothing
\* is served at the URL that refers to it, and it is not in the fallback resolver.
NotFoundIsReal ==
  \A c \in Callers : result[c] = "notFound" => want[c] \notin Obtainable

\* A type that was found stays in the registry, for the next find to take from
\* there, unless it came from the fallback resolver.
FoundIsKept ==
  \A c \in Callers : result[c] = "ok" =>
    typeCache[want[c]] # "none" \/ TypeName[want[c]] \in Fallback

\* Every find returns, though the goroutines for types that refer to each other in
\* a cycle are waiting for those they started.
FindsReturn == \A c \in Callers : []<>(pc[c] = "idle")
=============================================================================
