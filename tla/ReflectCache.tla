---------------------------- MODULE ReflectCache ----------------------------
(***************************************************************************)
(* The cache half of grpcreflect.Client (src/grpcreflect/client.go): the   *)
(* fields guarded by cacheMu (protosByName, descriptors) and the functions *)
(* that fill and read them (FileByFilename, FileContainingSymbol and       *)
(* FileContainingExtension, getAndCacheFileDescriptors,                    *)
(* descriptorFromProto, fileWithoutDeps, depResolver, and                  *)
(* clientResolver.FindDescriptorByName).                                   *)
(*                                                                         *)
(* A lookup recurses into the imports of the file it builds, so each       *)
(* caller has a stack of frames, its top first, one for each activation of *)
(* a lookup.  cacheMu is never held across a call, so one critical section *)
(* is one action; callers interleave between them.  A request to the       *)
(* server and its answer are one step: that is the channel ReflectStream   *)
(* implements.                                                             *)
(*                                                                         *)
(* Files stand for their paths, and for the symbols they declare: a query  *)
(* for a symbol or an extension names the file that declares it.  What the *)
(* server has does not change.                                             *)
(***************************************************************************)
EXTENDS Naturals, Sequences, Functions

CONSTANTS
  Callers,       \* goroutines that use the client
  Files,         \* file paths
  Imports,       \* the dependency list of each file
  Needs,         \* the imports whose types the file uses (the rest only
                 \* provide options, or nothing)
  Answers,       \* the file lists the server may answer a query with; none: NotFound
  Fallback,      \* the files the fallback resolver has
  AllowMissing   \* the option WithAllowMissingFileDescriptors

\* Files the server supplies.  The others it reports as not found, or answers
\* with a list they are not in.
Served == {f \in Files : Answers[f] # {}
                           /\ \A a \in Answers[f] : f \in Range(a)}

\* The imports without which a file cannot be built.
Required == [f \in Files |-> IF AllowMissing THEN Needs[f] ELSE Range(Imports[f])]

\* S justifies the presence of each of its members.
Justified(S) ==
  \A f \in S : \/ f \in Served /\ Required[f] \subseteq S
               \/ f \notin Served /\ f \in Fallback

\* The files that can be had: from the server with all they require, or, if the
\* server does not supply them, from the fallback resolver.
Available == UNION {S \in SUBSET Files : Justified(S)}

\* A list the client can go through until it meets f: what comes before f can
\* be built.
Readable(f, a) ==
  \A i \in DOMAIN a : (\A j \in 1..i : a[j] # f) => a[i] \in Available

\* The server is a conforming one: it answers for f with f alone or preceded
\* only by files that can be built, and does not send what it does not serve.
ASSUME CacheAssumption ==
  /\ Imports \in [Files -> Seq(Files)]
  /\ Needs \in [Files -> SUBSET Files]
  /\ \A f \in Files : Needs[f] \subseteq Range(Imports[f])
  /\ Answers \in [Files -> SUBSET Seq(Files)]
  /\ \A f \in Files : \A a \in Answers[f] :
       /\ Range(a) \subseteq Served
       /\ Readable(f, a)
  /\ Fallback \subseteq Files
  /\ AllowMissing \in BOOLEAN

VARIABLES
  protosByName,  \* files whose raw proto is cached (Client.protosByName)
  loaded,        \* files registered in Client.descriptors
  kept,          \* for each of them, the imports its descriptor has
  query,         \* each caller's latest query
  stack,         \* each caller's activations, the innermost first
  result,        \* what each caller's latest query returned
  disturbed      \* history: callers whose latest query met a failure of the
                 \* connection or a response that cannot be read

cacheVars == <<protosByName, loaded, kept>>
vars == <<cacheVars, query, stack, result, disturbed>>

Kinds == {"file",      \* FileByFilename
          "symbol",    \* FileContainingSymbol, FileContainingExtension
          "resolve"}   \* FindDescriptorByName and its siblings on the resolver

Queries == [kind : Kinds, path : Files]

Errors == {"notFound",  \* an *elementNotFoundError
           "failed"}    \* any other error

Steps == {"lookup", "send", "store", "build", "await", "built", "miss", "fail",
          "reread"}

Frames == [kind : Kinds, path : Files, step : Steps,
           todo : Seq(Files),       \* of the response: not yet in protosByName
           fds : Seq(Files),        \* files still to build, the one in hand first
           deps : Seq(Files),       \* its imports not yet looked up
           missing : SUBSET Files,  \* its imports given up as missing
           err : Errors]            \* what a failed import returned

NewFrame(q) == [kind |-> q.kind, path |-> q.path, step |-> "lookup",
                todo |-> <<>>, fds |-> <<>>, deps |-> <<>>, missing |-> {},
                err |-> "failed"]

TypeOK ==
  /\ protosByName \in SUBSET Files
  /\ loaded \in SUBSET Files
  /\ kept \in [Files -> SUBSET Files]
  /\ query \in [Callers -> Queries]
  /\ stack \in [Callers -> Seq(Frames)]
  /\ result \in [Callers -> {"none", "pending", "ok"} \cup Errors]
  /\ disturbed \in SUBSET Callers

Init ==
  /\ protosByName = {}
  /\ loaded = {}
  /\ kept = [f \in Files |-> {}]
  /\ query \in [Callers -> Queries]
  /\ stack = [t \in Callers |-> <<>>]
  /\ result = [t \in Callers |-> "none"]
  /\ disturbed = {}

-----------------------------------------------------------------------------
(* The stack. *)

Top(t) == Head(stack[t])

At(t, step) == stack[t] # <<>> /\ Top(t).step = step

\* The innermost activation of t goes on as frame `fr`.
Continue(t, fr) ==
  /\ stack' = [stack EXCEPT ![t] = <<fr>> \o Tail(@)]
  /\ UNCHANGED <<query, result>>

Step(t, label) == Continue(t, [Top(t) EXCEPT !.step = label])

\* Faults: any error of an import lets the import be dropped; any error counts
\* as not found; the test of the error is inverted.
AfterImportLax(fr, dep, outcome) ==
  IF outcome = "ok"
  THEN [fr EXCEPT !.step = "build", !.deps = Tail(@)]
  ELSE IF AllowMissing
  THEN [fr EXCEPT !.step = "build", !.deps = Tail(@), !.missing = @ \cup {dep}]
  ELSE [fr EXCEPT !.step = "fail", !.err = outcome]

AfterImportBlurred(fr, dep, outcome) ==
  IF outcome = "ok"
  THEN [fr EXCEPT !.step = "build", !.deps = Tail(@)]
  ELSE [fr EXCEPT !.step = "fail", !.err = "notFound"]

AfterImportInverted(fr, dep, outcome) ==
  IF outcome # "ok"
  THEN [fr EXCEPT !.step = "build", !.deps = Tail(@)]
  ELSE [fr EXCEPT !.step = "fail", !.err = outcome]

\* descriptorFromProto, after FileByFilename(dep) has returned.
AfterImport(fr, dep, outcome) ==
  IF outcome = "ok"
  THEN [fr EXCEPT !.step = "build", !.deps = Tail(@)]
  ELSE IF outcome = "notFound" /\ AllowMissing
  THEN [fr EXCEPT !.step = "build", !.deps = Tail(@), !.missing = @ \cup {dep}]
  ELSE [fr EXCEPT !.step = "fail", !.err = outcome]

\* The innermost activation of t returns: to the caller's code, or to the
\* activation that is looking up its imports.
Return(t, outcome) ==
  LET outer == Tail(stack[t])
  IN  /\ IF outer = <<>>
         THEN /\ stack' = [stack EXCEPT ![t] = <<>>]
              /\ result' = [result EXCEPT ![t] = outcome]
         ELSE /\ stack' = [stack EXCEPT ![t] =
                   <<AfterImport(Head(outer), Top(t).path, outcome)>> \o Tail(outer)]
              /\ UNCHANGED result
      /\ UNCHANGED query

\* A lookup that found its file returns it; FindDescriptorByName looks again.
Found(t) == IF Top(t).kind = "resolve" THEN Step(t, "reread") ELSE Return(t, "ok")

-----------------------------------------------------------------------------
(* FileByFilename, FileContainingSymbol, getAndCacheFileDescriptors. *)

Begin(t, q) ==
  /\ stack[t] = <<>>
  /\ query' = [query EXCEPT ![t] = q]
  /\ stack' = [stack EXCEPT ![t] = <<NewFrame(q)>>]
  /\ result' = [result EXCEPT ![t] = "pending"]
  /\ disturbed' = disturbed \ {t}
  /\ UNCHANGED cacheVars

BuildOf(fr) == [fr EXCEPT !.step = "build", !.deps = Imports[Head(fr.fds)],
                          !.missing = {}]

\* The loop over the files of a response: the next one, if there is one.
NextFile(fr) == IF fr.fds = <<>> THEN [fr EXCEPT !.step = "miss"] ELSE BuildOf(fr)

\* Under cacheMu.RLock: a hit in the registry, or, for a file, a hit among the
\* raw protos, which is then built.
Lookup(t) ==
  /\ At(t, "lookup")
  /\ IF Top(t).path \in loaded
     THEN Found(t)
     ELSE IF Top(t).kind = "file" /\ Top(t).path \in protosByName
     THEN Continue(t, NextFile([Top(t) EXCEPT !.fds = <<Top(t).path>>]))
     ELSE Step(t, "send")
  /\ UNCHANGED <<cacheVars, disturbed>>

SendAnswered(t) ==
  /\ At(t, "send")
  /\ \E a \in Answers[Top(t).path] :
       Continue(t, [Top(t) EXCEPT !.step = "store", !.todo = a, !.fds = a])
  /\ UNCHANGED <<cacheVars, disturbed>>

\* The server says NotFound.
SendNotFound(t) ==
  /\ At(t, "send")
  /\ Answers[Top(t).path] = {}
  /\ Step(t, "miss")
  /\ UNCHANGED <<cacheVars, disturbed>>

\* send returns another error, or the response is of the wrong type.
SendFails(t) ==
  /\ At(t, "send")
  /\ Return(t, "failed")
  /\ disturbed' = disturbed \cup {t}
  /\ UNCHANGED cacheVars

\* One file of the response, under cacheMu.Lock.
Store(t) ==
  /\ At(t, "store")
  /\ Top(t).todo # <<>>
  /\ protosByName' = protosByName \cup {Head(Top(t).todo)}
  /\ Continue(t, [Top(t) EXCEPT !.todo = Tail(@)])
  /\ UNCHANGED <<loaded, kept, disturbed>>

\* A file of the response cannot be unmarshalled.
StoreFails(t) ==
  /\ At(t, "store")
  /\ Top(t).todo # <<>>
  /\ Return(t, "failed")
  /\ disturbed' = disturbed \cup {t}
  /\ UNCHANGED cacheVars

StoreEnds(t) ==
  /\ At(t, "store")
  /\ Top(t).todo = <<>>
  /\ Continue(t, NextFile(Top(t)))
  /\ UNCHANGED <<cacheVars, disturbed>>

\* Fault: the loop over the files of a response does not advance.
AcceptStuck(t) ==
  /\ At(t, "built")
  /\ IF Head(Top(t).fds) = Top(t).path
     THEN Found(t)
     ELSE Continue(t, NextFile(Top(t)))
  /\ UNCHANGED <<cacheVars, disturbed>>

\* accept(result) for the file that has been built.
Accept(t) ==
  /\ At(t, "built")
  /\ IF Head(Top(t).fds) = Top(t).path
     THEN Found(t)
     ELSE Continue(t, NextFile([Top(t) EXCEPT !.fds = Tail(@)]))
  /\ UNCHANGED <<cacheVars, disturbed>>

\* Fault: NotFound is retried.
MissRetried(t) ==
  /\ At(t, "miss")
  /\ IF Top(t).path \in Fallback THEN Found(t) ELSE Step(t, "send")
  /\ UNCHANGED <<cacheVars, disturbed>>

\* isNotFound(err): the fallback resolver, if it has the file.
Miss(t) ==
  /\ At(t, "miss")
  /\ IF Top(t).path \in Fallback THEN Found(t) ELSE Return(t, "notFound")
  /\ UNCHANGED <<cacheVars, disturbed>>

\* The error of an import is returned, wrapped if it is an elementNotFoundError.
Fail(t) ==
  /\ At(t, "fail")
  /\ Return(t, Top(t).err)
  /\ UNCHANGED <<cacheVars, disturbed>>

\* FindDescriptorByName reads the registry, and only the registry, once
\* FileContainingSymbol has returned.
Reread(t) ==
  /\ At(t, "reread")
  /\ Return(t, IF Top(t).path \in loaded THEN "ok" ELSE "notFound")
  /\ UNCHANGED <<cacheVars, disturbed>>

-----------------------------------------------------------------------------
(* descriptorFromProto. *)

\* FileByFilename(depName), for the next import.
LookUpImport(t) ==
  /\ At(t, "build")
  /\ Top(t).deps # <<>>
  /\ stack' = [stack EXCEPT ![t] =
       <<NewFrame([kind |-> "file", path |-> Head(Top(t).deps)]),
         [Top(t) EXCEPT !.step = "await"]>> \o Tail(@)]
  /\ UNCHANGED <<cacheVars, query, result, disturbed>>

\* The imports that fileWithoutDeps leaves.
KeptBy(fr) == Range(Imports[Head(fr.fds)]) \ fr.missing

\* Fault: NewFile is told to allow unresolvable types.
NewFileUnresolved(fr) == KeptBy(fr) \subseteq loaded \cup Fallback

\* protodesc.NewFile succeeds: depResolver finds the imports in the registry or
\* in the fallback resolver, and no type is missing.
NewFileSucceeds(fr) ==
  /\ KeptBy(fr) \subseteq loaded \cup Fallback
  /\ Needs[Head(fr.fds)] \cap fr.missing = {}

\* Fault: the registry is not looked at again under the lock, and RegisterFile
\* refuses the second of two equal files.
BuildUnchecked(t) ==
  LET fr == Top(t)
      file == Head(fr.fds)
  IN /\ At(t, "build")
     /\ fr.deps = <<>>
     /\ IF NewFileSucceeds(fr) /\ file \notin loaded
        THEN /\ loaded' = loaded \cup {file}
             /\ kept' = [kept EXCEPT ![file] = KeptBy(fr)]
             /\ Step(t, "built")
        ELSE /\ Return(t, IF fr.missing # {} THEN "notFound" ELSE "failed")
             /\ UNCHANGED <<loaded, kept>>
     /\ UNCHANGED <<protosByName, disturbed>>

\* Under cacheMu.Lock: somebody else has registered the file meanwhile, or it is
\* built and registered, or it cannot be built (and if an import is missing,
\* that is assumed to be the reason).
Build(t) ==
  LET fr == Top(t)
      file == Head(fr.fds)
  IN /\ At(t, "build")
     /\ fr.deps = <<>>
     /\ IF file \in loaded
        THEN Step(t, "built") /\ UNCHANGED <<loaded, kept>>
        ELSE IF NewFileSucceeds(fr)
        THEN /\ loaded' = loaded \cup {file}
             /\ kept' = [kept EXCEPT ![file] = KeptBy(fr)]
             /\ Step(t, "built")
        ELSE /\ Return(t, IF fr.missing # {} THEN "notFound" ELSE "failed")
             /\ UNCHANGED <<loaded, kept>>
     /\ UNCHANGED <<protosByName, disturbed>>

-----------------------------------------------------------------------------

\* A goroutine inside a query.
Work(t) ==
  \/ Lookup(t) \/ SendAnswered(t) \/ SendNotFound(t) \/ SendFails(t)
  \/ Store(t) \/ StoreFails(t) \/ StoreEnds(t)
  \/ LookUpImport(t) \/ Build(t) \/ Accept(t) \/ Miss(t) \/ Fail(t) \/ Reread(t)

Next == \E t \in Callers : Work(t) \/ \E q \in Queries : Begin(t, q)

Spec == Init /\ [][Next]_vars

\* A goroutine that is inside a query goes on with it.
Fairness == \A t \in Callers : WF_vars(Work(t))

FairSpec == Spec /\ Fairness

-----------------------------------------------------------------------------
(* Properties. *)

\* A query fails for no other reason than that the connection or a response did:
\* whatever other callers are loading meanwhile, no descriptor is built twice,
\* and none is built before its imports can be resolved.
FailuresAreReal ==
  \A t \in Callers : result[t] = "failed" => t \in disturbed

\* The two errors told apart are told apart rightly: a query for a file or a
\* symbol says "not found" only of what cannot be had, and succeeds only with
\* what can.
AnswersAreRight ==
  \A t \in Callers : query[t].kind # "resolve" =>
    /\ result[t] = "notFound" => query[t].path \notin Available
    /\ result[t] = "ok" => query[t].path \in Available

\* Every registered descriptor can be followed: each import it has is itself
\* registered or in the fallback resolver, and an import was left out of it only
\* if it cannot be had and the client allows that.  A failing connection never
\* makes an incomplete descriptor.
RegistryIsComplete ==
  \A f \in loaded :
    /\ kept[f] \subseteq loaded \cup Fallback
    /\ \A g \in Range(Imports[f]) \ kept[f] : AllowMissing /\ g \notin Available

\* Every query returns (imports are acyclic).
QueriesReturn == \A t \in Callers : stack[t] # <<>> ~> stack[t] = <<>>

\* The cache is a registry in which a file appears once, after what it requires,
\* and whose queries are answered at one moment each (the refinement of
\* FileLookup).
FileRegistry == INSTANCE FileLookup WITH answer <- result

ImplementsLookupSafely == FileRegistry!LookupSafety
ImplementsLookup == FileRegistry!LookupSpec

\* WithFallbackResolvers's doc: the client falls back to the given resolvers if
\* the server is unable to supply descriptors for a particular query.
ResolverFallsBack ==
  \A t \in Callers :
    query[t].kind = "resolve" /\ result[t] = "notFound" =>
      query[t].path \notin Available
=============================================================================
