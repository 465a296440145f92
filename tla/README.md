# A verification project for protoreflect

This directory models parts of protoreflect (v2) in TLA+, checks the models
with TLC on small instances, and proves theorems about them with TLAPS for
every instance. It covers the code that keeps state and that several
goroutines, a server or a long sequence of calls can drive into situations
tests seldom reach. Paths are relative to the repository.

## 1. The system

| Component | State it keeps | Operations | Hard behaviour |
|---|---|---|---|
| `grpcreflect/client.go`, connection | under `connMu`: `stream`, `cancel`, `useV1Alpha`, `lastTriedV1` | `send`, `doSend`, `doSendLocked`, `initStreamLocked`, `Reset` | one stream shared by all goroutines; stale streams, retries, two protocol versions and a clock; a drain that waits for the server under the lock |
| `grpcreflect/client.go`, cache | under `cacheMu`: `protosByName`, `descriptors` | `FileByFilename`, `FileContainingSymbol`, `FileContainingExtension`, the `AsResolver` view | recursive loading with unlocked calls between critical sections; missing imports; fallback resolvers; failing connections |
| `protoresolve/registry.go` | files and symbols by name, under `mu` | `RegisterFile`, `RegisterFileProto`, `FromFileDescriptorSet`, finders and ranges | conflict checks must precede every change; files must come after their imports |
| `protoresolve/combine.go`, `types.go`, `helpers.go`, `resolvers.go` | none | finders and ranges over several resolvers | overlapping resolvers, early stop, error precedence |
| `protoresolve/remotereg` registry | under `mu`: `typeCache`, `typeURLs`, `pkgBaseURLs` | `RegisterPackageBaseURL`, `RegisterMessageWithURL`, `RegisterTypesInFile`, `Find*ByURL` | locks taken twice; a result fetched unlocked and stored later |
| `protoresolve/remotereg/type_fetchers.go` | one entry for each URL being loaded or loaded | `FetchMessageType`, `FetchEnumType` | followers share the leader's outcome |
| `protoresolve/remotereg/converter.go` | a `convertContext` for each conversion: files, the place of each type | parallel fetch of a type graph, conversion to files | goroutines that add to one context, cycles, some types from the registry and some from a fallback |
| `sourceinfo` | under `mu`: data and info by file, upgraded files | `Register`, `ForFile`, resolvers over the global registry | memoised results; unpacking without the lock; imports upgraded first |
| `protobuilder`, hierarchy | a tree of builders with a symbol table for each parent and a tag table for each message | `TryAdd*`, `TryRemove*`, `TrySetName`, `TrySetNumber`, `Build` | a change touches several tables and must be undone when one refuses; moves inside one message |
| `protobuilder`, resolver | for each `Build`: resolved roots, a registry, the stack of roots | `resolveElement`, `resolveFile`, `resolveType` | temporary parents, cycles, clashing paths |
| `internal/sort` | none | `SortFiles` | sorting in place over an import graph |
| `internal/register`, `reparse`, `util`, `fielddefault` | none | conversions | none |
| `protoprint` | none | text of a descriptor | ordering of elements |
| `grpcdynamic/stub.go` | none but the gRPC stream | four call shapes | end-of-stream rules |
| `grpcreflect/adapt.go`, `server.go`, `sourceloc`, `protomessage`, generated code | none | conversions | none |

How they interact: `FileByFilename` and its siblings call `send` for each
request; `send` serialises them on one stream. The cache stores what it builds
in a `protoresolve.Registry`. Combined resolvers, remote registries and
builders call resolvers through interfaces and never call back into their
caller's lock.

What makes each correct:

- connection: each request gets its own response or an error, retries end,
  nobody waits for the lock for ever, a working server is found whatever the
  client remembers;
- cache: a file is registered once, after its imports; "not found" means not
  to be had; a failing connection harms the query it fails and nothing else;
- registries: no partial registration, no two descriptors for one name;
- remote registry: what is in the cache can be used, what was found stays, a
  conversion loses no reference, "not found" has a reason, no call waits for
  itself;
- source info: one upgraded copy of a file, all of whose references are
  upgraded, whoever asks and when;
- builders: the symbol and tag tables equal what the tree says, after every
  sequence of calls, refused ones included; `Build` gives complete files and
  leaves the builders as they were;
- sorting and combining: the result a reference definition gives.

## 2. Modules

| Module | What it is |
|---|---|
| `ReflectStream` | the connection half of the client, with the server, the network and the clock |
| `SerialChannel` | what the connection half promises: one request at a time, each answered by its own response or a failure |
| `ReflectStreamProofs` | the TLAPS proofs about `ReflectStream` |
| `ReflectCache` | the cache half of the client |
| `FileLookup` | what the cache half promises: a registry that grows file by file, and answers that agree with it |
| `ReflectCacheProofs` | the TLAPS proofs about `ReflectCache` |
| `TypeFetchCache` | `CachingTypeFetcher` over the loader of `HttpTypeFetcher` |
| `TypeMemo` | what a caching fetcher promises: what was fetched is known for good, and answers agree with it |
| `TypeFetchCacheProofs` | the TLAPS proofs about `TypeFetchCache` |
| `RemoteRegistry` | `remotereg.Registry` with the conversion contexts of its finds |
| `RemoteRegistryProofs` | the TLAPS proofs about `RemoteRegistry` |
| `SourceInfo` | the registry of source code info |
| `SourceInfoProofs` | the TLAPS proofs about `SourceInfo` |
| `BuilderTree` | the hierarchy of builders with its tables |
| `BuilderTreeProofs` | the TLAPS proofs about `BuilderTree` |
| `Induction` | least elements and induction on the natural numbers, for the proofs |
| `BuilderResolve` | `Build`: the resolver of what builders refer to |
| `BuilderResolveProofs` | the TLAPS proofs about `BuilderResolve` |
| `MC...` | the instances TLC checks |

`ReflectStream` implements `SerialChannel`, `ReflectCache` implements
`FileLookup` and `TypeFetchCache` implements `TypeMemo`, each by `INSTANCE ...
WITH`. `ReflectCache` uses the first refinement: a request and its answer are
one step there.

### ReflectStream

`connMu` holds the goroutine that is in `doSendLocked` or `resetLocked`; since
there is only one, `attemptCount` and `prevErr`, which are parameters of its
activation, are plain variables. `pc` says where each goroutine is: `lockSend`
and `lockReset` wait for the lock; `attempt` is the top of `doSendLocked`,
`init`, `openV1` and `openAlpha` are `initStreamLocked`, `send` and `recv` the
two stream calls, `closeSend` and `drain` (`resetClose`, `resetDrain` for
`Reset`) are `resetLocked`. `stream` is the field together with what travels on
it: requests and responses, each in order, the status it ended with, and
whether the client half-closed it. Each action is the code between two points
at which somebody else may act. `stubs` (`{"v1"}`, `{"v1alpha"}` or both)
stands for the three constructors, `supports` for the versions the server has,
and both are arbitrary in the initial state. A server may gain v1 later
(`ServerUpgrades`).

gRPC is modelled as the client uses it: opening a stream succeeds even on a
server without the method, which shows on the first `Recv`, as `Unimplemented`
or, on some servers, `Unavailable` (the comment at `client.go:598`). A stub may
also report it at once; the code has a branch for that (`client.go:650`). A
send on a finished stream says `io.EOF`. A broken stream loses what was in
flight. Codes other than `Unimplemented` and `Unavailable` are one value,
`"Other"`.

`clean` is a history variable: the callers whose latest call began on a usable
server (one that implements a version for which the client has a stub, v1alpha
if it has both) and during which no stream broke and no call failed. It serves
`CleanCallSucceeds` only.

`Tick` may happen anywhere but between `client.go:605` and `client.go:636`,
two readings of the clock separated by local computation only; a model in which
an hour could pass there would let the fallback to v1alpha be undone at once.

### ReflectCache

A lookup calls itself for each import, with no lock held. `stack[t]` is the
stack of goroutine `t`'s activations, the innermost first; a frame has the local
variables of `FileByFilename` (or `FileContainingSymbol`, or
`FileContainingExtension`), `getAndCacheFileDescriptors` and
`descriptorFromProto`. Each critical section of `cacheMu` is one action
(`Lookup`, `Store`, `Build`, `Reread`), each request is one action, and so is
each return. A file stands for its path and for its symbols and extensions: a
query of kind `symbol` names the file that declares what is asked.
`protosByName` and `loaded` are the two caches; `kept` remembers the imports a
registered descriptor has, since `fileWithoutDeps` may drop some.

`Imports`, `Needs` (the imports a file uses types of), `Answers` (the lists the
server may answer a query with) and `Fallback` are constants: the server's
files do not change. `CacheAssumption` says what is expected of it: it sends
only files it serves and, in the list it answers a query with, puts before the
requested file only files that can be built. A server that broke the second
rule could make a query fail that need not (`client.go:396`): the client
returns the first error it meets.

`Available` is the reference the answers are compared with, defined without
any notion of loading: the largest set of files each of which the server
supplies with all it requires in the set, or which only the fallback resolver
has. What is required are all imports, or, under
`WithAllowMissingFileDescriptors`, those whose types are used. Public imports,
by which a file can use types of a file it does not import itself, are left out.

### TypeFetchCache

`pc` follows a goroutine through `getOrLoad`: `read` is the look under the read
lock, `insert` the one under the write lock, `acquire` and `fetch` the loader of
`HttpTypeFetcher` (waiting for a permit, talking to the server), `drop` and
`publish` the deferred function, `wait` the wait for somebody else's load. Each
critical section of `mu` is one action: nothing blocks inside one. `heap` holds
the `cachingFetcherEntry` values and `ref` the local pointers, since an entry
that left the map may still be waited for; an address is used again once
nothing points to it, as the garbage collector would, so that the model needs
no bound on the number of calls. `permits` is the semaphore. `before` is a
history variable, what the cache held when the call began; it serves
`ErrorsAreFresh` and the refinement. A `TypeFetcher` has a method for each kind
of type, so what a loader returns is of the kind asked for; the entry keeps
that kind, and a goroutine that asks for the other kind gets an
`ErrUnexpectedType` (`mismatch`). Why a load fails (not found, a status, a
size, a cancelled context) is not told apart; a fetcher that panics is left out.

### RemoteRegistry

A find looks into the registry (`look`), then fetches and converts
(`convert`), then asks the fallback resolver (`fallback`). While it converts,
it owns a `convertContext`, to which one goroutine for each reference adds what
it gets: the task `<<u, i>>` is the goroutine for field `i` of the message
fetched from `u`, `<<u, 0>>` the find's own. A task looks into the registry
(`check`), takes the type from there (`describe`) or fetches it (`fetch`), and
the one that got a message first waits for the group it started (`wait`). Each
critical section of `Registry.mu` and of `convertContext.mu` is one action. In
a context, `locs` is `typeLocations`, `types` and `deps` what the file entries
hold, `errs` the first error of each errgroup. `Converts` says what
`toFileDescriptors` and `protodesc.NewFile` need: every import has an entry or
is a file of the fallback resolver registered once, and every type a message,
or a message nested in it, refers to is in its file or in what that imports.

The names are those of top-level types. A message that the registry has comes
with the messages nested in it, since `recordDescriptor` takes its whole
descriptor, while one that is fetched comes without, since a `typepb.Type` has
none. `NestedRefs` gives what the fields of the nested messages refer to;
`whole` (one for the cache, by URL, one in each context) is the set of types
that are there with their nested messages. `addDescriptors` follows the fields
of a message only, as `Visited` says, so that what a nested message refers to
may be missing when the files are converted, which `TypesResolve` refuses. A
nested message does not get a URL of its own here; the code gives one to those
that a field refers to.

A fetch is one step; that calls for one URL share one load is what
`TypeFetchCache` shows. `Home` gives the file of a type wherever it is
obtained: from the program, from a source context or from the fallback
resolver, a URL ends with the name of its type, files import each other without
cycles, and a file is in the fallback resolver as a whole or not at all.
`recordDescriptor` asks for the URL of each type it visits under the registry's
read lock, one by one; here it sees one state of `typeURLs`. Left out: types
without a source context (they get a file each), a type of the other kind than
was asked for, the cancellation of the tasks of a group after the first error
(they fail then, which the model lets them do anyway), and the base URLs of
packages (`DefaultURL` is a constant). `OnePerType` and the choice of `W` in
`Commit` are the order in which Go ranges over `typeLocations`.

`Reachable` and `Visited` say what the recursion of `addDescriptors` reaches,
as the least set that is closed under its calls. The properties have references
of their own: `NeededUrls`, all that must be had to have a URL, and
`Obtainable`, the URLs for which it is; a type is asked for by URL, so that it
may be served at one and missed at another. `ConversionsAreComplete` is about
the moment at which the goroutines of a find have ended: nothing its types refer
to may be lost between them. That the conversion which follows succeeds is not
claimed, for the code has three ways to fail then, all of them in the model and
in the list of section 3.

### SourceInfo

`ReadFile` and `LockFile` are the two critical sections of `getFile`;
`getFileLocked` recurses under the mutex, and is modelled by the set of its
calls that have not returned (`todo`): `Descend` is a call for an import,
`Build` the rest of a call once its imports are done. `holder` is the goroutine
inside. `ReadInfo` and `StoreInfo` are those of `ForFile`, which unpacks
between them without the lock. `content` is what the data registered for a file
is worth: locations, no locations, or bytes that cannot be unpacked. An info
object is named by the goroutine that unpacked it. `answers`, `given` and
`asked` are history variables. `InitOrder` is an assumption about the program:
generated code registers during package initialization, after the packages it
imports and before anybody can ask; without it `ReferencesUpgraded` fails,
since a file that was answered as it was, or built without upgraded imports,
may become one that can be upgraded.

### BuilderTree

Builders are not safe for concurrent use, so a call is one action, and `tree`
is a record of all links and tables: `parent`, `kids` (the slices of children;
a message's five in one), `symbols`, `tags` (`fieldTags`), `number`, and
`group` (`msgType`). `fieldType` says whether a field is of a group type, which
outlives its `msgType` and decides whether a message below it can be renamed
(`NameIsFixed`). The operators on trees are the helpers of the code, in its
order: `RegisteredField` is `registerField`, `ForgottenField` what
`removeChild` of a message deletes, `Unlinked` is `Unlink` with the
`removeChild` of each kind of parent, `SetName` is `setName` with
`renamedChild`. A file, an enum and a service do alike and are `Plain`.
`BuiltNumber` is the assignment of numbers in `buildProto`, which changes no
builder: `Places` are the fields and choices in the order of the code's loop,
and the i-th field without a number (its `Rank`) gets the i-th number that
nobody has, which is what counting up past the taken ones gives. A group's
field has the lower-case name of its message (`GroupName`); a message that a
group has must keep a name that starts with a capital letter (`Capital`).
`Listed` puts several elements into the tables at once, where the code adds one
after the other and has checked that none conflicts.

A call that meets an error ends with `Refuse(t)`, where `t` is what the error
path of the code leaves behind: `RefusedField` is `registerField` with what it
deletes again, `TakenBack` the loop of `TryAddOneOf`, as it is written,
`NameRefused` and `GroupNameRefused` the way back of `setName` and
`renamedChild`, `WithoutSymbol(RefusedField(...))` that of `TryAddChoice`.
`RefusalsChangeNothing` says that all this ends at the tree before the call.

`Pitfalls` names the calls known to go wrong, and `Avoids` says which of them
the program keeps clear of (`AvoidedAdd`, `AvoidedRename`; section 3 lists
them); `Careful` is that it avoids all. The properties are about careful
programs. Without `laterConflict` in `Avoids`, `builder_undo` finds the oneof
that is not undone.

### BuilderResolve

A root stands for its whole tree. `stack` has a frame for each root that is
being resolved, which is also the `seen` slice; `todo` are the references of
the frame not yet followed, in any order, since the code ranges over maps for
some of them. `files` is the resolver's registry, and its roots the
`resolvedRoots`. A standalone builder is hung below its temporary file by
`Adopted`, and let go when its frame ends, or by `ParentsAfterFailure`, which
is what the deferred functions do together when an error unwinds the stack.
Paths are pairs of a given path and the number `makeUnique` puts behind it.

A file can be refused after all it refers to is there, and `Refused` lists the
refusals in one place, for they all end the `Build` in the same way: two imports
of one path, an error of `buildProto` or of the validation on registration
(`Invalid`, the builders of which no valid file can be made), and the registry's
refusal of what declares a name, or extends a message at a number, that it has
already (`SameName`, a pair of builders or descriptors; a tree put into two files
is another case). Custom options, which also refer to extensions, are left out.

## 3. Runs

| Run | Instance | Shows |
|---|---|---|
| `stream_safety` | 2 goroutines, 2 requests, all stubs, all servers, `Hour` 0, `MaxClock` 3 | `TypeOK`, `OwnResponse`, `InFlightIsHolders`, `RetriesBounded`, `CleanCallSucceeds`, `ImplementsChannelSafely` |
| `stream_live` | 2 goroutines, 1 request, both stubs, all servers, `Hour` 0, `MaxClock` 1 | `CallsReturn`, `ImplementsChannel` |
| `stream_v1only` | as above, all stubs | violates `V1ClientStaysOnV1` |
| `cache_lenient` | 2 goroutines, 6 files, option on | `TypeOK`, `FailuresAreReal`, `AnswersAreRight`, `RegistryIsComplete`, `ImplementsLookupSafely` |
| `cache_strict` | 2 goroutines, 4 files, option off | `QueriesReturn`, `ImplementsLookup` |
| `cache_resolver` | as `cache_lenient` | violates `ResolverFallsBack` |
| `fetch` | 2 goroutines, 2 URLs, 2 kinds, 1 permit, 4 addresses | `TypeOK`, `FetchedOnce`, `ErrorsAreFresh`, `WithinLimit`, `ImplementsMemo`, `CallsReturn` |
| `remote_find` | 2 goroutines, 7 types in 6 files, 8 URLs | `TypeOK`, `CacheIsClosed`, `ConversionsAreComplete`, `NotFoundIsReal`, `FoundIsKept`, `FindsReturn` |
| `source_info` | 2 goroutines, 3 files, every content | `ReferencesUpgraded`, `OneAnswer`, `FailuresAreReal`, `OneInfo` |
| `builder_moves` | 9 builders, 5 names, 2 numbers, `Careful` | `TypeOK`, `SymbolsExact`, `TagsExact`, `ListsAgree`, `NumbersBuilt`, `RefusalsChangeNothing` |
| `builder_undo` | as `builder_moves`, later conflicts not avoided | violates `RefusalsChangeNothing` |
| `builder_resolve` | 2 files, 2 standalone messages, an invalid enum, 1 descriptor, every choice of 11 references, 1 path, 1 clash of names | `BuiltIsComplete`, `FailuresHaveReason`, `BuildersRestored` |

The bounds. Two goroutines are enough to have one in a call and one waiting,
and for two to build the same file at once; the theorems of section 4 hold for
any number. Two requests tell a response apart from another's. With `Hour` 0 an
"hour" passes as soon as the clock moves; `MaxClock` 3 lets the retry of v1
fall due three times. Calls are not bounded: a goroutine may issue requests and
resets for ever. The six files of `MCReflectCache` are the smallest set found
that has a needed and an unneeded import, an import that nobody has, one only
the fallback resolver has (and which the server answers with a list that does
not include it), a file that cannot be had, an import shared by two files, and
answers in each order. `fetch` has a second URL for two loads that compete for
the permit; the addresses are as many as pointers may exist (`EnoughEntries`),
so that allocation never waits. The liveness runs use smaller instances because
TLC cannot use symmetry there. The types of `MCRemoteRegistry` are chosen so
that two finds both contribute: one looks for a message and the other for a
message of another file, which refers to itself, and both need a third and the
enum it refers to, so that each fetches and stores, or takes from the other,
what the other needs as well. The third has a nested message that refers to a
type only the fallback resolver has; one type is nowhere to be had; the enum
may be registered under a URL of its own; and the program may register anything
at any time. Two finds that convert at once and both store, and conversions
that fail for the nested message, were checked to be among the states. The
files of `MCSourceInfo` are a diamond with one side missing: the smallest in
which a file is reached both directly and through another. In `MCBuilderTree`
names are shared between elements of different kinds, a group field and its
message have the names the code makes for them, and of the two numbers each can
be given to two fields (`NewNumbers`), so that either may be taken; it has no
bound on the number of calls. `MCBuilderResolve` takes every graph over its
references, with circles of two to four roots, paths that clash or are
generated, a file that is not valid and a message that has the name of a
descriptor. Deadlock is checked in every passing run: a goroutine can always
start a call, so a deadlock would mean that all are stuck.

`CleanCallSucceeds` deserves a word. A call may lose its first attempt to a
stream that went stale before it, and its second to a v1 stream the server
rejects, because the hourly retry of v1 was due just then. The third is on
v1alpha and is never lost unless something fails during the call. With one
attempt less the property fails (the mutant of that run).

The three violations are findings. `stream_v1only`: a client made by
`NewClientV1` has no v1alpha stub, and `initStreamLocked` calls it when the v1
stub reports `Unimplemented` on opening: a nil pointer panic in the place of an
error. `cache_resolver`: `FindDescriptorByName` on `AsResolver()` (and its three
siblings) reports not found for what only the fallback resolver has, though
`FileContainingSymbol` finds it, and `FindFileByPath` on the same resolver finds
the file. `builder_undo`: `TryAddOneOf` undoes its additions while `i > 1`
(`message.go:482`), so that the first choice stays in the tables after a
conflict at a later one ("must undo all additions we've made so far").

Other disagreements met on the way, without a run: `send`'s comment promises one
immediate retry (`client.go:558`) and up to two are made; a stream that cannot
be opened leaves its context uncancelled (`client.go:635`); a single
`Unavailable` moves a client to v1alpha for an hour even if the server has only
v1 (`client.go:596`); `AllExtensionNumbersForType` does not ask the fallback
resolver when the server says not found (`client.go:497`). In `remotereg`:

- `RegisterPackageBaseURL` calls `baseURL`, which takes the read lock, under its
  own write lock (`remote_registry.go:158`): for a package seen for the first
  time it never returns, and no other call of the registry does afterwards;
- a type the program registers while it is being fetched is replaced when the
  fetch ends (`remote_registry.go:504`), though `TypeFetcher` is documented for
  "URLs that have not been explicitly registered";
- a find fails when two of the files it puts together import the same file of
  the fallback resolver, which `addToRegistry` then registers twice
  (`converter.go:870`): two files that use `google.protobuf.Timestamp` do;
- a find fails when it takes a message from the registry, with the messages
  nested in it (`converter.go:568`), and one of those has a field of a type that
  nothing else has brought in or imported: `addDescriptors` follows the fields of
  the message alone (`converter.go:577-592`), so that the type, or the import, is missing;
- a type known under two URLs can make a find fail that has fetched everything:
  `recordDescriptor` notes the URL a field uses only if the type was not met
  before under the URL the registry has for it (`converter.go:768`), so that,
  if a known message led to the type first, the file of the field imports the
  empty path;
- `findMessageTypesByURL` writes `descProtos`, which only
  `resolveURLFromConvertContext` makes (`remote_registry.go:494`).

In `protobuilder`, the first three left out by `Careful`:

- renaming the message of a group, or a map field, leaves the old name of the
  message in the table of the message above (`field.go:318`);
- `TryAddChoice` on a oneof that is in no message does not unlink the field from
  where it was (`field.go:862`). The field is then in two places; once the oneof
  is in a message, `TryAddField` may take it out of there, be refused and leave
  it an orphan, which its comment says "should never happen"
  (`message.go:415`);
- `TryAddChoice` accepts a group, though the doc says it is an error
  (`field.go:845`), and the undoing in `TryAddOneOf` and `FieldBuilder.removeChild`
  forget the name of the group then;
- a message that is taken out of its group keeps the field as its parent:
  `FieldBuilder.removeChild` never calls `setParent(nil)` (`field.go:309-316`),
  which `builder.go:79-80` and `builder.go:225-226` demand of it, so that after
  `Unlink` neither refers to the other (`builder.go:376-377`). The model has the stale link;
  `ListsAgree` speaks of the lists and of the groups that fields have, and says
  nothing of it;
- a field of a message cannot be moved into a oneof of that message, as the
  comment at `field.go:863` intends, since `isPresentButNotChild` is false for
  it;
- a standalone message that refers to itself cannot be built: `getRoot` answers
  with its temporary file, which `resolveType` does not know as the root
  (`resolver.go:356`); `doc.go:64-69` promises that a message builder can be
  built at once. `FailuresHaveReason` does not count it as a reason: it is about
  builders without such a reference (`NoSelfReference`, a hypothesis of the
  theorem, and true of the instance);
- two files that declare one name, or extend one message at one number, cannot
  both be needed by a `Build`, as the registry refuses the second, though
  `doc.go:177-183` says such constructs "would be allowed".

In `protoresolve`, `SortFiles` truncates `files` and then ranges over it
(`internal/sort/sort.go:22`), so that it fails for every input that is not empty,
and with it `FromFileDescriptorSet` and `protodescs.SortFiles`; no test calls it.
Also in `protoresolve`, `RangeExtensionsByMessage` of a combined resolver stops at
the first resolver that has no extension for the message, and never records
what it has seen (`combine.go:167`).

Every property has a fault of the code in the model (the definitions preceded
by "Fault") under which TLC finds it violated.

### Fairness

`stream_live` assumes that a goroutine that can run does (`WF` of its steps),
that `sync.Mutex` is starvation free (`SF` of taking the lock: the lock is free
again and again, not for ever), and of the server that it answers requests,
rejects methods it lacks and returns from its handler once the client has
half-closed. Nothing is assumed of the network, the clock, upgrades or what
callers decide to do. Without the last assumption on the server, or without the
`CloseSend` that makes use of it, `resetLocked` may drain for ever under the
lock. `cache_strict` assumes only that a goroutine inside a query goes on with
it; locks are not held between steps there, and that `send` returns is what
`CallsReturn` shows. Its imports are acyclic, as those of files that can be
linked are: on a cycle the lookup would recurse for ever (`client.go:413`),
which nothing in the code prevents. `fetch` assumes for `CallsReturn` that
goroutines go on, that a request to the server ends (its context or the
transport sees to it), and that the semaphore, which serves those that wait in
order, is strongly fair. No context is assumed to end. `remote_find` assumes
that each find has some goroutine that goes on, and that fetches end. The other
modules are about one caller, or about a mutex held for a bounded computation,
and state no liveness.

## 4. Proofs

`ReflectStreamProofs` proves, for every set of callers and requests and every
`Hour` and `MaxClock`, under `StreamAssumption` (the lock's free value is not a
caller; the two numbers are naturals):

| Theorem | Statement |
|---|---|
| `TypeCorrect` | `Spec => []TypeOK` |
| `Invariance` | `Spec => []IInv` |
| `ResponsesCorrelated` | `Spec => []OwnResponse` |
| `NothingLeftOver` | `Spec => []InFlightIsHolders` |
| `RetriesEnd` | `Spec => []RetriesBounded` |
| `CleanCallsSucceed` | `Spec => []CleanCallSucceeds` |
| `Refinement` | `Spec => ImplementsChannelSafely` |

The argument. `OwnResponse` is not inductive: that the response found on the
stream is the holder's own needs what the stream holds at each point of
`doSendLocked` (`HolderInv`: nothing until the request is sent, then exactly the
request or its response, and after an error anything, but on a half-closed
stream before the drain may end), that nothing is left when the lock is free
(`StreamInv`), and that the lock excludes (`Mutex`). `RetriesBounded` needs
`RetryInv`: the error that `doSendLocked` is called with again is never nil, for
`io.EOF` of `Send` is followed by an error of `Recv` because the stream was
quiet. `IInv` is the conjunction. `CleanCallSucceeds` needs, beyond `IInv`, what
a call that met no failure can still lose (`CleanInv`): its second attempt only
to a doomed v1 stream, its third to nothing. The refinement maps `lockSend` to
queued and everything under the lock in `doSend` to serving; each action is
then `Submit`, `Serve`, `Finish` or invisible, and `RecvResponse` is a `Finish`
with the caller's own response by `HolderInv`.

`ReflectCacheProofs` proves, for every import graph, every conforming server,
every fallback resolver, either value of `AllowMissing` and any set of
goroutines, under `CacheAssumption` only:

| Theorem | Statement |
|---|---|
| `CacheTypeCorrect` | `Spec => []TypeOK` |
| `CacheInvariance` | `Spec => []IInv` |
| `QueriesFailForAReason` | `Spec => []FailuresAreReal` |
| `QueriesAreAnsweredRight` | `Spec => []AnswersAreRight` |
| `RegisteredFilesAreComplete` | `Spec => []RegistryIsComplete` |
| `CacheImplementsLookup` | `Spec => ImplementsLookupSafely` |

The argument. What a query returns is decided many activations before it
returns, so the invariant speaks of every frame of every stack. `FrameOK` says
what the local variables of an activation are worth at each of its points: the
files still to build lead to the wanted one through files that can be built,
and (`ImportsOK`) each import of the file in hand has been given up rightly, is
still to be looked up, or is there for `NewFile` to resolve. `Linked` says that
each frame but the last was called for the next import of the one below, so
that what it returns answers the question that was asked. `FrameOK` depends on
the registry, which other goroutines fill: it survives because the registry
only grows (`CallerMono`), which is the reason no lock is needed across a
lookup of an import. `AfterImportOK` and `ReturnOK` carry a right outcome
(`Right`) from one activation to the next, and `BuildReason` shows that a file
whose imports have been looked up fails to build only if it cannot be had. That
imports are acyclic is not needed for safety: an import cycle recurses for ever
and returns nothing. In the refinement, `Begin` is `Ask`, a `Build` that
registers is `Load`, the return of the outermost activation is `Reply`, and
everything else is invisible.

`TypeFetchCacheProofs` proves, for every finite set of goroutines and any sets
of URLs, kinds and addresses, under `FetchAssumption` (the limit is at least
one; `NoEntry` is no address; no kind is called like an outcome):

| Theorem | Statement |
|---|---|
| `TypeCorrect` | `Spec => []TypeOK` |
| `Invariant` | `Spec => []IInv` |
| `LoadsOnce` | `Spec => []FetchedOnce` |
| `NoStaleError` | `Spec => []ErrorsAreFresh` |
| `LimitHolds` | `Spec => []WithinLimit` |
| `CacheIsMemo` | `Spec => ImplementsMemo` |

The argument. An entry is the map's from its insertion until its load is known
to have failed, and is not the map's any more when the failure is published
(`InMap`). So two entries in use for one URL that did not fail would both be
the map's; a call that looks into the map never finds a published failure
(`MapIsSound`), hence none that was published before it began (`BrokenBefore`);
and what was known when a call began is what it finds (`KnownBefore`). That the
deferred function removes the loader's own entry, and not that of a later load,
is the second part of `InMap`; it rests on `OneLeader` and on the second look
of `Insert`. `Permits` counts the goroutines in the fetcher. In the refinement
`Begin` is `Ask`, `FetchSucceeds` is `Learn`, `Publish` and `Wait` are `Reply`,
the rest is invisible.

`RemoteRegistryProofs` proves, for every graph of types and any goroutines,
under `RemoteAssumption`:

| Theorem | Statement |
|---|---|
| `TypeCorrect` | `Spec => []TypeOK` |
| `FoundStays` | `Spec => []FoundIsKept` |
| `NotFoundIsJustified` | `Spec => []NotFoundIsReal` |
| `ReferencesAreKept` | `Spec => []ConversionsAreComplete` |
| `CacheStaysClosed` | `Spec => []CacheIsClosed`, if `FallbackClosed` |

The argument for the first two. What a find has located stays located, and its
own task leaves `fetch` only with its type located or for the fallback resolver
(`RootInv`); so when the files convert and all located types are among them,
the wanted one is stored, and nothing is ever taken out of the cache
(`WithURLsType`, `CommitStep`). `ContextStep` is the one lemma for all tasks:
they change nothing but their own context.

The argument for the others is about when a conversion is over, since the
properties say what it then has, and before that nearly everything may be
missing. `FindsInv` has three parts for each conversion.

- `TasksInv`: a task that works has one that waits for it (`Nested`), no set of
  waiting tasks is a circle (`Ordered`: each set has one that nobody in it waits
  for), and an error that nobody has reported yet is one somebody waits to see
  (`Errors`). Together (`RootDone`): when the find's own task is done, nobody
  waits, nobody works, and no error was lost. `Ordered` holds because a message
  is recorded before its tasks are started and is not recorded twice, which is
  what keeps a cycle of types from being a cycle of goroutines.
- `DataInv`: a type that has a place is in the file it should be in, or is of
  the fallback resolver and was referred to; and all that is recorded is
  needed by the type looked for, so that "not found" is about a URL it needs.
- `ImportsInv`: a type that was put into a file has all its fields refer to
  located and its file imports theirs, unless somebody still waits for it or
  left an error (`Full`).

When the task is done, the last part says that nothing is missing
(`DoneIsFull`), which is `ConversionsAreComplete`; no hypothesis on URLs is
needed for it. `Commit` then stores a set of types of which each has what its
fields refer to in the set, in the registry or in the fallback resolver, and,
since the files converted, what its nested messages refer to as well, so that
the cache stays closed.

`FallbackClosed` says that the fallback resolver has what its types, and the
messages nested in them, refer to, as one made of linked descriptors does: a
type of it that lacks something could be stored without what it lacks. The other
theorems have no hypothesis.

`SourceInfoProofs` proves, for any files and goroutines, under
`SourceInfoAssumption`:

| Theorem | Statement |
|---|---|
| `TypeCorrect` | `Spec => []TypeOK` |
| `InfoIsOne` | `Spec => []OneInfo` |
| `ReferencesAreUpgraded` | `InitOrder = TRUE => (Spec => []ReferencesUpgraded)` |
| `AnswersAgree` | `InitOrder = TRUE => (Spec => []OneAnswer)` |
| `SourceFailuresAreReal` | `InitOrder = TRUE => (Spec => []FailuresAreReal)` |

The argument. What `getFile` answers for a file is decided by what is
registered for the files it needs, which `InitOrder` fixes before the first
call for one of them (`Fixed`). `FileInv` says that nothing a file needs can be
upgraded any more once it was answered as it is (`Quiet`), that an upgraded
file needs no broken data (`Clean`), and that its imports are linked or quiet;
`LockInv` that a call under way is never for a file that has its copy, which
the second look of `LockFile` sees to; `InfoInv` that all who were given info
were given what is stored.

`BuilderTreeProofs` proves, for any builders, names and numbers, any pairs of
a parent and an element, under `BuilderAssumption` and `Careful`:

| Theorem | Statement |
|---|---|
| `TreeTypeCorrect` | `Spec => []TypeOK` |
| `SymbolTablesExact` | `Spec => []SymbolsExact` |
| `TagTablesExact` | `Spec => []TagsExact` |
| `ListsOfChildrenAgree` | `Spec => []ListsAgree` |
| `NumbersAreBuilt` | `Spec => []NumbersBuilt` |
| `RefusedCallsChangeNothing` | `Spec => RefusalsChangeNothing` |

`Careful` cannot be left out: on the calls it excludes, which section 3 lists,
the code breaks its tables.

The argument. None of the properties is inductive by itself: whether a name is
free is read from a table, and what to delete from a table is read from the
tree. `TreeInv` is `Good(tree)`: the lists of children and the parents agree
and no child is listed twice (`Ordered`), only what the code allows is below a
builder (`Kinds`), a group's field and message belong together and have names
that cannot be the same (`Grouped`), and each table lists exactly the members
under their names and numbers (`SymbolsMatch`, `TagsMatch`), where a choice and
the message of a group are members of the message above (`In`). Each operation
of the code is then shown to lead from a good tree to a good tree in the steps
in which the code does it: `Unlink` takes an element and what comes with it out
of every table (`Cleared`) and leaves it loose (`Loose`); an addition that is
not refused fits (`Fits`, `Vacant`), so that entering it (`Entered`) makes no
two members share a name. The trees between the steps are not good, and the
intermediate operators say in what. `RefusedCallsChangeNothing` needs the
invariant too: that an error path leads back to the tree before the call is
shown for each table that the call had entered (`RefusedFieldSame`,
`TakenBackAll`, `NameRefusedSame`, `GroupNameRefusedSame`), and deleting a name
restores a table only if nobody had that name in it before. That the numbers
given on `Build` differ is counted out: among 1..n, with n places, there is for
each rank a free number with that many free ones before it, and two such
numbers with different ranks differ.

`Induction` has what that last step needs: that a set of naturals that is not
empty has a least element, from the library's theorem on well-founded relations,
and induction in the form "a set that has 0 and with each number the next has
all". Both are about sets and not about predicates, so that the provers can use
them.

`BuilderResolveProofs` proves, for every graph of references, under
`ResolveAssumption`:

| Theorem | Statement |
|---|---|
| `ParentsAreReset` | `Spec => []BuildersRestored` |
| `PathsDiffer` | no two files of the resolver's registry have one path |
| `FailuresAreJustified` | `Spec => []FailuresHaveReason`, if `NoSelfReference` |
| `BuildsAreComplete` | `Spec => []BuiltIsComplete` |

The assumption names what the kinds of roots are: the builders, the temporary
files, each of one standalone builder, and the descriptors are finitely many
and apart, and a generated path is not one that somebody gave.

The argument for the first two. `StackInv`: a standalone builder has a parent
only while a frame of the stack is for it, and the stack is empty when nothing
runs. `PathInv`: what is in the registry has a path of its own, since `Finish`
checks the imports against each other and against the registry, and the new
file against both; and the imports of a frame are in the registry or are
descriptors.

The other two are about reachability, which the model defines as the least set
closed under references, so that no recursion is to be unfolded: something is
reached if it is in every closed set, and a set shown closed holds all that is.
`BuildInv` says where a `Build` stands: a reference of a frame is still to be
followed, was followed, or is what the frame above is for (`FrameRefs`); a
finished file imports exactly what it refers to (`FileRefs`); among the
finished ones each set has one that imports none of the set (`FilesOrdered`),
so that they have no circle, and the registry is closed, so that it has all the
target needs; and nothing else is there (`AllNeeded`). A failure for a circle
has one: each frame is for something that those below it reach (`Chained`), and
the root that is met again is among them. A temporary file is met only if its
builder refers to itself, which the hypothesis `NoSelfReference` of
`FailuresAreJustified` rules out, or is in a circle (`TempsHaveReason`).
Whatever else makes `Refused` true is a fact about two files, or one, that the
target needs (`AllNeeded`). A clash of paths is between two files neither of
which needs the other, because a file knows the paths of all it needs when it
chooses its own (`Named`), or between paths that were given.

Only model-checked: liveness (`CallsReturn` of two modules, `ImplementsChannel`,
`QueriesReturn`, `ImplementsLookup`, `FindsReturn`), which is out of the
prover's reach. Every invariant and every action property of a passing run is
also the statement of a theorem, as are the safety parts of the refinements.

## 5. Not modelled, and the plan

Left for later, the most important first.

1. An abstract specification of the remote registry, as `TypeMemo` is of the
   fetch cache, and its refinement; under which conditions on the fallback
   resolver, the nested messages and the URLs a complete conversion succeeds.
2. `Combine` and the extension index of `protoresolve.Registry` as functions
   against reference definitions.
3. Map fields and the `From` functions of `protobuilder`, and the custom options
   of its resolver; `findMessageTypesByURL` and `ToServiceDescriptor`.

Left out for good. More than half of the lines of the repository that are not
tests are generated (`internal/testprotos`, `*.pb.go`); most of the rest turns
one description of a type into another, field by field, without a state:
formatting (`protoprint`, the longest file), `adapt.go`, the second half of
`converter.go`, the `buildProto` and `From` functions of `protobuilder`,
`sourceloc`, `protomessage`, the source code generator. Their hazards are wrong
fields, which tests with round trips reach and a model would only repeat. The
wire format and gRPC itself, below the calls the client makes, are external.
What the modules cover is the code that keeps state, recurses through other
components or runs concurrently.
