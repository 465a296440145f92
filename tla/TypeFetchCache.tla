--------------------------- MODULE TypeFetchCache ---------------------------
(***************************************************************************)
(* CachingTypeFetcher over the fetcher of HttpTypeFetcher                  *)
(* (protoresolve/remotereg/type_fetchers.go).  The first caller that asks  *)
(* for a URL loads it; those that come meanwhile wait for its outcome; a   *)
(* load that fails is taken out of the cache.  A semaphore limits how many *)
(* loads talk to the server at once.                                       *)
(*                                                                         *)
(* Each critical section of mu is one action.  A cachingFetcherEntry is    *)
(* allocated on the heap and several goroutines may hold a pointer to it   *)
(* after it left the map; Entries are the addresses, and one is used again *)
(* when nothing points to it.                                              *)
(***************************************************************************)
EXTENDS Integers, FiniteSets

CONSTANTS
  Callers,     \* goroutines
  Urls,        \* keys of the cache
  Kinds,       \* message or enum: the method that was called
  Entries,     \* addresses of cachingFetcherEntry values
  NoEntry,     \* nil
  ParLimit     \* parLimit of HttpTypeFetcher

ASSUME FetchAssumption ==
  /\ IsFiniteSet(Callers)
  /\ ParLimit \in Nat \ {0}
  /\ NoEntry \notin Entries
  /\ {"none", "loading", "failed"} \cap Kinds = {}

VARIABLES
  pc,          \* where each goroutine is
  req,         \* the URL it asks for, and the kind it asks for
  ref,         \* its local pointer to an entry (cached or e), or NoEntry
  heap,        \* the entries
  entries,     \* the map: the entry of each URL, or NoEntry
  permits,     \* what is left of the semaphore
  answer,      \* how each goroutine's latest call ended
  before       \* history: what the cache held when the call began

vars == <<pc, req, ref, heap, entries, permits, answer, before>>

Requests == [url : Urls, kind : Kinds]

Loading == {"acquire", "fetch", "drop", "publish"}
PCs == {"idle", "read", "insert", "wait"} \cup Loading

\* result is the kind of msg, or "failed" if there is an err.  The goroutine that
\* loads knows it from its local variables; the others see it once done is set
\* (the WaitGroup is released after msg and err are written).
EntryValues == [result : Kinds \cup {"loading", "failed"}, done : BOOLEAN]

TypeOK ==
  /\ pc \in [Callers -> PCs]
  /\ req \in [Callers -> Requests]
  /\ ref \in [Callers -> Entries \cup {NoEntry}]
  /\ heap \in [Entries -> EntryValues]
  /\ entries \in [Urls -> Entries \cup {NoEntry}]
  /\ permits \in 0..ParLimit
  /\ answer \in [Callers -> {"none", "ok", "mismatch", "failed"}]
  /\ before \in [Callers -> [known : Kinds \cup {"none"}, broken : SUBSET Entries]]

Nothing == [known |-> "none", broken |-> {}]

Init ==
  /\ pc = [c \in Callers |-> "idle"]
  /\ req \in [Callers -> Requests]
  /\ ref = [c \in Callers |-> NoEntry]
  /\ heap = [e \in Entries |-> [result |-> "failed", done |-> TRUE]]
  /\ entries = [u \in Urls |-> NoEntry]
  /\ permits = ParLimit
  /\ answer = [c \in Callers |-> "none"]
  /\ before = [c \in Callers |-> Nothing]

-----------------------------------------------------------------------------

Entry(c) == heap[ref[c]]

\* The kind of type the cache has for a URL.
Known(u) ==
  IF entries[u] # NoEntry /\ heap[entries[u]].result \in Kinds
  THEN heap[entries[u]].result ELSE "none"

Broken == {e \in Entries : heap[e] = [result |-> "failed", done |-> TRUE]}

Referenced(e) == (\E c \in Callers : ref[c] = e) \/ (\E u \in Urls : entries[u] = e)

\* FetchMessageType and FetchEnumType.
Begin(c, r) ==
  /\ pc[c] = "idle"
  /\ pc' = [pc EXCEPT ![c] = "read"]
  /\ req' = [req EXCEPT ![c] = r]
  /\ answer' = [answer EXCEPT ![c] = "none"]
  /\ before' = [before EXCEPT ![c] = [known |-> Known(r.url), broken |-> Broken]]
  /\ UNCHANGED <<ref, heap, entries, permits>>

\* The URL has an entry: keep the pointer, leave the lock and wait.
Join(c) ==
  /\ entries[req[c].url] # NoEntry
  /\ ref' = [ref EXCEPT ![c] = entries[req[c].url]]
  /\ pc' = [pc EXCEPT ![c] = "wait"]
  /\ UNCHANGED <<req, heap, entries, permits, answer, before>>

\* Under the read lock.
Read(c) ==
  /\ pc[c] = "read"
  /\ \/ Join(c)
     \/ /\ entries[req[c].url] = NoEntry
        /\ pc' = [pc EXCEPT ![c] = "insert"]
        /\ UNCHANGED <<req, ref, heap, entries, permits, answer, before>>

\* The new entry is at an address that nothing points to.
Allocate(c) ==
  LET e == CHOOSE f \in Entries : ~Referenced(f) IN
  /\ \E f \in Entries : ~Referenced(f)
  /\ heap' = [heap EXCEPT ![e] = [result |-> "loading", done |-> FALSE]]
  /\ ref' = [ref EXCEPT ![c] = e]
  /\ entries' = [entries EXCEPT ![req[c].url] = e]
  /\ pc' = [pc EXCEPT ![c] = "acquire"]
  /\ before' = [d \in Callers |-> [before[d] EXCEPT !.broken = @ \ {e}]]
  /\ UNCHANGED <<req, permits, answer>>

\* Fault: the map is not read again under the write lock.
InsertUnchecked(c) ==
  pc[c] = "insert" /\ Allocate(c)

\* Under the write lock, which is not the read lock upgraded: the map is read
\* again.
Insert(c) ==
  /\ pc[c] = "insert"
  /\ \/ Join(c)
     \/ entries[req[c].url] = NoEntry /\ Allocate(c)

\* The loader of HttpTypeFetcher.
Acquire(c) ==
  /\ pc[c] = "acquire"
  /\ permits > 0
  /\ permits' = permits - 1
  /\ pc' = [pc EXCEPT ![c] = "fetch"]
  /\ UNCHANGED <<req, ref, heap, entries, answer, before>>

Settle(c, result, next) ==
  /\ heap' = [heap EXCEPT ![ref[c]].result = result]
  /\ pc' = [pc EXCEPT ![c] = next]
  /\ UNCHANGED <<req, ref, entries, answer, before>>

\* Fault: the release is deferred before the error of Acquire is looked at.
AcquireFailsReleasing(c) ==
  /\ pc[c] = "acquire"
  /\ permits' = IF permits < ParLimit THEN permits + 1 ELSE permits
  /\ Settle(c, "failed", "drop")

\* The caller's context ended before a permit was to be had.
AcquireFails(c) ==
  /\ pc[c] = "acquire"
  /\ Settle(c, "failed", "drop")
  /\ UNCHANGED permits

\* Fault: a release of its own besides the deferred one.
FetchSucceedsReleasingTwice(c) ==
  /\ pc[c] = "fetch"
  /\ permits' = permits + 2
  /\ Settle(c, req[c].kind, "publish")

\* The answer has a type of the kind that was asked for: a TypeFetcher has a
\* method for each, and HttpTypeFetcher unmarshals what it is asked for.
FetchSucceeds(c) ==
  /\ pc[c] = "fetch"
  /\ permits' = permits + 1
  /\ Settle(c, req[c].kind, "publish")

\* Fault: the entry stays in the cache.
FetchFailsCached(c) ==
  /\ pc[c] = "fetch"
  /\ permits' = permits + 1
  /\ Settle(c, "failed", "publish")

\* Fault: the permit is not released on an error.
FetchFailsHolding(c) ==
  /\ pc[c] = "fetch"
  /\ Settle(c, "failed", "drop")
  /\ UNCHANGED permits

\* Not found, an error of the transport or of the server, a response that is too
\* large or cannot be unmarshalled, the end of the caller's context.
FetchFails(c) ==
  /\ pc[c] = "fetch"
  /\ permits' = permits + 1
  /\ Settle(c, "failed", "drop")

\* The deferred function, under the write lock: a broken entry is not left in
\* the cache.
Drop(c) ==
  /\ pc[c] = "drop"
  /\ entries' = [entries EXCEPT ![req[c].url] = NoEntry]
  /\ pc' = [pc EXCEPT ![c] = "publish"]
  /\ UNCHANGED <<req, ref, heap, permits, answer, before>>

\* What fetchType makes of the result of getOrLoad.
Outcome(c) ==
  CASE Entry(c).result = "failed" -> "failed"
    [] Entry(c).result = req[c].kind -> "ok"
    [] OTHER -> "mismatch"

Return(c, a) ==
  /\ answer' = [answer EXCEPT ![c] = a]
  /\ ref' = [ref EXCEPT ![c] = NoEntry]
  /\ pc' = [pc EXCEPT ![c] = "idle"]
  /\ before' = [before EXCEPT ![c] = Nothing]

\* The deferred function after the lock: the waiting goroutines are released.
Publish(c) ==
  /\ pc[c] = "publish"
  /\ heap' = [heap EXCEPT ![ref[c]].done = TRUE]
  /\ Return(c, Outcome(c))
  /\ UNCHANGED <<req, entries, permits>>

\* Fault: a waiting goroutine takes whatever was fetched.
WaitAnyKind(c) ==
  /\ pc[c] = "wait"
  /\ Entry(c).done
  /\ Return(c, IF Entry(c).result = "failed" THEN "failed" ELSE "ok")
  /\ UNCHANGED <<req, heap, entries, permits>>

\* The Wait of the WaitGroup, which does not look at the caller's context.
Wait(c) ==
  /\ pc[c] = "wait"
  /\ Entry(c).done
  /\ Return(c, Outcome(c))
  /\ UNCHANGED <<req, heap, entries, permits>>

-----------------------------------------------------------------------------

\* What a goroutine inside a call does by itself.
Work(c) ==
  \/ Read(c) \/ Insert(c) \/ AcquireFails(c)
  \/ FetchSucceeds(c) \/ FetchFails(c)
  \/ Drop(c) \/ Publish(c) \/ Wait(c)

Next ==
  \E c \in Callers : Work(c) \/ Acquire(c) \/ \E r \in Requests : Begin(c, r)

Spec == Init /\ [][Next]_vars

\* Goroutines go on, requests to the server end, and the semaphore serves those
\* that wait for it in order.  No context is assumed to end.
Fairness ==
  \A c \in Callers :
    /\ WF_vars(Read(c) \/ Insert(c))
    /\ SF_vars(Acquire(c))
    /\ WF_vars(FetchSucceeds(c) \/ FetchFails(c))
    /\ WF_vars(Drop(c) \/ Publish(c) \/ Wait(c))

FairSpec == Spec /\ Fairness

-----------------------------------------------------------------------------
(* Properties. *)

\* The URLs an entry is in use for.
UrlsOf(e) ==
  {req[c].url : c \in {d \in Callers : ref[d] = e}} \cup {u \in Urls : entries[u] = e}

\* The underlying fetcher is invoked once for a URL, but for loads that fail: of
\* two entries in use for the same URL, one failed.
FetchedOnce ==
  \A e, f \in Entries :
    e # f /\ UrlsOf(e) \cap UrlsOf(f) # {} =>
      heap[e].result = "failed" \/ heap[f].result = "failed"

\* An error is not cached: a call never waits for, and so never answers with, a
\* load whose failure was published before the call began.
ErrorsAreFresh ==
  \A c \in Callers : ref[c] \notin before[c].broken

\* The semaphore's limit holds on every path of the loader.
WithinLimit ==
  Cardinality({c \in Callers : pc[c] = "fetch"}) <= ParLimit

\* The cache is a memo that never forgets and whose answers agree with it (the
\* refinement of TypeMemo).
Memo == INSTANCE TypeMemo WITH
  known <- [u \in Urls |-> Known(u)],
  request <- req,
  due <- [c \in Callers |-> before[c].known],
  outcome <- [c \in Callers |-> IF pc[c] = "idle" THEN answer[c] ELSE "pending"]

ImplementsMemo == Memo!MemoSpec

\* Every call returns: nobody waits for an entry that nobody publishes, nor for
\* a permit that nobody gives back.
CallsReturn == \A c \in Callers : pc[c] # "idle" ~> pc[c] = "idle"
=============================================================================
