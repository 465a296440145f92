------------------------ MODULE TypeFetchCacheProofs ------------------------
(***************************************************************************)
(* Proofs about TypeFetchCache, for any number of goroutines, URLs, kinds, *)
(* entries and permits.                                                    *)
(*                                                                         *)
(* The cache is right because of what is true of an entry between two      *)
(* critical sections: the one goroutine that loads it has it in the map    *)
(* until the load is known to have failed, and has it out of the map       *)
(* before it tells anybody; so an entry that did not fail is the map's     *)
(* entry for its URL, and one whose failure is published is not in the     *)
(* map.                                                                    *)
(***************************************************************************)
EXTENDS TypeFetchCache, FiniteSetTheorems, TLAPS

\* A goroutine has a pointer while it loads or waits, and the entry loaded is
\* settled exactly when its loader has left the fetcher.
Pointers ==
  /\ \A c \in Callers : ref[c] # NoEntry <=> pc[c] \in Loading \cup {"wait"}
  /\ \A e \in Entries : heap[e].done => heap[e].result # "loading"

Leaders ==
  \A c \in Callers : pc[c] \in Loading =>
    /\ ~heap[ref[c]].done
    /\ pc[c] \in {"acquire", "fetch"} => heap[ref[c]].result = "loading"
    /\ pc[c] = "drop" => heap[ref[c]].result = "failed"
    /\ pc[c] = "publish" => heap[ref[c]].result \in {"failed", req[c].kind}

\* Nobody else loads the same entry.
OneLeader ==
  \A c, d \in Callers :
    pc[c] \in Loading /\ pc[d] \in Loading /\ ref[c] = ref[d] => c = d

\* An entry is in the map until its load is known to have failed, and out of it
\* before that is published.
InMap ==
  \A c \in Callers :
    /\ ref[c] # NoEntry /\ heap[ref[c]].result # "failed" => entries[req[c].url] = ref[c]
    /\ pc[c] = "drop" => entries[req[c].url] = ref[c]
    /\ pc[c] = "publish" /\ heap[ref[c]].result = "failed" =>
         \A u \in Urls : entries[u] # ref[c]

\* The map is injective, agrees with the goroutines on what an entry is for, and
\* holds no broken entry.
MapIsSound ==
  /\ \A u, v \in Urls : entries[u] = entries[v] /\ entries[u] # NoEntry => u = v
  /\ \A u \in Urls, c \in Callers :
       ref[c] # NoEntry /\ entries[u] = ref[c] => req[c].url = u
  /\ \A u \in Urls : entries[u] \notin Broken

\* What was broken when a call began still is, unless its address was used again;
\* the call does not point to it.
BrokenBefore ==
  \A c \in Callers :
    /\ before[c].broken \subseteq Broken
    /\ ref[c] \notin before[c].broken
    /\ pc[c] = "idle" => before[c] = Nothing

\* What was known when a call began still is, and the call will find it.
KnownBefore ==
  \A c \in Callers : before[c].known # "none" =>
    /\ Known(req[c].url) = before[c].known
    /\ pc[c] \in {"read", "wait"}
    /\ pc[c] = "wait" => ref[c] = entries[req[c].url]

Fetching == {c \in Callers : pc[c] = "fetch"}

Permits == permits + Cardinality(Fetching) = ParLimit

IInv ==
  /\ TypeOK /\ Pointers /\ Leaders /\ OneLeader /\ InMap /\ MapIsSound
  /\ BrokenBefore /\ KnownBefore /\ Permits

-----------------------------------------------------------------------------
(* The parts that follow from one state. *)

\* Fetching is finite, as the goroutines are.
LEMMA FetchingIsFinite == IsFiniteSet(Fetching) /\ Cardinality(Fetching) \in Nat
  BY FetchAssumption, FS_Subset, FS_CardinalityType DEF Fetching

\* The invariant gives the properties: an entry that did not fail is the map's
\* entry for the URLs it is in use for.
LEMMA InvariantSuffices ==
  ASSUME IInv PROVE FetchedOnce /\ ErrorsAreFresh /\ WithinLimit
<1>1. FetchedOnce
  <2> SUFFICES ASSUME NEW e \in Entries, NEW f \in Entries, e # f,
                      UrlsOf(e) \cap UrlsOf(f) # {},
                      heap[e].result # "failed", heap[f].result # "failed"
               PROVE FALSE
    BY DEF FetchedOnce
  <2>1. PICK u : u \in UrlsOf(e) /\ u \in UrlsOf(f)
    OBVIOUS
  <2>2. e # NoEntry /\ f # NoEntry
    BY FetchAssumption
  <2>3. \A g \in {e, f} : entries[u] = g
    BY <2>1, <2>2 DEF IInv, InMap, UrlsOf
  <2> QED BY <2>3
<1>2. ErrorsAreFresh
  BY DEF IInv, BrokenBefore, ErrorsAreFresh
<1>3. WithinLimit
  BY FetchingIsFinite, FetchAssumption
  DEF IInv, TypeOK, Permits, WithinLimit, Fetching
<1> QED BY <1>1, <1>2, <1>3

LEMMA InitInvariant == Init => IInv
<1> SUFFICES ASSUME Init PROVE IInv
  OBVIOUS
<1>1. TypeOK
  BY FetchAssumption DEF Init, TypeOK, PCs, EntryValues, Nothing
<1>2. Pointers /\ Leaders /\ OneLeader /\ InMap
  BY DEF Init, Pointers, Leaders, OneLeader, InMap, Loading
<1>3. MapIsSound
  BY FetchAssumption DEF Init, MapIsSound, Broken
<1>4. BrokenBefore /\ KnownBefore
  BY DEF Init, BrokenBefore, KnownBefore, Nothing
<1>5. Permits
  <2>1. Fetching = {}
    BY DEF Init, Fetching
  <2> QED BY <2>1, FS_EmptySet, FetchAssumption DEF Init, Permits
<1> QED BY <1>1, <1>2, <1>3, <1>4, <1>5 DEF IInv

-----------------------------------------------------------------------------
(* One lemma for each group of actions: the parts that do not count permits.  *)

Parts ==
  /\ TypeOK /\ Pointers /\ Leaders /\ OneLeader /\ InMap /\ MapIsSound
  /\ BrokenBefore /\ KnownBefore

\* A step that leaves heap, entries and the pointers alone, and moves only one
\* goroutine, outside its load.
LEMMA BeginKeeps ==
  ASSUME Parts, NEW c \in Callers, NEW r \in Requests, Begin(c, r)
  PROVE Parts'
<1> USE DEF Parts, Begin
<1>1. TypeOK'
  BY DEF TypeOK, PCs, Requests, Known, Broken, EntryValues
<1>2. Pointers' /\ Leaders' /\ OneLeader' /\ InMap'
  BY DEF TypeOK, Pointers, Leaders, OneLeader, InMap, Loading, PCs
<1>3. MapIsSound'
  BY DEF TypeOK, Pointers, MapIsSound, Broken, Loading
<1>4. BrokenBefore'
  BY FetchAssumption DEF TypeOK, Pointers, BrokenBefore, Broken, Loading, Nothing
<1>5. KnownBefore'
  BY DEF TypeOK, KnownBefore, Known
<1> QED BY <1>1, <1>2, <1>3, <1>4, <1>5

LEMMA JoinKeeps ==
  ASSUME Parts, NEW c \in Callers, pc[c] \in {"read", "insert"}, Join(c)
  PROVE Parts'
<1> USE DEF Parts, Join
<1>1. TypeOK'
  BY DEF TypeOK, PCs, Requests
<1>2. Pointers' /\ Leaders' /\ OneLeader'
  BY FetchAssumption DEF TypeOK, Pointers, Leaders, OneLeader, Loading
<1>3. InMap'
  BY DEF TypeOK, InMap, Requests
<1>4. MapIsSound'
  BY DEF TypeOK, MapIsSound, Broken, Requests
<1>5. BrokenBefore'
  BY DEF TypeOK, BrokenBefore, MapIsSound, Broken, Requests
<1>6. KnownBefore'
  BY DEF TypeOK, KnownBefore, Known
<1> QED BY <1>1, <1>2, <1>3, <1>4, <1>5, <1>6

LEMMA AllocateKeeps ==
  ASSUME Parts, NEW c \in Callers, pc[c] = "insert",
         entries[req[c].url] = NoEntry, Allocate(c)
  PROVE Parts'
<1> DEFINE u == req[c].url
           e == CHOOSE f \in Entries : ~Referenced(f)
<1>1. e \in Entries /\ ~Referenced(e)
  BY DEF Allocate
<1>2. /\ \A d \in Callers : ref[d] # e
      /\ \A v \in Urls : entries[v] # e
  BY <1>1 DEF Referenced
<1>3. u \in Urls /\ ref[c] = NoEntry /\ e # NoEntry
  BY <1>1, FetchAssumption DEF Parts, TypeOK, Requests, Pointers, Loading
<1>4. /\ heap' = [heap EXCEPT ![e] = [result |-> "loading", done |-> FALSE]]
      /\ ref' = [ref EXCEPT ![c] = e]
      /\ entries' = [entries EXCEPT ![u] = e]
      /\ pc' = [pc EXCEPT ![c] = "acquire"]
      /\ before' = [d \in Callers |-> [before[d] EXCEPT !.broken = @ \ {e}]]
      /\ UNCHANGED <<req, permits, answer>>
  BY DEF Allocate
<1> HIDE DEF e, u
<1>5. Broken' = Broken \ {e}
  BY <1>1, <1>4 DEF Parts, TypeOK, Broken
<1>6. \A d \in Callers :
        /\ before'[d].known = before[d].known
        /\ before'[d].broken = before[d].broken \ {e}
        /\ before'[d] \in [known : Kinds \cup {"none"}, broken : SUBSET Entries]
  BY <1>4 DEF Parts, TypeOK
<1>7. TypeOK'
  BY <1>1, <1>3, <1>4, <1>6 DEF Parts, TypeOK, PCs, Loading, EntryValues
<1>8. Pointers' /\ Leaders' /\ OneLeader'
  BY <1>1, <1>2, <1>3, <1>4
  DEF Parts, TypeOK, Pointers, Leaders, OneLeader, Loading, EntryValues
<1>9. InMap'
  <2>1. \A d \in Callers \ {c} :
          ref[d] # NoEntry /\ heap[ref[d]].result # "failed" => req[d].url # u
    BY <1>3 DEF Parts, InMap, u
  <2>2. \A d \in Callers \ {c} : pc[d] = "drop" => req[d].url # u
    BY <1>3 DEF Parts, InMap, u, Pointers, Loading
  <2>3. \A d \in Callers : req[d].url \in Urls
    BY DEF Parts, TypeOK, Requests
  <2>4. \A d \in Callers \ {c} :
          /\ ref'[d] = ref[d] /\ pc'[d] = pc[d] /\ ref[d] # e
          /\ ref[d] # NoEntry => heap'[ref[d]] = heap[ref[d]]
    BY <1>2, <1>4 DEF Parts, TypeOK
  <2>5. /\ ref'[c] = e /\ pc'[c] = "acquire"
        /\ \A v \in Urls : entries'[v] = IF v = u THEN e ELSE entries[v]
    BY <1>4, <1>3 DEF Parts, TypeOK
  <2>6. ASSUME NEW d \in Callers \ {c}
        PROVE  /\ ref'[d] # NoEntry /\ heap'[ref'[d]].result # "failed"
                    => entries'[req[d].url] = ref'[d]
               /\ pc'[d] = "drop" => entries'[req[d].url] = ref'[d]
               /\ pc'[d] = "publish" /\ heap'[ref'[d]].result = "failed" =>
                    \A v \in Urls : entries'[v] # ref'[d]
    <3>1. pc[d] = "publish" => ref[d] # NoEntry
      BY DEF Parts, Pointers, Loading
    <3> QED BY <3>1, <2>1, <2>2, <2>3, <2>4, <2>5 DEF Parts, InMap
  <2> QED BY <2>5, <2>6, <1>4, <1>3 DEF InMap, u
<1>10. MapIsSound'
  BY <1>1, <1>2, <1>3, <1>4, <1>5 DEF Parts, TypeOK, MapIsSound, u
<1>11. BrokenBefore'
  <2>1. pc[c] # "idle" /\ \A d \in Callers : pc'[d] = "idle" <=> pc[d] = "idle"
    BY <1>4 DEF Parts, TypeOK
  <2>2. ASSUME NEW d \in Callers PROVE ref'[d] \notin before'[d].broken
    BY <1>4, <1>6 DEF Parts, TypeOK, BrokenBefore
  <2>3. ASSUME NEW d \in Callers, pc'[d] = "idle" PROVE before'[d] = Nothing
    <3>1. before[d] = [known |-> "none", broken |-> {}]
      BY <2>1, <2>3 DEF Parts, BrokenBefore, Nothing
    <3>2. {} \ {e} = {}
      OBVIOUS
    <3>3. before'[d].known = "none" /\ before'[d].broken = {}
      BY <3>1, <3>2, <1>6
    <3> QED BY <3>3, <1>6 DEF Nothing
  <2>4. ASSUME NEW d \in Callers PROVE before'[d].broken \subseteq Broken'
    BY <1>5, <1>6 DEF Parts, BrokenBefore
  <2> QED BY <2>2, <2>3, <2>4 DEF BrokenBefore
<1>12. KnownBefore'
  <2>1. before[c].known = "none"
    BY DEF Parts, KnownBefore
  <2>2. ASSUME NEW d \in Callers, before[d].known # "none"
        PROVE  /\ Known(req[d].url)' = before[d].known
               /\ d # c /\ ref'[d] = ref[d] /\ pc'[d] = pc[d]
               /\ entries'[req[d].url] = entries[req[d].url]
    <3>1. d # c /\ Known(req[d].url) = before[d].known /\ req[d].url \in Urls
      BY <2>1, <2>2 DEF Parts, KnownBefore, TypeOK, Requests
    <3>2. entries[req[d].url] # NoEntry
      BY <3>1, <2>2 DEF Known
    <3>3. req[d].url # u /\ entries[req[d].url] \in Entries \ {e}
      BY <3>1, <3>2, <1>2, <1>3 DEF u, Parts, TypeOK
    <3> QED BY <3>1, <3>3, <1>4, <1>3 DEF Known, Parts, TypeOK
  <2>3. \A d \in Callers : before'[d].known = before[d].known
    BY <1>6
  <2>4. req' = req
    BY <1>4
  <2> QED BY <2>2, <2>3, <2>4 DEF Parts, KnownBefore
<1> QED BY <1>7, <1>8, <1>9, <1>10, <1>11, <1>12 DEF Parts

\* The end of a load: the entry is the map's, and it was not settled.
LEMMA SettleKeeps ==
  ASSUME Parts, NEW c \in Callers, pc[c] \in {"acquire", "fetch"},
         NEW r, NEW n, Settle(c, r, n), permits' \in 0..ParLimit,
         \/ r = "failed" /\ n = "drop"
         \/ r = req[c].kind /\ n = "publish"
  PROVE Parts'
<1> DEFINE e == ref[c]
<1>1. /\ e \in Entries /\ e # NoEntry /\ req[c].url \in Urls
      /\ req[c].kind \in Kinds /\ req[c].kind # "failed" /\ req[c].kind # "loading"
  BY FetchAssumption DEF Parts, TypeOK, Requests, Pointers, Loading
<1>2. heap[e] = [result |-> "loading", done |-> FALSE]
  BY <1>1 DEF Parts, TypeOK, Leaders, Loading, EntryValues
<1>3. /\ heap' = [heap EXCEPT ![e].result = r]
      /\ pc' = [pc EXCEPT ![c] = n]
      /\ UNCHANGED <<req, ref, entries, answer, before>>
      /\ heap'[e].result = r /\ ~heap'[e].done
      /\ \A f \in Entries \ {e} : heap'[f] = heap[f]
  BY <1>1, <1>2 DEF Settle, Parts, TypeOK, EntryValues
<1>4. entries[req[c].url] = e
  BY <1>1, <1>2 DEF Parts, InMap
<1> HIDE DEF e
<1>5. Broken' = Broken
  BY <1>1, <1>2, <1>3 DEF Parts, TypeOK, Broken
<1>6. TypeOK'
  BY <1>1, <1>3 DEF Parts, TypeOK, PCs, Loading, EntryValues
<1>7. Pointers' /\ OneLeader'
  BY <1>1, <1>2, <1>3 DEF Parts, TypeOK, Pointers, OneLeader, Loading, EntryValues
<1>8. Leaders'
  BY <1>1, <1>2, <1>3 DEF Parts, TypeOK, Leaders, OneLeader, Pointers, Loading, e
<1>9. InMap'
  <2>1. ASSUME NEW d \in Callers, d # c
        PROVE /\ pc'[d] = pc[d]
              /\ pc[d] \in Loading => ref[d] # e
              /\ ref[d] # NoEntry /\ ref[d] # e => heap'[ref[d]] = heap[ref[d]]
              /\ ref[d] = e => entries[req[d].url] = e
    BY <2>1, <1>1, <1>2, <1>3 DEF Parts, TypeOK, OneLeader, InMap, Loading, e
  <2>2. ASSUME NEW d \in Callers, pc[d] = "publish" PROVE ref[d] # NoEntry
    BY <2>2 DEF Parts, Pointers, Loading
  <2>3. pc'[c] = n /\ heap'[e].result = r
    BY <1>1, <1>3 DEF Parts, TypeOK
  <2> QED BY <1>1, <1>3, <1>4, <2>1, <2>2, <2>3 DEF Parts, InMap, Loading, e
<1>10. MapIsSound'
  BY <1>3, <1>5 DEF Parts, MapIsSound
<1>11. BrokenBefore'
  BY <1>3, <1>5 DEF Parts, TypeOK, BrokenBefore
<1>12. KnownBefore'
  BY <1>1, <1>2, <1>3, FetchAssumption DEF Parts, TypeOK, KnownBefore, Known, Requests
<1> QED BY <1>6, <1>7, <1>8, <1>9, <1>10, <1>11, <1>12 DEF Parts

LEMMA DropKeeps ==
  ASSUME Parts, NEW c \in Callers, Drop(c)
  PROVE Parts'
<1> DEFINE e == ref[c]
           u == req[c].url
<1>1. /\ e \in Entries /\ e # NoEntry /\ u \in Urls
      /\ heap[e].result = "failed" /\ ~heap[e].done
      /\ entries[u] = e /\ pc[c] = "drop"
  <2>1. pc[c] = "drop" /\ ref[c] # NoEntry
    BY DEF Drop, Parts, Pointers, Loading
  <2> QED BY <2>1 DEF Parts, TypeOK, Requests, Leaders, InMap, Loading
<1>2. /\ entries' = [entries EXCEPT ![u] = NoEntry]
      /\ pc' = [pc EXCEPT ![c] = "publish"]
      /\ UNCHANGED <<req, ref, heap, permits, answer, before>>
  BY DEF Drop
<1>3. \A v \in Urls : entries'[v] = (IF v = u THEN NoEntry ELSE entries[v]) /\ entries'[v] # e
  BY <1>1, <1>2 DEF Parts, TypeOK, MapIsSound
<1> HIDE DEF e, u
<1>4. TypeOK'
  BY <1>1, <1>2 DEF Parts, TypeOK, PCs, Loading
<1>5. Pointers' /\ Leaders' /\ OneLeader'
  BY <1>1, <1>2 DEF Parts, TypeOK, Pointers, Leaders, OneLeader, Loading, e
<1>6. InMap'
  <2>1. ASSUME NEW d \in Callers, d # c, ref[d] # NoEntry, entries[req[d].url] = ref[d],
               heap[ref[d]].result # "failed" \/ pc[d] = "drop"
        PROVE entries'[req[d].url] = ref[d]
    <3>1. ref[d] # e
      BY <2>1, <1>1 DEF Parts, OneLeader, Loading, e
    <3>2. req[d].url \in Urls
      BY DEF Parts, TypeOK, Requests
    <3> QED BY <2>1, <3>1, <3>2, <1>1, <1>3
  <2>2. ASSUME NEW d \in Callers, pc[d] \in {"drop", "publish"} PROVE ref[d] # NoEntry
    BY <2>2 DEF Parts, Pointers, Loading
  <2>3. \A d \in Callers : pc'[d] = IF d = c THEN "publish" ELSE pc[d]
    BY <1>2 DEF Parts, TypeOK
  <2> QED BY <1>1, <1>2, <1>3, <2>1, <2>2, <2>3 DEF Parts, InMap, e
<1>7. MapIsSound'
  BY <1>1, <1>2, <1>3, FetchAssumption DEF Parts, MapIsSound, Broken
<1>8. BrokenBefore'
  BY <1>1, <1>2 DEF Parts, TypeOK, BrokenBefore, Broken
<1>9. KnownBefore'
  <2>1. \A d \in Callers : before[d].known # "none" => req[d].url # u /\ req[d].url \in Urls
    BY <1>1, FetchAssumption DEF Parts, KnownBefore, Known, TypeOK, Requests
  <2> QED BY <1>1, <1>2, <1>3, <2>1 DEF Parts, TypeOK, KnownBefore, Known
<1> QED BY <1>4, <1>5, <1>6, <1>7, <1>8, <1>9 DEF Parts

LEMMA WaitKeeps ==
  ASSUME Parts, NEW c \in Callers, Wait(c)
  PROVE Parts'
<1>1. PICK a \in {"ok", "mismatch", "failed"} : Return(c, a)
  BY DEF Wait, Outcome
<1>2. /\ pc' = [pc EXCEPT ![c] = "idle"] /\ ref' = [ref EXCEPT ![c] = NoEntry]
      /\ before' = [before EXCEPT ![c] = Nothing] /\ answer' = [answer EXCEPT ![c] = a]
      /\ UNCHANGED <<req, heap, entries, permits>> /\ pc[c] = "wait"
  BY <1>1 DEF Wait, Return
<1>3. TypeOK'
  BY <1>2 DEF Parts, TypeOK, PCs, Nothing
<1>4. Pointers' /\ Leaders' /\ OneLeader' /\ InMap'
  BY <1>2 DEF Parts, TypeOK, Pointers, Leaders, OneLeader, InMap, Loading
<1>5. MapIsSound'
  BY <1>2 DEF Parts, TypeOK, MapIsSound, Broken
<1>6. BrokenBefore' /\ KnownBefore'
  BY <1>2, FetchAssumption DEF Parts, TypeOK, BrokenBefore, KnownBefore, Known, Broken, Nothing
<1> QED BY <1>3, <1>4, <1>5, <1>6 DEF Parts

LEMMA PublishKeeps ==
  ASSUME Parts, NEW c \in Callers, Publish(c)
  PROVE Parts'
<1> DEFINE e == ref[c]
<1>1. /\ e \in Entries /\ e # NoEntry /\ pc[c] = "publish" /\ ~heap[e].done
      /\ heap[e].result \in {"failed", req[c].kind} /\ req[c].kind \in Kinds
  BY FetchAssumption DEF Parts, TypeOK, Requests, Pointers, Leaders, Loading, Publish
<1>2. PICK a \in {"ok", "failed"} : Return(c, a)
  BY <1>1 DEF Publish, Outcome, Entry
<1>3. /\ pc' = [pc EXCEPT ![c] = "idle"] /\ ref' = [ref EXCEPT ![c] = NoEntry]
      /\ before' = [before EXCEPT ![c] = Nothing] /\ answer' = [answer EXCEPT ![c] = a]
      /\ heap' = [heap EXCEPT ![e].done = TRUE]
      /\ UNCHANGED <<req, entries, permits>>
  BY <1>2 DEF Publish, Return
<1> HIDE DEF e
<1>4. /\ heap'[e] = [result |-> heap[e].result, done |-> TRUE]
      /\ \A f \in Entries \ {e} : heap'[f] = heap[f]
      /\ \A f \in Entries : heap'[f].result = heap[f].result
  BY <1>1, <1>3 DEF Parts, TypeOK, EntryValues
<1>5. Broken' \ {e} = Broken \ {e} /\ Broken \subseteq Broken'
  BY <1>1, <1>4 DEF Broken
<1>6. TypeOK'
  BY <1>1, <1>3 DEF Parts, TypeOK, PCs, Nothing, EntryValues
<1>7. Pointers' /\ Leaders' /\ OneLeader'
  BY <1>1, <1>3, <1>4, FetchAssumption
  DEF Parts, TypeOK, Pointers, Leaders, OneLeader, Loading, e
<1>8. InMap'
  BY <1>1, <1>3, <1>4 DEF Parts, TypeOK, InMap, Pointers, Loading
<1>9. MapIsSound'
  <2>1. ASSUME heap[e].result = "failed", NEW u \in Urls PROVE entries[u] # e
    BY <2>1, <1>1 DEF Parts, InMap, e
  <2>2. heap[e].result # "failed" => Broken' = Broken
    BY <1>4, <1>1 DEF Broken
  <2>3. \A u \in Urls : entries[u] \notin Broken'
    BY <2>1, <2>2, <1>5 DEF Parts, MapIsSound
  <2> QED BY <2>3, <1>3 DEF Parts, TypeOK, MapIsSound
<1>10. BrokenBefore'
  BY <1>3, <1>5, FetchAssumption DEF Parts, TypeOK, BrokenBefore, Nothing
<1>11. KnownBefore'
  BY <1>1, <1>3, <1>4 DEF Parts, TypeOK, KnownBefore, Known, Requests, Nothing
<1> QED BY <1>6, <1>7, <1>8, <1>9, <1>10, <1>11 DEF Parts

-----------------------------------------------------------------------------
(* The permits. *)

\* A goroutine is in the fetcher between taking a permit and giving it back.
LEMMA PermitsKept ==
  ASSUME IInv, [Next]_vars
  PROVE  Permits' /\ permits' \in 0..ParLimit
<1>1. /\ permits \in 0..ParLimit /\ ParLimit \in Nat
      /\ permits + Cardinality(Fetching) = ParLimit /\ pc \in [Callers -> PCs]
  BY FetchAssumption DEF IInv, TypeOK, Permits
<1>2. IsFiniteSet(Fetching) /\ Cardinality(Fetching) \in Nat
  BY FetchingIsFinite
<1>3. ASSUME permits' = permits, Fetching' = Fetching
      PROVE  Permits' /\ permits' \in 0..ParLimit
  BY <1>1, <1>3 DEF Permits
<1>4. ASSUME NEW c \in Callers, pc[c] = "fetch", permits' = permits + 1,
             NEW n, n # "fetch", pc' = [pc EXCEPT ![c] = n]
      PROVE  Permits' /\ permits' \in 0..ParLimit
  <2>1. c \in Fetching /\ Fetching' = Fetching \ {c}
    BY <1>1, <1>4 DEF Fetching
  <2>2. Cardinality(Fetching') = Cardinality(Fetching) - 1
    BY <2>1, <1>2, FS_RemoveElement
  <2>3. Cardinality(Fetching') \in Nat
    BY <2>1, <1>2, FS_RemoveElement, FS_CardinalityType
  <2> QED BY <2>2, <2>3, <1>1, <1>2, <1>4 DEF Permits
<1>5. CASE UNCHANGED vars
  BY <1>3, <1>5 DEF vars, Fetching
<1>6. ASSUME NEW c \in Callers, Acquire(c)
      PROVE  Permits' /\ permits' \in 0..ParLimit
  <2>1. c \notin Fetching /\ Fetching' = Fetching \cup {c}
    BY <1>1, <1>6 DEF Acquire, Fetching
  <2>2. Cardinality(Fetching') = Cardinality(Fetching) + 1
    BY <2>1, <1>2, FS_AddElement
  <2> QED BY <2>2, <1>1, <1>2, <1>6 DEF Acquire, Permits
<1>7. ASSUME NEW c \in Callers, FetchSucceeds(c) \/ FetchFails(c)
      PROVE  Permits' /\ permits' \in 0..ParLimit
  BY <1>4, <1>7 DEF FetchSucceeds, FetchFails, Settle
<1>8. ASSUME NEW c \in Callers, NEW n, n # "fetch", pc[c] # "fetch",
             permits' = permits, pc' = [pc EXCEPT ![c] = n]
      PROVE  Permits' /\ permits' \in 0..ParLimit
  <2>1. Fetching' = Fetching
    BY <1>1, <1>8 DEF Fetching
  <2> QED BY <2>1, <1>3, <1>8
<1>9. ASSUME NEW c \in Callers, NEW r \in Requests, Begin(c, r)
      PROVE  Permits' /\ permits' \in 0..ParLimit
  BY <1>8, <1>9 DEF Begin
<1>10. ASSUME NEW c \in Callers, Read(c) \/ Insert(c)
       PROVE  Permits' /\ permits' \in 0..ParLimit
  BY <1>8, <1>10 DEF Read, Insert, Join, Allocate
<1>11. ASSUME NEW c \in Callers, AcquireFails(c) \/ Drop(c)
       PROVE  Permits' /\ permits' \in 0..ParLimit
  BY <1>8, <1>11 DEF AcquireFails, Settle, Drop
<1>12. ASSUME NEW c \in Callers, Publish(c) \/ Wait(c)
       PROVE  Permits' /\ permits' \in 0..ParLimit
  BY <1>8, <1>12 DEF Publish, Wait, Return
<1> QED BY <1>5, <1>6, <1>7, <1>9, <1>10, <1>11, <1>12 DEF Next, Work

LEMMA InvariantKept ==
  ASSUME IInv, [Next]_vars
  PROVE  IInv'
<1>1. Permits' /\ permits' \in 0..ParLimit
  BY PermitsKept
<1>2. Parts
  BY DEF IInv, Parts
<1>3. CASE UNCHANGED vars
  <2>1. Broken' = Broken
    BY <1>3 DEF vars, Broken
  <2>2. \A u : Known(u)' = Known(u)
    BY <1>3 DEF vars, Known
  <2> QED BY <1>1, <1>3, <2>1, <2>2
    DEF vars, IInv, TypeOK, Pointers, Leaders, OneLeader, InMap, MapIsSound,
        BrokenBefore, KnownBefore
<1>4. ASSUME NEW c \in Callers, NEW r \in Requests, Begin(c, r) PROVE Parts'
  BY <1>2, <1>4, BeginKeeps
<1>5. ASSUME NEW c \in Callers, Read(c) PROVE Parts'
  <2>1. CASE Join(c)
    BY <1>2, <1>5, <2>1, JoinKeeps DEF Read
  <2>2. CASE entries[req[c].url] = NoEntry /\ pc' = [pc EXCEPT ![c] = "insert"]
             /\ UNCHANGED <<req, ref, heap, entries, permits, answer, before>>
    <3>1. Broken' = Broken
      BY <2>2 DEF Broken
    <3>2. TypeOK' /\ Pointers' /\ Leaders' /\ OneLeader' /\ InMap'
      BY <1>2, <1>5, <2>2
      DEF Parts, Read, TypeOK, PCs, Pointers, Leaders, OneLeader, InMap, Loading
    <3>3. MapIsSound' /\ BrokenBefore'
      BY <1>2, <1>5, <2>2, <3>1 DEF Parts, Read, TypeOK, MapIsSound, BrokenBefore
    <3>4. KnownBefore'
      BY <1>2, <1>5, <2>2 DEF Parts, Read, TypeOK, KnownBefore, Known
    <3> QED BY <3>2, <3>3, <3>4 DEF Parts
  <2> QED BY <1>5, <2>1, <2>2 DEF Read
<1>6. ASSUME NEW c \in Callers, Insert(c) PROVE Parts'
  BY <1>2, <1>6, JoinKeeps, AllocateKeeps DEF Insert
<1>7. ASSUME NEW c \in Callers, Acquire(c) PROVE Parts'
  <2>1. Broken' = Broken
    BY <1>7 DEF Acquire, Broken
  <2>2. Pointers' /\ Leaders' /\ OneLeader' /\ InMap'
    BY <1>2, <1>7
    DEF Parts, Acquire, TypeOK, Pointers, Leaders, OneLeader, InMap, Loading
  <2>3. TypeOK'
    BY <1>1, <1>2, <1>7 DEF Parts, Acquire, TypeOK, PCs, Loading
  <2>4. MapIsSound' /\ BrokenBefore'
    BY <1>2, <1>7, <2>1 DEF Parts, Acquire, TypeOK, MapIsSound, BrokenBefore
  <2>5. KnownBefore'
    BY <1>2, <1>7 DEF Parts, Acquire, TypeOK, KnownBefore, Known
  <2> QED BY <2>2, <2>3, <2>4, <2>5 DEF Parts
<1>8. ASSUME NEW c \in Callers, AcquireFails(c) \/ FetchFails(c) PROVE Parts'
  BY <1>1, <1>2, <1>8, SettleKeeps DEF AcquireFails, FetchFails
<1>9. ASSUME NEW c \in Callers, FetchSucceeds(c) PROVE Parts'
  BY <1>1, <1>2, <1>9, SettleKeeps DEF FetchSucceeds
<1>10. ASSUME NEW c \in Callers, Drop(c) \/ Publish(c) \/ Wait(c) PROVE Parts'
  BY <1>2, <1>10, DropKeeps, PublishKeeps, WaitKeeps
<1>11. Parts'
  <2>1. CASE Next
    BY <2>1, <1>4, <1>5, <1>6, <1>7, <1>8, <1>9, <1>10 DEF Next, Work
  <2> QED BY <1>3, <2>1 DEF IInv, Parts
<1> QED BY <1>1, <1>11 DEF IInv, Parts

\* The invariant holds in every reachable state.
THEOREM Invariant == Spec => []IInv
  BY InitInvariant, InvariantKept, PTL DEF Spec

\* Every variable keeps its type, whatever the goroutines do.
THEOREM TypeCorrect == Spec => []TypeOK
<1>1. IInv => TypeOK
  BY DEF IInv
<1> QED BY <1>1, Invariant, PTL

\* A URL is loaded once, but for loads that fail.
THEOREM LoadsOnce == Spec => []FetchedOnce
  BY InvariantSuffices, Invariant, PTL

\* No call answers with a failure that was published before it began.
THEOREM NoStaleError == Spec => []ErrorsAreFresh
  BY InvariantSuffices, Invariant, PTL

\* At most ParLimit loads talk to the server at once.
THEOREM LimitHolds == Spec => []WithinLimit
  BY InvariantSuffices, Invariant, PTL

-----------------------------------------------------------------------------
(* The cache implements a memo that never forgets. *)

KnownMap == [u \in Urls |-> Known(u)]
DueMap == [c \in Callers |-> before[c].known]
OutcomeMap == [c \in Callers |-> IF pc[c] = "idle" THEN answer[c] ELSE "pending"]

\* The memo's variables in terms of the cache's.
Abstract == [Memo!MemoNext]_(Memo!memoVars)

\* A step that changes neither what is known nor the calls is no step of the memo.
LEMMA Stutters ==
  ASSUME KnownMap' = KnownMap, DueMap' = DueMap, OutcomeMap' = OutcomeMap, req' = req
  PROVE  Abstract
  BY DEF Abstract, Memo!memoVars, KnownMap, DueMap, OutcomeMap

\* A call begins.
LEMMA BeginAsks ==
  ASSUME IInv, NEW c \in Callers, NEW r \in Requests, Begin(c, r)
  PROVE  Abstract
<1>1. KnownMap' = KnownMap
  BY DEF KnownMap, Known, Begin
<1>2. OutcomeMap[c] # "pending" /\ OutcomeMap' = [OutcomeMap EXCEPT ![c] = "pending"]
  BY DEF IInv, TypeOK, Begin, OutcomeMap
<1>3. DueMap' = [DueMap EXCEPT ![c] = KnownMap[r.url]]
  BY DEF IInv, TypeOK, Begin, DueMap, KnownMap, Requests
<1>4. req' = [req EXCEPT ![c] = r]
  BY DEF Begin
<1>5. Memo!Ask(c, r)
  BY <1>1, <1>2, <1>3, <1>4 DEF Memo!Ask, KnownMap, DueMap, OutcomeMap
<1> QED BY <1>5 DEF Abstract, Memo!MemoNext, Requests, Memo!Requests

\* What happens between the beginning and the end of a call, and changes no result,
\* is no step.
LEMMA QuietStep ==
  ASSUME IInv, NEW c \in Callers, NEW n \in PCs \ {"idle"}, pc[c] # "idle",
         pc' = [pc EXCEPT ![c] = n], req' = req, answer' = answer,
         \A d \in Callers : before'[d].known = before[d].known,
         \A u \in Urls : Known(u)' = Known(u)
  PROVE  Abstract
<1>1. KnownMap' = KnownMap
  BY DEF KnownMap
<1>2. DueMap' = DueMap
  BY DEF DueMap
<1>3. OutcomeMap' = OutcomeMap
  BY DEF OutcomeMap, IInv, TypeOK
<1> QED BY <1>1, <1>2, <1>3, Stutters

LEMMA LookupStutters ==
  ASSUME IInv, NEW c \in Callers, Read(c) \/ (Insert(c) /\ Join(c)) \/ Acquire(c)
  PROVE  Abstract
<1>1. \A u \in Urls : Known(u)' = Known(u)
  BY DEF Known, Read, Join, Acquire
<1>2. PICK n \in PCs \ {"idle"} : pc' = [pc EXCEPT ![c] = n]
  BY DEF Read, Join, Acquire, PCs, Loading
<1>3. pc[c] # "idle" /\ req' = req /\ answer' = answer /\ before' = before
  BY DEF Read, Insert, Join, Acquire
<1> QED BY <1>1, <1>2, <1>3, QuietStep

LEMMA AllocateStutters ==
  ASSUME IInv, NEW c \in Callers, pc[c] = "insert",
         entries[req[c].url] = NoEntry, Allocate(c)
  PROVE  Abstract
<1> DEFINE e == CHOOSE f \in Entries : ~Referenced(f)
<1>1. /\ e \in Entries /\ \A u \in Urls : entries[u] # e
      /\ heap' = [heap EXCEPT ![e] = [result |-> "loading", done |-> FALSE]]
      /\ entries' = [entries EXCEPT ![req[c].url] = e]
      /\ pc' = [pc EXCEPT ![c] = "acquire"] /\ req' = req /\ answer' = answer
      /\ before' = [d \in Callers |-> [before[d] EXCEPT !.broken = @ \ {e}]]
  BY DEF Allocate, Referenced
<1> HIDE DEF e
<1>2. \A u \in Urls : Known(u)' = Known(u)
  BY <1>1, FetchAssumption DEF Known, IInv, TypeOK
<1>3. \A d \in Callers : before'[d].known = before[d].known
  BY <1>1 DEF IInv, TypeOK
<1> QED BY <1>1, <1>2, <1>3, QuietStep DEF PCs, Loading

\* A failure is never known, before or after the entry leaves the map.
LEMMA FailureStutters ==
  ASSUME IInv, NEW c \in Callers, AcquireFails(c) \/ FetchFails(c) \/ Drop(c)
  PROVE  Abstract
<1>1. /\ ref[c] \in Entries /\ pc[c] \in {"acquire", "fetch", "drop"}
      /\ heap[ref[c]].result \notin Kinds
      /\ entries[req[c].url] = ref[c] /\ req[c].url \in Urls
  <2>1. /\ pc[c] \in {"acquire", "fetch", "drop"}
    BY DEF AcquireFails, FetchFails, Drop
  <2>2. ref[c] \in Entries /\ req[c].url \in Urls /\ ref[c] # NoEntry
    BY <2>1 DEF IInv, TypeOK, Requests, Pointers, Loading
  <2> QED BY <2>1, <2>2, FetchAssumption DEF IInv, Leaders, InMap, Loading
<1>2. ASSUME NEW u \in Urls PROVE Known(u)' = Known(u)
  <2>1. CASE Drop(c)
    <3>1. /\ heap' = heap
          /\ entries'[u] = IF u = req[c].url THEN NoEntry ELSE entries[u]
      BY <2>1 DEF Drop, IInv, TypeOK
    <3> QED BY <3>1, <1>1 DEF Known
  <2>2. CASE AcquireFails(c) \/ FetchFails(c)
    <3>1. /\ entries'[u] = entries[u]
          /\ heap'[ref[c]].result = "failed"
          /\ entries[u] \in Entries \ {ref[c]} => heap'[entries[u]] = heap[entries[u]]
          /\ entries[u] \in Entries \cup {NoEntry}
      BY <2>2, <1>1 DEF AcquireFails, FetchFails, Settle, IInv, TypeOK, EntryValues
    <3> QED BY <3>1, <1>1, FetchAssumption DEF Known
  <2> QED BY <2>1, <2>2
<1>3. PICK n \in PCs \ {"idle"} : pc' = [pc EXCEPT ![c] = n]
  BY DEF AcquireFails, FetchFails, Settle, Drop, PCs, Loading
<1>4. pc[c] # "idle" /\ req' = req /\ answer' = answer /\ before' = before
  BY <1>1 DEF AcquireFails, FetchFails, Settle, Drop
<1> QED BY <1>2, <1>3, <1>4, QuietStep

\* A fetch that succeeds makes its URL known.
LEMMA SuccessLearns ==
  ASSUME IInv, NEW c \in Callers, FetchSucceeds(c)
  PROVE  Abstract
<1> DEFINE e == ref[c]
           u == req[c].url
<1>1. /\ e \in Entries /\ e # NoEntry /\ pc[c] = "fetch" /\ u \in Urls /\ req[c].kind \in Kinds
  BY DEF IInv, TypeOK, Requests, Pointers, Loading, FetchSucceeds
<1>2. heap[e].result = "loading" /\ entries[u] = e
  BY <1>1 DEF IInv, Leaders, InMap, Loading
<1>3. \A v \in Urls \ {u} : entries[v] # e
  BY <1>1, <1>2 DEF IInv, MapIsSound
<1>4. /\ heap' = [heap EXCEPT ![e].result = req[c].kind]
      /\ pc' = [pc EXCEPT ![c] = "publish"]
      /\ UNCHANGED <<req, entries, answer, before>>
  BY DEF FetchSucceeds, Settle
<1>5. Known(u) = "none" /\ Known(u)' = req[c].kind
  BY <1>1, <1>2, <1>4, FetchAssumption DEF Known, IInv, TypeOK, EntryValues
<1>6. ASSUME NEW v \in Urls \ {u} PROVE Known(v)' = Known(v)
  <2>1. /\ entries[v] # NoEntry => heap'[entries[v]] = heap[entries[v]]
        /\ entries'[v] = entries[v]
    BY <1>1, <1>3, <1>4 DEF IInv, TypeOK
  <2> QED BY <2>1 DEF Known
<1>7. KnownMap[u] = "none" /\ KnownMap' = [KnownMap EXCEPT ![u] = req[c].kind]
  <2>1. ASSUME NEW v \in Urls
        PROVE  Known(v)' = IF v = u THEN req[c].kind ELSE KnownMap[v]
    <3>1. CASE v = u
      <4>1. req' = req
        BY <1>4
      <4> QED BY <4>1, <3>1, <1>5 DEF Known
    <3>2. CASE v # u
      BY <3>2, <1>6 DEF KnownMap
    <3> QED BY <3>1, <3>2
  <2>2. KnownMap' = [v \in Urls |-> IF v = u THEN req[c].kind ELSE KnownMap[v]]
    BY <2>1 DEF KnownMap
  <2>3. KnownMap \in [Urls -> Kinds \cup {"none"}]
    BY DEF KnownMap, Known
  <2>4. KnownMap[u] = "none"
    BY <1>1, <1>5 DEF KnownMap
  <2> HIDE DEF KnownMap, u
  <2> QED BY <2>2, <2>3, <2>4
<1>8. OutcomeMap[c] = "pending" /\ OutcomeMap' = OutcomeMap
  BY <1>1, <1>4 DEF OutcomeMap, IInv, TypeOK
<1>9. DueMap' = DueMap
  BY <1>4 DEF DueMap
<1>10. Memo!Learn(c)
  BY <1>4, <1>7, <1>8, <1>9 DEF Memo!Learn, KnownMap, OutcomeMap, DueMap
<1> QED BY <1>10 DEF Abstract, Memo!MemoNext

\* A call that returns says what the memo permits.
LEMMA ReturnReplies ==
  ASSUME IInv, NEW c \in Callers, NEW a, Return(c, a), pc[c] # "idle",
         a \in {"ok", "mismatch", "failed"}, req' = req,
         \A u \in Urls : Known(u)' = Known(u),
         \/ a = "ok" /\ Known(req[c].url) = req[c].kind
         \/ a = "mismatch" /\ Known(req[c].url) \notin {"none", req[c].kind}
         \/ a = "failed" /\ before[c].known = "none"
  PROVE  Abstract
<1>1. req[c].url \in Urls
  BY DEF IInv, TypeOK, Requests
<1>2. KnownMap' = KnownMap /\ KnownMap[req[c].url] = Known(req[c].url)
  BY <1>1 DEF KnownMap
<1>3. OutcomeMap[c] = "pending" /\ OutcomeMap' = [OutcomeMap EXCEPT ![c] = a]
  BY DEF OutcomeMap, Return, IInv, TypeOK
<1>4. DueMap[c] = before[c].known /\ DueMap' = [DueMap EXCEPT ![c] = "none"]
  BY DEF DueMap, Return, Nothing, IInv, TypeOK
<1>5. Memo!Permitted(c, a)
  BY <1>2, <1>4 DEF Memo!Permitted, KnownMap, DueMap
<1>6. Memo!Reply(c)
  BY <1>2, <1>3, <1>4, <1>5 DEF Memo!Reply, KnownMap, DueMap, OutcomeMap
<1> QED BY <1>6 DEF Abstract, Memo!MemoNext

\* The outcome of a settled entry agrees with what is known: if it did not fail,
\* it is the map's.
LEMMA OutcomeAgrees ==
  ASSUME IInv, NEW c \in Callers, pc[c] \in {"publish", "wait"},
         heap[ref[c]].result # "loading"
  PROVE  \/ Outcome(c) = "ok" /\ Known(req[c].url) = req[c].kind
         \/ Outcome(c) = "mismatch" /\ Known(req[c].url) \notin {"none", req[c].kind}
         \/ Outcome(c) = "failed" /\ before[c].known = "none"
<1>1. /\ ref[c] \in Entries /\ ref[c] # NoEntry
      /\ req[c].kind \in Kinds /\ req[c].kind # "failed"
      /\ heap[ref[c]].result \in Kinds \cup {"failed"}
  BY FetchAssumption DEF IInv, TypeOK, Requests, Pointers, Loading, EntryValues
<1>2. CASE heap[ref[c]].result = "failed"
  <2>1. Outcome(c) = "failed"
    BY <1>1, <1>2 DEF Outcome, Entry
  <2>2. ASSUME before[c].known # "none" PROVE FALSE
    <3>1. ref[c] = entries[req[c].url] /\ Known(req[c].url) # "none"
      BY <2>2 DEF IInv, KnownBefore
    <3> QED BY <3>1, <1>2, FetchAssumption DEF Known
  <2> QED BY <2>1, <2>2
<1>3. CASE heap[ref[c]].result # "failed"
  <2>1. Known(req[c].url) = heap[ref[c]].result /\ Known(req[c].url) # "none"
    BY <1>1, <1>3, FetchAssumption DEF IInv, InMap, Known
  <2>2. Outcome(c) = IF heap[ref[c]].result = req[c].kind THEN "ok" ELSE "mismatch"
    BY <1>1, <1>3 DEF Outcome, Entry
  <2> QED BY <2>1, <2>2
<1> QED BY <1>2, <1>3

LEMMA EndsReply ==
  ASSUME IInv, NEW c \in Callers, Publish(c) \/ Wait(c)
  PROVE  Abstract
<1>1. /\ pc[c] \in {"publish", "wait"} /\ req' = req /\ Return(c, Outcome(c))
  BY DEF Publish, Wait
<1>2. ref[c] \in Entries
  BY <1>1 DEF IInv, TypeOK, Pointers, Loading
<1>3. heap[ref[c]].result # "loading"
  <2>1. CASE Publish(c)
    BY <2>1, FetchAssumption DEF Publish, IInv, Leaders, Loading, TypeOK, Requests
  <2>2. CASE Wait(c)
    BY <2>2, <1>2 DEF Wait, Entry, IInv, Pointers
  <2> QED BY <2>1, <2>2
<1>4. \A u \in Urls : Known(u)' = Known(u)
  BY <1>2 DEF Publish, Wait, Known, IInv, TypeOK, EntryValues
<1>5. \/ Outcome(c) = "ok" /\ Known(req[c].url) = req[c].kind
      \/ Outcome(c) = "mismatch" /\ Known(req[c].url) \notin {"none", req[c].kind}
      \/ Outcome(c) = "failed" /\ before[c].known = "none"
  BY <1>1, <1>3, OutcomeAgrees
<1> HIDE DEF Outcome
<1> QED BY <1>1, <1>4, <1>5, ReturnReplies

\* Every step of the cache is a step of the memo or none.
LEMMA StepImplements ==
  ASSUME IInv, [Next]_vars
  PROVE  Abstract
<1>1. CASE UNCHANGED vars
  BY <1>1, Stutters DEF vars, KnownMap, DueMap, OutcomeMap, Known
<1>2. ASSUME NEW c \in Callers, Insert(c) PROVE Abstract
  BY <1>2, LookupStutters, AllocateStutters DEF Insert
<1>3. CASE Next
  BY <1>2, <1>3, BeginAsks, LookupStutters, FailureStutters, SuccessLearns, EndsReply
  DEF Next, Work
<1> QED BY <1>1, <1>3

\* The cache implements a memo that never forgets and whose answers agree with it.
THEOREM CacheIsMemo == Spec => ImplementsMemo
<1>1. Init => Memo!MemoInit
  BY FetchAssumption
  DEF Init, Memo!MemoInit, Known, Requests, Memo!Requests, Nothing
<1>2. IInv /\ [Next]_vars => [Memo!MemoNext]_(Memo!memoVars)
  BY StepImplements DEF Abstract
<1> QED
  BY <1>1, <1>2, Invariant, PTL DEF Spec, ImplementsMemo, Memo!MemoSpec
=============================================================================
