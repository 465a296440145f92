----------------------------- MODULE FileLookup -----------------------------
(***************************************************************************)
(* What the descriptor cache of grpcreflect.Client promises: a growing set *)
(* of files, each loaded once and after the files it needs, and answers    *)
(* that agree with it.  Raw protos, requests, retries and the nesting of   *)
(* lookups do not appear.  ReflectCache implements this specification.     *)
(***************************************************************************)
CONSTANTS
  Callers,     \* who asks
  Files,       \* what they ask for
  Served,      \* the files the server supplies
  Fallback,    \* the files the fallback resolver has
  Required,    \* the imports each file cannot do without
  Available,   \* the files that can be had at all
  Queries      \* a file and the kind of query: "resolve" asks the registry alone

VARIABLES
  loaded,      \* the files that have been loaded
  query,       \* each caller's latest query
  answer       \* "pending", or what the query was answered

lookupVars == <<loaded, query, answer>>

LookupInit ==
  /\ loaded = {}
  /\ query \in [Callers -> Queries]
  /\ answer = [t \in Callers |-> "none"]

Ask(t, q) ==
  /\ answer[t] # "pending"
  /\ query' = [query EXCEPT ![t] = q]
  /\ answer' = [answer EXCEPT ![t] = "pending"]
  /\ UNCHANGED loaded

Load(f) ==
  /\ f \in Served \ loaded
  /\ Required[f] \subseteq loaded \cup Fallback
  /\ loaded' = loaded \cup {f}
  /\ UNCHANGED <<query, answer>>

Reply(t) ==
  /\ answer[t] = "pending"
  /\ \E a \in {"ok", "notFound", "failed"} :
       /\ a = "ok" => query[t].path \in
            IF query[t].kind = "resolve" THEN loaded ELSE loaded \cup Fallback
       /\ a = "notFound" => query[t].path \notin
            IF query[t].kind = "resolve" THEN loaded ELSE Available
       /\ answer' = [answer EXCEPT ![t] = a]
  /\ UNCHANGED <<loaded, query>>

LookupNext ==
  \/ \E t \in Callers : Reply(t) \/ \E q \in Queries : Ask(t, q)
  \/ \E f \in Files : Load(f)

LookupSafety == LookupInit /\ [][LookupNext]_lookupVars

\* Every query is answered in the end.
LookupSpec == LookupSafety /\ \A t \in Callers : WF_lookupVars(Reply(t))
=============================================================================
