------------------------------ MODULE TypeMemo ------------------------------
(***************************************************************************)
(* What a caching type fetcher (protoresolve/remotereg) promises: a URL,   *)
(* once fetched, is known for good; answers agree with what is known; and  *)
(* what was known when a call began cannot fail.  Entries, loads and       *)
(* waiting do not appear.  TypeFetchCache implements this specification.   *)
(***************************************************************************)
CONSTANTS
  Callers,     \* who fetches
  Urls,        \* the URLs they fetch
  Kinds        \* as a message or as an enum

VARIABLES
  known,       \* the kind of type fetched from each URL, or "none"
  request,     \* each caller's latest request
  due,         \* while it is pending, what was known of its URL when it began
  outcome      \* "pending", or how it ended

memoVars == <<known, request, due, outcome>>

Requests == [url : Urls, kind : Kinds]

MemoInit ==
  /\ known = [u \in Urls |-> "none"]
  /\ request \in [Callers -> Requests]
  /\ due = [c \in Callers |-> "none"]
  /\ outcome = [c \in Callers |-> "none"]

Ask(c, r) ==
  /\ outcome[c] # "pending"
  /\ request' = [request EXCEPT ![c] = r]
  /\ due' = [due EXCEPT ![c] = known[r.url]]
  /\ outcome' = [outcome EXCEPT ![c] = "pending"]
  /\ UNCHANGED known

\* Only what a caller is asking for is learned.
Learn(c) ==
  /\ outcome[c] = "pending"
  /\ known[request[c].url] = "none"
  /\ known' = [known EXCEPT ![request[c].url] = request[c].kind]
  /\ UNCHANGED <<request, due, outcome>>

\* "mismatch" is the ErrUnexpectedType for a URL known as the other kind.
Permitted(c, o) ==
  LET k == known[request[c].url] IN
  \/ o = "ok" /\ k = request[c].kind
  \/ o = "mismatch" /\ k \notin {"none", request[c].kind}
  \/ o = "failed" /\ due[c] = "none"

Reply(c) ==
  /\ outcome[c] = "pending"
  /\ \E o \in {"ok", "mismatch", "failed"} :
       Permitted(c, o) /\ outcome' = [outcome EXCEPT ![c] = o]
  /\ due' = [due EXCEPT ![c] = "none"]
  /\ UNCHANGED <<known, request>>

MemoNext ==
  \E c \in Callers : Learn(c) \/ Reply(c) \/ \E r \in Requests : Ask(c, r)

MemoSpec == MemoInit /\ [][MemoNext]_memoVars
=============================================================================
