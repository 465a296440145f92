--------------------------- MODULE SerialChannel ---------------------------
(***************************************************************************)
(* What the connection half of grpcreflect.Client promises to the code     *)
(* that calls send: a channel that serves one request at a time, in some   *)
(* order, and gives each caller either the response to its own request or  *)
(* a failure.  Streams, retries, protocol versions and resets do not       *)
(* appear.  ReflectStream implements this specification, and ReflectCache  *)
(* relies on it: there a request and its answer are one step.              *)
(***************************************************************************)
CONSTANTS
  Callers,    \* who may submit a request
  Requests,   \* what may be requested
  NoAnswer,   \* the answer of a caller that has none yet
  Failures    \* the answers that are not responses

VARIABLES
  state,      \* "idle", "queued" or "serving", for each caller
  request,    \* each caller's latest request
  answer      \* what each caller's latest request was answered

chanVars == <<state, request, answer>>

ResponseTo(r) == <<"resp", r>>

ChanInit ==
  /\ state = [t \in Callers |-> "idle"]
  /\ request \in [Callers -> Requests]
  /\ answer = [t \in Callers |-> NoAnswer]

Submit(t, r) ==
  /\ state[t] = "idle"
  /\ state' = [state EXCEPT ![t] = "queued"]
  /\ request' = [request EXCEPT ![t] = r]
  /\ answer' = [answer EXCEPT ![t] = NoAnswer]

Serve(t) ==
  /\ state[t] = "queued"
  /\ \A u \in Callers : state[u] # "serving"
  /\ state' = [state EXCEPT ![t] = "serving"]
  /\ UNCHANGED <<request, answer>>

Finish(t) ==
  /\ state[t] = "serving"
  /\ state' = [state EXCEPT ![t] = "idle"]
  /\ \E a \in Failures \cup {ResponseTo(request[t])} :
       answer' = [answer EXCEPT ![t] = a]
  /\ UNCHANGED request

ChanNext ==
  \E t \in Callers : Serve(t) \/ Finish(t) \/ \E r \in Requests : Submit(t, r)

ChanSafety == ChanInit /\ [][ChanNext]_chanVars

\* Every request that is submitted is served, and served to the end.
ChanSpec ==
  /\ ChanSafety
  /\ \A t \in Callers : WF_chanVars(Finish(t)) /\ SF_chanVars(Serve(t))
=============================================================================
