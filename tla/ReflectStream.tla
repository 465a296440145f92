--------------------------- MODULE ReflectStream ---------------------------
(***************************************************************************)
(* The connection half of grpcreflect.Client (src/grpcreflect/client.go):  *)
(* the fields guarded by connMu (stream, cancel, useV1Alpha, lastTriedV1), *)
(* the functions that run under it (doSend, doSendLocked, initStreamLocked,*)
(* resetLocked, Reset), the reflection server at the far end of the        *)
(* stream, and the clock the client reads.                                 *)
(*                                                                         *)
(* Any number of goroutines (Callers) issue requests and resets.  connMu   *)
(* makes the holder the only goroutine inside doSendLocked, so the         *)
(* parameters attemptCount and prevErr of its activation are two plain     *)
(* variables.  One action is one step between two points where the         *)
(* environment (the server, the network, the clock, goroutines queueing    *)
(* for the lock) can act.                                                  *)
(*                                                                         *)
(* The server is a conforming one: it answers the requests of a stream in  *)
(* order, one response for each.                                           *)
(***************************************************************************)
EXTENDS Naturals, Sequences

CONSTANTS
  Callers,      \* goroutines that use the client
  Requests,     \* the requests they may send; a response is named by its request
  Nobody,       \* the value of connMu when it is free
  Hour,         \* durationBetweenV1Attempts, in clock ticks
  MaxClock      \* bound on the clock, for model checking

ASSUME StreamAssumption ==
  /\ Nobody \notin Callers
  /\ Hour \in Nat
  /\ MaxClock \in Nat

VARIABLES
  connMu,       \* holder of Client.connMu, or Nobody
  pc,           \* where each caller is
  req,          \* the request of each caller's latest send
  result,       \* what each caller's latest send returned
  attemptCount, \* parameter of the holder's doSendLocked activation
  prevErr,      \* parameter of the holder's doSendLocked activation, "OK" for nil
  stream,       \* Client.stream, with what travels on it
  cancel,       \* whether Client.cancel is set
  useV1Alpha,   \* Client.useV1Alpha
  lastTriedV1,  \* Client.lastTriedV1
  stubs,        \* the non-nil stubs among stubV1 and stubV1Alpha
  supports,     \* the reflection versions the server implements
  clock,        \* what Client.now returns
  clean         \* history: callers whose latest send began on a usable server and
                \* has met no failure

callVars == <<connMu, pc, req, result, attemptCount, prevErr>>
versionVars == <<useV1Alpha, lastTriedV1>>
envVars == <<stubs, supports, clock>>
vars == <<callVars, stream, cancel, versionVars, envVars, clean>>

Versions == {"v1", "v1alpha"}

\* gRPC status codes as far as the code tells them apart.  io.EOF and every
\* code but Unimplemented and Unavailable are "Other".
Errs == {"Unimplemented", "Unavailable", "Other"}
Codes == Errs \cup {"OK"}

\* Fault: one attempt fewer.
TwoAttempts == 2

\* The most times a request is put on a stream: doSendLocked gives up when
\* attemptCount has reached it.
MaxAttempts == 3

Inside == {"attempt", "init", "openV1", "openAlpha", "send", "recv",
           "closeSend", "drain"}
PCs == {"idle", "lockSend", "lockReset", "resetClose", "resetDrain"} \cup Inside

\* served is {ver} when the server has the method of that version, else {}.
Streams == [ver : Versions \cup {"none"}, served : SUBSET Versions,
            requests : Seq(Requests), responses : Seq(Requests),
            status : Codes, halfClosed : BOOLEAN]

NoStream == [ver |-> "none", served |-> {}, requests |-> <<>>,
             responses |-> <<>>, status |-> "OK", halfClosed |-> FALSE]

HasStream == stream.ver # "none"
Served == stream.served # {}

\* A stream as ServerReflectionInfo returns it.  Whether the server has the
\* method is decided when the RPC starts.
NewStream(v) == [NoStream EXCEPT !.ver = v, !.served = supports \cap {v}]

NoResult == <<"none", "OK">>
Response(r) == <<"resp", r>>
Failure(c) == <<"err", c>>
Panic == <<"panic", "OK">>
Results == {NoResult, Panic} \cup {Response(r) : r \in Requests}
                             \cup {Failure(c) : c \in Errs}

TypeOK ==
  /\ connMu \in Callers \cup {Nobody}
  /\ pc \in [Callers -> PCs]
  /\ req \in [Callers -> Requests]
  /\ result \in [Callers -> Results]
  /\ attemptCount \in Nat
  /\ prevErr \in Codes
  /\ stream \in Streams
  /\ cancel \in BOOLEAN
  /\ useV1Alpha \in BOOLEAN
  /\ lastTriedV1 \in Nat
  /\ stubs \in (SUBSET Versions) \ {{}}
  /\ supports \in SUBSET Versions
  /\ clock \in Nat
  /\ clean \in SUBSET Callers

Init ==
  /\ connMu = Nobody
  /\ pc = [t \in Callers |-> "idle"]
  /\ req \in [Callers -> Requests]
  /\ result = [t \in Callers |-> NoResult]
  /\ attemptCount = 0
  /\ prevErr = "OK"
  /\ stream = NoStream
  /\ cancel = FALSE
  /\ useV1Alpha = FALSE
  /\ lastTriedV1 = 0
  /\ stubs \in (SUBSET Versions) \ {{}}
  /\ supports \in SUBSET Versions
  /\ clock = 0
  /\ clean = {}

-----------------------------------------------------------------------------
(* Entering and leaving the critical section. *)

Goto(t, label) == pc' = [pc EXCEPT ![t] = label]

\* A caller enters doSend and waits for connMu.
BeginSend(t, r) ==
  /\ pc[t] = "idle"
  /\ Goto(t, "lockSend")
  /\ req' = [req EXCEPT ![t] = r]
  /\ result' = [result EXCEPT ![t] = NoResult]
  /\ UNCHANGED <<connMu, attemptCount, prevErr, stream, cancel, versionVars,
                 envVars, clean>>

\* A caller enters Reset and waits for connMu.
BeginReset(t) ==
  /\ pc[t] = "idle"
  /\ Goto(t, "lockReset")
  /\ UNCHANGED <<connMu, req, result, attemptCount, prevErr, stream, cancel,
                 versionVars, envVars, clean>>

\* The client has a stub that works on this server whatever it remembers.
Usable == "v1alpha" \in stubs \cap supports \/ (stubs = {"v1"} /\ "v1" \in supports)

\* Fault: doSend without the lock, as its TODO wishes, and nothing in its place.
AcquireSendUnlocked(t) ==
  /\ pc[t] = "lockSend"
  /\ connMu' = t
  /\ Goto(t, "attempt")
  /\ attemptCount' = 0
  /\ prevErr' = "OK"
  /\ clean' = IF Usable THEN clean \cup {t} ELSE clean \ {t}
  /\ UNCHANGED <<req, result, stream, cancel, versionVars, envVars>>

\* connMu.Lock() returns in doSend: doSendLocked(0, nil, req).
AcquireSend(t) ==
  /\ pc[t] = "lockSend"
  /\ connMu = Nobody
  /\ connMu' = t
  /\ Goto(t, "attempt")
  /\ attemptCount' = 0
  /\ prevErr' = "OK"
  /\ clean' = IF Usable THEN clean \cup {t} ELSE clean \ {t}
  /\ UNCHANGED <<req, result, stream, cancel, versionVars, envVars>>

\* Fault: Reset does not take the lock.
AcquireResetUnlocked(t) ==
  /\ pc[t] = "lockReset"
  /\ connMu' = t
  /\ Goto(t, "resetClose")
  /\ UNCHANGED <<req, result, attemptCount, prevErr, stream, cancel,
                 versionVars, envVars, clean>>

AcquireReset(t) ==
  /\ pc[t] = "lockReset"
  /\ connMu = Nobody
  /\ connMu' = t
  /\ Goto(t, "resetClose")
  /\ UNCHANGED <<req, result, attemptCount, prevErr, stream, cancel,
                 versionVars, envVars, clean>>

\* The holder's doSendLocked returns `res`, and doSend's deferred Unlock runs
\* (also when it panics).
Return(t, res) ==
  /\ connMu' = Nobody
  /\ Goto(t, "idle")
  /\ result' = [result EXCEPT ![t] = res]
  /\ UNCHANGED <<req, attemptCount, prevErr>>

-----------------------------------------------------------------------------
(* doSendLocked up to the point where a stream is needed. *)

\* useV1(), for the given value of useV1Alpha.
UseV1(alpha) == "v1alpha" \notin stubs \/ (~alpha /\ "v1" \in stubs)

\* Faults: the count is compared off by one; the comparison is inverted and the
\* nil check lost.
CapReachedLate == attemptCount > MaxAttempts /\ prevErr # "OK"
CapReachedInverted == attemptCount < MaxAttempts

CapReached == attemptCount >= MaxAttempts /\ prevErr # "OK"

GiveUp(t) ==
  /\ pc[t] = "attempt"
  /\ CapReached
  /\ Return(t, Failure(prevErr))
  /\ UNCHANGED <<stream, cancel, versionVars, envVars, clean>>

\* Unavailable counts as well: some servers drop the connection when they do
\* not know the service.
FallBack == prevErr \in {"Unimplemented", "Unavailable"} /\ UseV1(useV1Alpha)

Attempt(t) ==
  /\ pc[t] = "attempt"
  /\ ~CapReached
  /\ IF FallBack
     THEN useV1Alpha' = TRUE /\ lastTriedV1' = clock
     ELSE UNCHANGED versionVars
  /\ attemptCount' = attemptCount + 1
  /\ Goto(t, "init")
  /\ UNCHANGED <<connMu, req, result, prevErr, stream, cancel, envVars, clean>>

-----------------------------------------------------------------------------
(* initStreamLocked. *)

KeepStream(t) ==
  /\ pc[t] = "init"
  /\ HasStream
  /\ Goto(t, "send")
  /\ UNCHANGED <<connMu, req, result, attemptCount, prevErr, stream, cancel,
                 versionVars, envVars, clean>>

DueForV1 == useV1Alpha /\ clock - lastTriedV1 > Hour

\* A new context and cancel function, then the periodic return to v1.
PrepareStream(t) ==
  /\ pc[t] = "init"
  /\ ~HasStream
  /\ cancel' = TRUE
  /\ IF DueForV1 THEN useV1Alpha' = FALSE ELSE UNCHANGED useV1Alpha
  /\ Goto(t, IF UseV1(useV1Alpha') THEN "openV1" ELSE "openAlpha")
  /\ UNCHANGED <<connMu, req, result, attemptCount, prevErr, stream,
                 lastTriedV1, envVars, clean>>

\* ServerReflectionInfo succeeds, even on a server that lacks the method: gRPC
\* reports that on the first Recv.
OpenSucceeds(t, v) ==
  /\ pc[t] = IF v = "v1" THEN "openV1" ELSE "openAlpha"
  /\ v \in stubs
  /\ stream' = NewStream(v)
  /\ Goto(t, "send")
  /\ UNCHANGED <<connMu, req, result, attemptCount, prevErr, cancel,
                 versionVars, envVars, clean>>

\* ServerReflectionInfo fails, and doSendLocked returns the error at once.
\* Only a server without the method says Unimplemented.
OpenFails(t, v, code) ==
  /\ pc[t] = IF v = "v1" THEN "openV1" ELSE "openAlpha"
  /\ v \in stubs
  /\ code = "Unimplemented" => v = "v1alpha" /\ v \notin supports
  /\ Return(t, Failure(code))
  /\ clean' = IF code = "Unimplemented" THEN clean ELSE clean \ {t}
  /\ UNCHANGED <<stream, cancel, versionVars, envVars>>

\* The v1 call itself says Unimplemented (a transport or an interceptor that
\* knows the service list): remember it and fall through to v1alpha.
OpenV1Unimplemented(t) ==
  /\ pc[t] = "openV1"
  /\ "v1" \notin supports
  /\ useV1Alpha' = TRUE
  /\ lastTriedV1' = clock
  /\ Goto(t, "openAlpha")
  /\ UNCHANGED <<connMu, req, result, attemptCount, prevErr, stream, cancel,
                 envVars, clean>>

\* stubV1Alpha is nil and its method is called.
OpenAlphaNilStub(t) ==
  /\ pc[t] = "openAlpha"
  /\ "v1alpha" \notin stubs
  /\ Return(t, Panic)
  /\ UNCHANGED <<stream, cancel, versionVars, envVars, clean>>

-----------------------------------------------------------------------------
(* Send, Recv, and resetLocked after an error. *)

RequestSent(t) == stream' = [stream EXCEPT !.requests = Append(@, req[t])]

SendSucceeds(t) ==
  /\ pc[t] = "send"
  /\ stream.status = "OK"
  /\ RequestSent(t)
  /\ Goto(t, "recv")
  /\ UNCHANGED <<connMu, req, result, attemptCount, prevErr, cancel,
                 versionVars, envVars, clean>>

\* An error of Send other than io.EOF, on a stream that is still up.  The
\* request may have gone out all the same.
SendFails(t) ==
  /\ pc[t] = "send"
  /\ stream.status = "OK"
  /\ RequestSent(t) \/ UNCHANGED stream
  /\ prevErr' = "Other"
  /\ clean' = clean \ {t}
  /\ Goto(t, "closeSend")
  /\ UNCHANGED <<connMu, req, result, attemptCount, cancel, versionVars,
                 envVars>>

\* Send reports io.EOF: the stream is over, and Recv tells why, unless a
\* response is still buffered, in which case it is dropped and err is nil.
SendOnDeadStream(t) ==
  /\ pc[t] = "send"
  /\ stream.status # "OK"
  /\ IF stream.responses = <<>>
     THEN prevErr' = stream.status /\ UNCHANGED stream
     ELSE /\ prevErr' = "OK"
          /\ stream' = [stream EXCEPT !.responses = Tail(@)]
  /\ Goto(t, "closeSend")
  /\ UNCHANGED <<connMu, req, result, attemptCount, cancel, versionVars,
                 envVars, clean>>

RecvResponse(t) ==
  /\ pc[t] = "recv"
  /\ stream.responses # <<>>
  /\ Return(t, Response(Head(stream.responses)))
  /\ stream' = [stream EXCEPT !.responses = Tail(@)]
  /\ UNCHANGED <<cancel, versionVars, envVars, clean>>

RecvFails(t) ==
  /\ pc[t] = "recv"
  /\ stream.responses = <<>>
  /\ stream.status # "OK"
  /\ prevErr' = stream.status
  /\ Goto(t, "closeSend")
  /\ UNCHANGED <<connMu, req, result, attemptCount, stream, cancel,
                 versionVars, envVars, clean>>

\* Fault: the draining loop without CloseSend before it.
NotHalfClosed(s) == s

\* resetLocked: CloseSend on the stream there is.
HalfClosed(s) == IF s.ver = "none" THEN s ELSE [s EXCEPT !.halfClosed = TRUE]

CloseSend(t) ==
  /\ \/ pc[t] = "closeSend"  /\ Goto(t, "drain")
     \/ pc[t] = "resetClose" /\ Goto(t, "resetDrain")
  /\ stream' = HalfClosed(stream)
  /\ UNCHANGED <<connMu, req, result, attemptCount, prevErr, cancel,
                 versionVars, envVars, clean>>

\* resetLocked: one Recv of the draining loop that still returns a response.
DrainOne(t) ==
  /\ pc[t] \in {"drain", "resetDrain"}
  /\ stream.responses # <<>>
  /\ stream' = [stream EXCEPT !.responses = Tail(@)]
  /\ UNCHANGED <<callVars, cancel, versionVars, envVars, clean>>

\* Recv returns the error that ends the loop (or there was no stream): stream
\* and cancel become nil.
Drained == stream.responses = <<>> /\ (HasStream => stream.status # "OK")

\* Faults: the lock is released between two attempts; the recursive call passes
\* 0 for attemptCount.
DrainEndsUnlocking(t) ==
  /\ pc[t] = "drain"
  /\ Drained
  /\ stream' = NoStream
  /\ cancel' = FALSE
  /\ connMu' = Nobody
  /\ Goto(t, "lockSend")
  /\ UNCHANGED <<req, result, attemptCount, prevErr, versionVars, envVars, clean>>

DrainEndsRestarting(t) ==
  /\ pc[t] = "drain"
  /\ Drained
  /\ stream' = NoStream
  /\ cancel' = FALSE
  /\ attemptCount' = 0
  /\ Goto(t, "attempt")
  /\ UNCHANGED <<connMu, req, result, prevErr, versionVars, envVars, clean>>

DrainEnds(t) ==
  /\ pc[t] = "drain"
  /\ Drained
  /\ stream' = NoStream
  /\ cancel' = FALSE
  /\ Goto(t, "attempt")
  /\ UNCHANGED <<connMu, req, result, attemptCount, prevErr, versionVars,
                 envVars, clean>>

ResetEnds(t) ==
  /\ pc[t] = "resetDrain"
  /\ Drained
  /\ stream' = NoStream
  /\ cancel' = FALSE
  /\ connMu' = Nobody
  /\ Goto(t, "idle")
  /\ UNCHANGED <<req, result, attemptCount, prevErr, versionVars, envVars,
                 clean>>

-----------------------------------------------------------------------------
(* The environment. *)

Up == HasStream /\ stream.status = "OK"

ServerAnswers ==
  /\ Up
  /\ Served
  /\ stream.requests # <<>>
  /\ stream' = [stream EXCEPT !.requests = Tail(@),
                              !.responses = Append(@, Head(stream.requests))]
  /\ UNCHANGED <<callVars, cancel, versionVars, envVars, clean>>

\* The server does not have the method: Unimplemented, or, on servers that
\* just drop the stream, Unavailable.
ServerRejects ==
  /\ Up
  /\ ~Served
  /\ \E code \in {"Unimplemented", "Unavailable"} :
       stream' = [stream EXCEPT !.status = code]
  /\ UNCHANGED <<callVars, cancel, versionVars, envVars, clean>>

\* The handler has read the half-close and returns: Recv reports io.EOF.
ServerEnds ==
  /\ Up
  /\ Served
  /\ stream.halfClosed
  /\ stream.requests = <<>>
  /\ stream' = [stream EXCEPT !.status = "Other"]
  /\ UNCHANGED <<callVars, cancel, versionVars, envVars, clean>>

\* The network, the server or a proxy breaks a working stream.
StreamBreaks ==
  /\ Up
  /\ Served
  /\ ~stream.halfClosed
  /\ \E code \in {"Unavailable", "Other"} :
       stream' = [stream EXCEPT !.status = code]
  /\ clean' = clean \ {connMu}
  /\ UNCHANGED <<callVars, cancel, versionVars, envVars>>

\* A new release of the server adds v1.
ServerUpgrades ==
  /\ "v1" \notin supports
  /\ supports' = supports \cup {"v1"}
  /\ UNCHANGED <<callVars, stream, cancel, versionVars, stubs, clock, clean>>

\* Time passes while the client waits, for connMu or in a gRPC call.  Between
\* two readings of the clock with no such wait between them (the top of
\* doSendLocked and the check in initStreamLocked) far less than an hour passes.
Tick ==
  /\ clock < MaxClock
  /\ \A t \in Callers : pc[t] \notin {"attempt", "init"}
  /\ clock' = clock + 1
  /\ UNCHANGED <<callVars, stream, cancel, versionVars, stubs, supports, clean>>

-----------------------------------------------------------------------------

\* What a goroutine does once it has entered doSend or Reset, the wait for the
\* lock excepted.
Work(t) ==
  \/ GiveUp(t) \/ Attempt(t) \/ KeepStream(t) \/ PrepareStream(t)
  \/ \E v \in Versions : OpenSucceeds(t, v)
  \/ \E v \in Versions, code \in Errs : OpenFails(t, v, code)
  \/ OpenV1Unimplemented(t) \/ OpenAlphaNilStub(t)
  \/ SendSucceeds(t) \/ SendFails(t) \/ SendOnDeadStream(t)
  \/ RecvResponse(t) \/ RecvFails(t)
  \/ CloseSend(t) \/ DrainOne(t) \/ DrainEnds(t) \/ ResetEnds(t)

Acquire(t) == AcquireSend(t) \/ AcquireReset(t)

Begin(t) == BeginReset(t) \/ \E r \in Requests : BeginSend(t, r)

Environment ==
  \/ ServerAnswers \/ ServerRejects \/ ServerEnds \/ StreamBreaks
  \/ ServerUpgrades \/ Tick

Next ==
  \/ \E t \in Callers : Begin(t) \/ Acquire(t) \/ Work(t)
  \/ Environment

Spec == Init /\ [][Next]_vars

\* A goroutine that can run does run; sync.Mutex is starvation free; a server
\* answers what it is asked, rejects methods it lacks, and ends a stream whose
\* client has stopped sending.  Nothing is assumed of StreamBreaks, Tick,
\* ServerUpgrades, or of a caller's decision to issue a request.
Fairness ==
  /\ \A t \in Callers : WF_vars(Work(t)) /\ SF_vars(Acquire(t))
  /\ WF_vars(ServerAnswers) /\ WF_vars(ServerRejects) /\ WF_vars(ServerEnds)

FairSpec == Spec /\ Fairness

-----------------------------------------------------------------------------
(* Properties. *)

\* A send never returns a response to somebody else's request, whatever was
\* left on the stream by calls that failed before it (doSend's comment: the
\* lock is there so that responses are correlated with their requests).
OwnResponse ==
  \A t \in Callers : result[t][1] = "resp" => result[t] = Response(req[t])

Outstanding == stream.requests \o stream.responses

\* What travels on a stream that will be used again is at most the one request
\* of the goroutine that holds connMu and waits in Recv: nothing is left over
\* by a call that has returned.
InFlightIsHolders ==
  Outstanding # <<>> /\ ~stream.halfClosed =>
    \E t \in Callers : /\ connMu = t
                       /\ \/ pc[t] = "recv" /\ Outstanding = <<req[t]>>
                          \/ pc[t] = "closeSend"

\* The recursion of doSendLocked ends: a request is put on a stream at most
\* MaxAttempts times, so the branch that starts over with a nil error (Send
\* says io.EOF, Recv says nil) never resets the count's effect.
RetriesBounded == attemptCount <= MaxAttempts

\* A call during which nothing fails gets its response, even when it starts on
\* a stream that went stale before it and, in the same call, the hourly retry
\* of v1 is due and is rejected: the attempts allowed are enough for both.
CleanCallSucceeds == \A t \in clean : result[t] = NoResult \/ result[t][1] = "resp"

\* Every send and every Reset returns: nobody is left waiting for connMu, the
\* retries end, and the draining loop of resetLocked, which runs before the
\* context is cancelled, ends because CloseSend makes the server end the stream.
CallsReturn == \A t \in Callers : pc[t] # "idle" ~> pc[t] = "idle"

\* The client implements the serial channel: a caller in doSend is queued until
\* it holds connMu and is served until it returns.
Visible(label) ==
  IF label = "lockSend" THEN "queued"
  ELSE IF label \in Inside THEN "serving" ELSE "idle"

ChannelState == [t \in Callers |-> Visible(pc[t])]

Channel == INSTANCE SerialChannel WITH
  state <- ChannelState, request <- req, answer <- result,
  NoAnswer <- NoResult,
  Failures <- {Panic} \cup {Failure(c) : c \in Errs}

\* The safety part of ImplementsChannel: no step of the client is anything but
\* a step of the channel or invisible to its callers.
ImplementsChannelSafely == Channel!ChanSafety

\* One request at a time, each answered by its own response or a failure, and
\* each answered in the end (the refinement of SerialChannel).
ImplementsChannel == Channel!ChanSpec

\* NewClientV1's doc: the client uses the v1 version of reflection, with the
\* given stub.  It has no other, so it must never come to call one.
V1ClientStaysOnV1 ==
  \A t \in Callers : pc[t] = "openAlpha" => "v1alpha" \in stubs
=============================================================================
