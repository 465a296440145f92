------------------------ MODULE ReflectStreamProofs ------------------------
(***************************************************************************)
(* Proofs about ReflectStream, for every set of callers and requests and   *)
(* every length of the hour: typing, the correlation of responses with     *)
(* requests, the bound on retries, and the safety part of the refinement   *)
(* of SerialChannel.                                                       *)
(***************************************************************************)
EXTENDS ReflectStream, TLAPS

-----------------------------------------------------------------------------
(* What the operations on a stream do to its type. *)

LEMMA NoStreamType == NoStream \in Streams
BY DEF NoStream, Streams, Codes

LEMMA NewStreamType ==
  ASSUME supports \in SUBSET Versions, NEW v \in Versions
  PROVE  NewStream(v) \in Streams
<1>1. ASSUME NEW s \in Streams, NEW w \in SUBSET Versions
      PROVE  [s EXCEPT !.ver = v, !.served = w] \in Streams
  BY DEF Streams
<1> QED
  BY <1>1, NoStreamType DEF NewStream

LEMMA TrafficType ==
  ASSUME NEW s \in Streams, NEW q \in Seq(Requests), NEW p \in Seq(Requests)
  PROVE  /\ [s EXCEPT !.requests = q] \in Streams
         /\ [s EXCEPT !.responses = p] \in Streams
         /\ [s EXCEPT !.requests = q, !.responses = p] \in Streams
BY DEF Streams

LEMMA RequestType ==
  ASSUME NEW s \in Streams, NEW r \in Requests
  PROVE  [s EXCEPT !.requests = Append(@, r)] \in Streams
<1>1. Append(s.requests, r) \in Seq(Requests)
  BY DEF Streams
<1> QED
  BY <1>1, TrafficType

LEMMA ResponseType ==
  ASSUME NEW s \in Streams, s.responses # <<>>
  PROVE  /\ [s EXCEPT !.responses = Tail(@)] \in Streams
         /\ Head(s.responses) \in Requests
<1>1. Tail(s.responses) \in Seq(Requests)
  BY DEF Streams
<1>2. Head(s.responses) \in Requests
  BY DEF Streams
<1>3. [s EXCEPT !.responses = Tail(@)] \in Streams
  BY <1>1 DEF Streams
<1> QED
  BY <1>2, <1>3

LEMMA AnswerType ==
  ASSUME NEW s \in Streams, s.requests # <<>>
  PROVE  [s EXCEPT !.requests = Tail(@),
                   !.responses = Append(@, Head(s.requests))] \in Streams
<1>1. Tail(s.requests) \in Seq(Requests)
  BY DEF Streams
<1>2. Append(s.responses, Head(s.requests)) \in Seq(Requests)
  BY DEF Streams
<1> QED
  BY <1>1, <1>2, TrafficType

LEMMA StatusType ==
  ASSUME NEW s \in Streams, NEW c \in Codes
  PROVE  [s EXCEPT !.status = c] \in Streams
BY DEF Streams

LEMMA HalfClosedType ==
  ASSUME NEW s \in Streams
  PROVE  HalfClosed(s) \in Streams
BY DEF Streams, HalfClosed

-----------------------------------------------------------------------------
(* Typing. *)

LEMMA TypeInit == Init => TypeOK
<1> SUFFICES ASSUME Init PROVE TypeOK
  OBVIOUS
<1>1. result \in [Callers -> Results]
  BY DEF Init, Results
<1>2. pc \in [Callers -> PCs]
  BY DEF Init, PCs
<1> QED
  BY <1>1, <1>2, NoStreamType DEF Init, TypeOK, Codes

LEMMA TypeStep == TypeOK /\ [Next]_vars => TypeOK'
<1> SUFFICES ASSUME TypeOK, [Next]_vars PROVE TypeOK'
  OBVIOUS
<1> USE DEF TypeOK, callVars, envVars, versionVars
<1>1. ASSUME NEW t \in Callers, Begin(t) PROVE TypeOK'
  <2>1. NoResult \in Results
    BY DEF Results
  <2>2. CASE BeginReset(t)
    BY <2>2 DEF BeginReset, Goto, PCs
  <2>3. ASSUME NEW r \in Requests, BeginSend(t, r) PROVE TypeOK'
    BY <2>1, <2>3 DEF BeginSend, Goto, PCs
  <2> QED
    BY <1>1, <2>2, <2>3 DEF Begin
<1>2. ASSUME NEW t \in Callers, Acquire(t) PROVE TypeOK'
  BY <1>2 DEF Acquire, AcquireSend, AcquireReset, Goto, PCs, Inside, Codes
<1>3. ASSUME NEW t \in Callers, Work(t) PROVE TypeOK'
  <2>1. CASE GiveUp(t)
    BY <2>1 DEF GiveUp, CapReached, Return, Goto, PCs, Results, Codes
  <2>2. CASE Attempt(t)
    <3>1. useV1Alpha' \in BOOLEAN /\ lastTriedV1' \in Nat
      BY <2>2 DEF Attempt, FallBack, UseV1
    <3> QED
      BY <2>2, <3>1 DEF Attempt, Goto, PCs, Inside
  <2>3. CASE KeepStream(t)
    BY <2>3 DEF KeepStream, Goto, PCs, Inside
  <2>4. CASE PrepareStream(t)
    BY <2>4 DEF PrepareStream, Goto, PCs, Inside
  <2>5. ASSUME NEW v \in Versions, OpenSucceeds(t, v) PROVE TypeOK'
    BY <2>5, NewStreamType DEF OpenSucceeds, Goto, PCs, Inside
  <2>6. ASSUME NEW v \in Versions, NEW code \in Errs, OpenFails(t, v, code)
        PROVE  TypeOK'
    BY <2>6 DEF OpenFails, Return, Goto, PCs, Results
  <2>7. CASE OpenV1Unimplemented(t)
    BY <2>7 DEF OpenV1Unimplemented, Goto, PCs, Inside
  <2>8. CASE OpenAlphaNilStub(t)
    BY <2>8 DEF OpenAlphaNilStub, Return, Goto, PCs, Results
  <2>9. CASE SendSucceeds(t)
    <3>1. stream' \in Streams
      BY <2>9, RequestType DEF SendSucceeds, RequestSent
    <3> QED
      BY <2>9, <3>1 DEF SendSucceeds, Goto, PCs, Inside
  <2>10. CASE SendFails(t)
    <3>1. stream' \in Streams
      BY <2>10, RequestType DEF SendFails, RequestSent
    <3> QED
      BY <2>10, <3>1 DEF SendFails, Codes, Errs, Goto, PCs, Inside
  <2>11. CASE SendOnDeadStream(t)
    <3>1. stream' \in Streams /\ prevErr' \in Codes
      BY <2>11, ResponseType DEF SendOnDeadStream, Streams, Codes
    <3> QED
      BY <2>11, <3>1 DEF SendOnDeadStream, Goto, PCs, Inside
  <2>12. CASE RecvResponse(t)
    BY <2>12, ResponseType DEF RecvResponse, Return, Goto, PCs, Results
  <2>13. CASE RecvFails(t)
    <3>1. prevErr' \in Codes
      BY <2>13 DEF RecvFails, Streams
    <3> QED
      BY <2>13, <3>1 DEF RecvFails, Goto, PCs, Inside
  <2>14. CASE CloseSend(t)
    BY <2>14, HalfClosedType DEF CloseSend, Goto, PCs, Inside
  <2>15. CASE DrainOne(t)
    <3>1. stream' \in Streams
      BY <2>15, ResponseType DEF DrainOne
    <3> QED
      BY <2>15, <3>1 DEF DrainOne
  <2>16. CASE DrainEnds(t) \/ ResetEnds(t)
    BY <2>16, NoStreamType DEF DrainEnds, ResetEnds, Goto, PCs, Inside
  <2> QED
    BY <1>3, <2>1, <2>2, <2>3, <2>4, <2>5, <2>6, <2>7, <2>8, <2>9, <2>10,
       <2>11, <2>12, <2>13, <2>14, <2>15, <2>16 DEF Work
<1>4. CASE Environment
  <2>1. CASE ServerAnswers
    BY <2>1, AnswerType DEF ServerAnswers
  <2>s. ASSUME NEW code \in Errs, stream' = [stream EXCEPT !.status = code],
               UNCHANGED <<callVars, cancel, versionVars, envVars>>,
               clean' \in SUBSET Callers
        PROVE  TypeOK'
    <3>1. stream' \in Streams
      BY <2>s, StatusType DEF Codes
    <3> QED
      BY <2>s, <3>1
  <2>2. CASE ServerRejects
    <3>1. PICK code \in {"Unimplemented", "Unavailable"} :
            stream' = [stream EXCEPT !.status = code]
      BY <2>2 DEF ServerRejects
    <3>2. clean' \in SUBSET Callers
      BY <2>2 DEF ServerRejects
    <3> QED
      BY <2>s, <2>2, <3>1, <3>2 DEF ServerRejects, Errs
  <2>3. CASE ServerEnds
    <3>1. clean' \in SUBSET Callers
      BY <2>3 DEF ServerEnds
    <3> QED
      BY <2>s, <2>3, <3>1 DEF ServerEnds, Errs
  <2>4. CASE StreamBreaks
    <3>1. PICK code \in {"Unavailable", "Other"} :
            stream' = [stream EXCEPT !.status = code]
      BY <2>4 DEF StreamBreaks
    <3>2. clean' \in SUBSET Callers
      BY <2>4 DEF StreamBreaks
    <3> QED
      BY <2>s, <2>4, <3>1, <3>2 DEF StreamBreaks, Errs
  <2>5. CASE ServerUpgrades
    BY <2>5 DEF ServerUpgrades, Versions
  <2>6. CASE Tick
    BY <2>6 DEF Tick
  <2> QED
    BY <1>4, <2>1, <2>2, <2>3, <2>4, <2>5, <2>6 DEF Environment
<1>5. CASE UNCHANGED vars
  BY <1>5 DEF vars
<1> QED
  BY <1>1, <1>2, <1>3, <1>4, <1>5 DEF Next

\* Every variable keeps its type (ReflectStream!TypeOK).
THEOREM TypeCorrect == Spec => []TypeOK
BY TypeInit, TypeStep, PTL DEF Spec

-----------------------------------------------------------------------------
(* The inductive invariant.  OwnResponse and InFlightIsHolders are not       *)
(* inductive: that a response found on the stream is the holder's own needs  *)
(* what the stream holds at every step of doSendLocked, and that in turn     *)
(* needs the lock to be exclusive.                                           *)

Critical == Inside \cup {"resetClose", "resetDrain"}

\* A caller is in the critical section exactly when it holds connMu.
Mutex == \A t \in Callers : pc[t] \in Critical <=> connMu = t

\* Nothing travels on the stream, and it is not being shut down.
Quiet == stream.requests = <<>> /\ stream.responses = <<>> /\ ~stream.halfClosed

\* Exactly the request r, or the response to it, travels on the stream.
Carries(r) ==
  /\ ~stream.halfClosed
  /\ \/ stream.requests = <<r>> /\ stream.responses = <<>>
     \/ stream.requests = <<>> /\ stream.responses = <<r>>

HolderInv(t) ==
  /\ pc[t] \in {"attempt", "init", "openV1", "openAlpha", "send", "resetClose"}
       => Quiet
  /\ pc[t] = "recv" => Carries(req[t])
  /\ pc[t] = "closeSend" => ~stream.halfClosed
  /\ pc[t] \in {"drain", "resetDrain"} => Quiet \/ stream.halfClosed
  /\ pc[t] \in {"send", "recv", "closeSend"} => HasStream

StreamInv ==
  /\ connMu = Nobody => Quiet
  /\ \A t \in Callers : connMu = t => HolderInv(t)

\* prevErr is nil only before the first attempt.
RetryInv ==
  \A t \in Callers : connMu = t =>
    /\ pc[t] = "attempt" => attemptCount = 0 \/ prevErr # "OK"
    /\ pc[t] \in {"closeSend", "drain"} => prevErr # "OK"

IInv == /\ TypeOK /\ Mutex /\ OwnResponse /\ StreamInv
        /\ RetryInv /\ RetriesBounded

LEMMA MutexStep == TypeOK /\ Mutex /\ [Next]_vars => Mutex'
<1> SUFFICES ASSUME TypeOK, Mutex, [Next]_vars PROVE Mutex'
  OBVIOUS
<1> USE StreamAssumption DEF TypeOK, Mutex, Critical, Inside, callVars, envVars, versionVars
<1>1. ASSUME NEW t \in Callers, Begin(t) PROVE Mutex'
  BY <1>1 DEF Begin, BeginSend, BeginReset, Goto
<1>2. ASSUME NEW t \in Callers, Acquire(t) PROVE Mutex'
  BY <1>2 DEF Acquire, AcquireSend, AcquireReset, Goto
<1>3. ASSUME NEW t \in Callers, Work(t) PROVE Mutex'
  <2>1. CASE GiveUp(t) \/ Attempt(t)
    BY <2>1 DEF GiveUp, Attempt, Return, Goto
  <2>2. CASE KeepStream(t) \/ PrepareStream(t)
    BY <2>2 DEF KeepStream, PrepareStream, Goto
  <2>3. ASSUME NEW v \in Versions, OpenSucceeds(t, v) PROVE Mutex'
    BY <2>3 DEF OpenSucceeds, Goto, Versions
  <2>4. ASSUME NEW v \in Versions, NEW code \in Errs, OpenFails(t, v, code)
        PROVE  Mutex'
    BY <2>4 DEF OpenFails, Return, Goto, Versions
  <2>5. CASE OpenV1Unimplemented(t) \/ OpenAlphaNilStub(t)
    BY <2>5 DEF OpenV1Unimplemented, OpenAlphaNilStub, Return, Goto
  <2>6. CASE SendSucceeds(t) \/ SendFails(t) \/ SendOnDeadStream(t)
    BY <2>6 DEF SendSucceeds, SendFails, SendOnDeadStream, Goto
  <2>7. CASE RecvResponse(t) \/ RecvFails(t)
    BY <2>7 DEF RecvResponse, RecvFails, Return, Goto
  <2>8. CASE CloseSend(t) \/ DrainOne(t)
    BY <2>8 DEF CloseSend, DrainOne, Goto
  <2>9. CASE DrainEnds(t) \/ ResetEnds(t)
    BY <2>9 DEF DrainEnds, ResetEnds, Goto
  <2> QED
    BY <1>3, <2>1, <2>2, <2>3, <2>4, <2>5, <2>6, <2>7, <2>8, <2>9 DEF Work
<1>4. CASE Environment
  BY <1>4 DEF Environment, ServerAnswers, ServerRejects, ServerEnds,
              StreamBreaks, ServerUpgrades, Tick
<1>5. CASE UNCHANGED vars
  BY <1>5 DEF vars
<1> QED
  BY <1>1, <1>2, <1>3, <1>4, <1>5 DEF Next

\* The conjuncts of IInv that talk about the stream and about the activation of
\* doSendLocked.
CallInv == OwnResponse /\ StreamInv /\ RetryInv /\ RetriesBounded

LEMMA CallStep == TypeOK /\ Mutex /\ CallInv /\ [Next]_vars => CallInv'
<1> SUFFICES ASSUME TypeOK, Mutex, CallInv, [Next]_vars PROVE CallInv'
  OBVIOUS
<1> USE StreamAssumption
        DEF TypeOK, Mutex, Critical, Inside, CallInv, OwnResponse, StreamInv,
            HolderInv, Quiet, Carries, RetryInv, RetriesBounded, MaxAttempts,
            callVars, envVars, versionVars
<1>1. ASSUME NEW t \in Callers, Begin(t) PROVE CallInv'
  <2>1. CASE BeginReset(t)
    BY <2>1 DEF BeginReset, Goto, HasStream
  <2>2. ASSUME NEW r \in Requests, BeginSend(t, r) PROVE CallInv'
    BY <2>2 DEF BeginSend, Goto, HasStream, NoResult
  <2> QED
    BY <1>1, <2>1, <2>2 DEF Begin
<1>2. ASSUME NEW t \in Callers, Acquire(t) PROVE CallInv'
  BY <1>2 DEF Acquire, AcquireSend, AcquireReset, Goto, HasStream
<1>3. ASSUME NEW t \in Callers, Work(t) PROVE CallInv'
  <2>1. CASE GiveUp(t)
    BY <2>1 DEF GiveUp, Return, Goto, HasStream, Failure
  <2>2. CASE Attempt(t)
    BY <2>2 DEF Attempt, CapReached, Goto, HasStream
  <2>3. CASE KeepStream(t) \/ PrepareStream(t)
    BY <2>3 DEF KeepStream, PrepareStream, Goto, HasStream
  <2>4. ASSUME NEW v \in Versions, OpenSucceeds(t, v) PROVE CallInv'
    BY <2>4 DEF OpenSucceeds, NewStream, NoStream, Goto, HasStream, Versions
  <2>5. ASSUME NEW v \in Versions, NEW code \in Errs, OpenFails(t, v, code)
        PROVE  CallInv'
    BY <2>5 DEF OpenFails, Return, Goto, HasStream, Failure, Versions
  <2>6. CASE OpenV1Unimplemented(t)
    BY <2>6 DEF OpenV1Unimplemented, Goto, HasStream
  <2>7. CASE OpenAlphaNilStub(t)
    BY <2>7 DEF OpenAlphaNilStub, Return, Goto, HasStream, Panic
  <2>8. CASE SendSucceeds(t)
    <3>1. connMu = t /\ Quiet /\ HasStream
      BY <2>8 DEF SendSucceeds
    <3>2. /\ stream'.requests = Append(stream.requests, req[t])
          /\ stream'.responses = stream.responses
          /\ stream'.halfClosed = stream.halfClosed
          /\ stream'.ver = stream.ver
      BY <2>8 DEF SendSucceeds, RequestSent, Streams
    <3>3. Append(<<>>, req[t]) = <<req[t]>>
      OBVIOUS
    <3>4. Carries(req[t])' /\ HasStream'
      BY <2>8, <3>1, <3>2, <3>3 DEF SendSucceeds, HasStream
    <3> QED
      BY <2>8, <3>1, <3>4 DEF SendSucceeds, Goto
  <2>9. CASE SendFails(t)
    <3>1. stream'.halfClosed = stream.halfClosed /\ stream'.ver = stream.ver
      BY <2>9 DEF SendFails, RequestSent, Streams
    <3> QED
      BY <2>9, <3>1 DEF SendFails, Goto, HasStream
  <2>10. CASE SendOnDeadStream(t)
    BY <2>10 DEF SendOnDeadStream, Goto, HasStream
  <2>11. CASE RecvResponse(t)
    BY <2>11 DEF RecvResponse, Return, Goto, HasStream, Streams, Response
  <2>12. CASE RecvFails(t)
    BY <2>12 DEF RecvFails, Goto, HasStream
  <2>13. CASE CloseSend(t)
    BY <2>13 DEF CloseSend, HalfClosed, Goto, HasStream
  <2>14. CASE DrainOne(t)
    BY <2>14 DEF DrainOne, HasStream
  <2>15. CASE DrainEnds(t) \/ ResetEnds(t)
    BY <2>15 DEF DrainEnds, ResetEnds, NoStream, Goto, HasStream
  <2> QED
    BY <1>3, <2>1, <2>2, <2>3, <2>4, <2>5, <2>6, <2>7, <2>8, <2>9, <2>10,
       <2>11, <2>12, <2>13, <2>14, <2>15 DEF Work
<1>4. CASE Environment
  <2>1. CASE ServerAnswers
    <3>1. /\ stream'.requests = Tail(stream.requests)
          /\ stream'.responses = Append(stream.responses, Head(stream.requests))
          /\ stream'.halfClosed = stream.halfClosed
          /\ stream'.ver = stream.ver
      BY <2>1 DEF ServerAnswers, Streams
    <3>2. ~Quiet
      BY <2>1 DEF ServerAnswers
    <3>3. ASSUME NEW r \in Requests, Carries(r) PROVE Carries(r)'
      <4>1. stream.requests = <<r>> /\ stream.responses = <<>>
        BY <2>1, <3>3 DEF ServerAnswers
      <4>2. Tail(<<r>>) = <<>> /\ Head(<<r>>) = r /\ Append(<<>>, r) = <<r>>
        OBVIOUS
      <4> QED
        BY <3>1, <3>3, <4>1, <4>2
    <3>4. UNCHANGED callVars
      BY <2>1 DEF ServerAnswers
    <3>5. ASSUME NEW t \in Callers, connMu = t PROVE HolderInv(t)'
      <4>1. pc[t] = "recv" => Carries(req[t])'
        BY <3>3, <3>4, <3>5
      <4> QED
        BY <3>1, <3>2, <3>4, <3>5, <4>1 DEF HasStream
    <3> QED
      BY <3>2, <3>4, <3>5
  <2>2. CASE ServerRejects
    BY <2>2 DEF ServerRejects, Up, Streams, HasStream
  <2>3. CASE ServerEnds \/ StreamBreaks
    BY <2>3 DEF ServerEnds, StreamBreaks, Up, Streams, HasStream
  <2>4. CASE ServerUpgrades \/ Tick
    BY <2>4 DEF ServerUpgrades, Tick, HasStream
  <2> QED
    BY <1>4, <2>1, <2>2, <2>3, <2>4 DEF Environment
<1>5. CASE UNCHANGED vars
  BY <1>5 DEF vars, HasStream
<1> QED
  BY <1>1, <1>2, <1>3, <1>4, <1>5 DEF Next

LEMMA CallInit == Init => Mutex /\ CallInv
BY StreamAssumption
   DEF Init, NoStream, NoResult, Mutex, Critical, Inside, CallInv, OwnResponse,
       StreamInv, HolderInv, Quiet, RetryInv, RetriesBounded, MaxAttempts

THEOREM Invariance == Spec => []IInv
<1>1. Init => IInv
  BY TypeInit, CallInit DEF IInv, CallInv
<1>2. IInv /\ [Next]_vars => IInv'
  BY TypeStep, MutexStep, CallStep DEF IInv, CallInv
<1> QED
  BY <1>1, <1>2, PTL DEF Spec

\* A send returns only the response to its own request (ReflectStream!OwnResponse).
THEOREM ResponsesCorrelated == Spec => []OwnResponse
<1>1. IInv => OwnResponse
  BY DEF IInv
<1> QED
  BY <1>1, Invariance, PTL

\* doSendLocked puts a request on a stream at most three times
\* (ReflectStream!RetriesBounded).
THEOREM RetriesEnd == Spec => []RetriesBounded
<1>1. IInv => RetriesBounded
  BY DEF IInv
<1> QED
  BY <1>1, Invariance, PTL

\* A call that has returned leaves nothing on the stream for the next one to
\* find (ReflectStream!InFlightIsHolders).
THEOREM NothingLeftOver == Spec => []InFlightIsHolders
<1>1. ASSUME IInv PROVE InFlightIsHolders
  <2> SUFFICES ASSUME Outstanding # <<>>, ~stream.halfClosed
               PROVE  \E t \in Callers :
                        /\ connMu = t
                        /\ \/ pc[t] = "recv" /\ Outstanding = <<req[t]>>
                           \/ pc[t] = "closeSend"
    BY DEF InFlightIsHolders
  <2>1. ~Quiet
    <3>1. <<>> \o <<>> = <<>>
      OBVIOUS
    <3> QED
      BY <3>1 DEF Outstanding, Quiet
  <2>2. PICK t \in Callers : connMu = t
    BY <1>1, <2>1 DEF IInv, TypeOK, StreamInv
  <2>3. pc[t] \in {"recv", "closeSend", "drain", "resetDrain"}
    BY <1>1, <2>1, <2>2 DEF IInv, Mutex, Critical, Inside, StreamInv, HolderInv
  <2>4. CASE pc[t] = "recv"
    <3>1. Carries(req[t]) /\ req[t] \in Requests
      BY <1>1, <2>2, <2>4 DEF IInv, TypeOK, StreamInv, HolderInv
    <3>2. \A r \in Requests : <<r>> \o <<>> = <<r>> /\ <<>> \o <<r>> = <<r>>
      OBVIOUS
    <3> QED
      BY <2>2, <2>4, <3>1, <3>2 DEF Carries, Outstanding
  <2>5. CASE pc[t] \in {"drain", "resetDrain"}
    BY <1>1, <2>1, <2>2, <2>5 DEF IInv, StreamInv, HolderInv
  <2> QED
    BY <2>2, <2>3, <2>4, <2>5
<1> QED
  BY <1>1, Invariance, PTL

-----------------------------------------------------------------------------
(* ReflectStream implements SerialChannel (safety).  Taking connMu in doSend *)
(* is Serve, returning from doSend is Finish, and everything between, the    *)
(* resets and the environment are invisible.                                 *)

Answers == {Panic} \cup {Failure(c) : c \in Errs}

\* What a step shows of the channel when the caller t alone moves.
LEMMA ChannelMoves ==
  ASSUME TypeOK, TypeOK', NEW t \in Callers, NEW l \in PCs,
         pc' = [pc EXCEPT ![t] = l]
  PROVE  ChannelState' = [ChannelState EXCEPT ![t] = Visible(l)]
BY DEF TypeOK, ChannelState

LEMMA ChannelStep == IInv /\ IInv' /\ [Next]_vars => [Channel!ChanNext]_(Channel!chanVars)
<1> SUFFICES ASSUME IInv, IInv', [Next]_vars
             PROVE  Channel!ChanNext \/ UNCHANGED Channel!chanVars
  OBVIOUS
<1> USE DEF IInv
<1>a. ASSUME NEW t \in Callers, pc[t] \notin Inside \cup {"lockSend"},
             NEW l \in PCs \ (Inside \cup {"lockSend"}), Goto(t, l),
             UNCHANGED <<req, result>>
      PROVE  UNCHANGED Channel!chanVars
  BY <1>a, ChannelMoves DEF Goto, Channel!chanVars, ChannelState, Visible, TypeOK, PCs, Inside
<1>b. ASSUME NEW t \in Callers, pc[t] \in Inside, NEW l \in Inside, Goto(t, l),
             UNCHANGED <<req, result>>
      PROVE  UNCHANGED Channel!chanVars
  <2>1. l \in PCs /\ Visible(l) = "serving" /\ Visible(pc[t]) = "serving"
    BY <1>b DEF PCs, Inside, Visible
  <2>2. ChannelState' = [ChannelState EXCEPT ![t] = Visible(l)]
    BY <1>b, <2>1, ChannelMoves DEF Goto
  <2> QED
    BY <1>b, <2>1, <2>2 DEF Channel!chanVars, ChannelState
<1>c. ASSUME NEW t \in Callers, pc[t] \in Inside,
             NEW a \in Answers \cup {Response(req[t])}, Return(t, a)
      PROVE  Channel!Finish(t)
  <2>1. ChannelState' = [ChannelState EXCEPT ![t] = "idle"]
    <3>1. "idle" \in PCs /\ Visible("idle") = "idle"
      BY DEF PCs, Inside, Visible
    <3> QED
      BY <1>c, <3>1, ChannelMoves DEF Return, Goto
  <2>2. ChannelState[t] = "serving"
    BY <1>c DEF ChannelState, Inside, Visible
  <2> QED
    BY <1>c, <2>1, <2>2
       DEF Return, Channel!Finish, Channel!ResponseTo, Response, Answers
<1>d. UNCHANGED callVars => UNCHANGED Channel!chanVars
  BY DEF callVars, Channel!chanVars, ChannelState
<1>1. ASSUME NEW t \in Callers, Begin(t)
      PROVE  Channel!ChanNext \/ UNCHANGED Channel!chanVars
  <2>1. CASE BeginReset(t)
    BY <1>a, <2>1 DEF BeginReset, PCs, Inside
  <2>2. ASSUME NEW r \in Requests, BeginSend(t, r) PROVE Channel!Submit(t, r)
    <3>1. ChannelState' = [ChannelState EXCEPT ![t] = "queued"]
      BY <2>2, ChannelMoves DEF BeginSend, Goto, PCs, Visible
    <3>2. ChannelState[t] = "idle"
      BY <2>2 DEF BeginSend, ChannelState, Inside, Visible
    <3> QED
      BY <2>2, <3>1, <3>2 DEF BeginSend, Channel!Submit
  <2> QED
    BY <1>1, <2>1, <2>2 DEF Begin, Channel!ChanNext
<1>2. ASSUME NEW t \in Callers, Acquire(t)
      PROVE  Channel!ChanNext \/ UNCHANGED Channel!chanVars
  <2>1. CASE AcquireReset(t)
    BY <1>a, <2>1 DEF AcquireReset, PCs, Inside
  <2>2. CASE AcquireSend(t)
    <3>1. ChannelState' = [ChannelState EXCEPT ![t] = "serving"]
      BY <2>2, ChannelMoves DEF AcquireSend, Goto, PCs, Inside, Visible
    <3>2. ChannelState[t] = "queued"
      BY <2>2 DEF AcquireSend, ChannelState, Visible
    <3>3. \A u \in Callers : ChannelState[u] # "serving"
      BY <2>2, StreamAssumption DEF AcquireSend, ChannelState, Visible, Mutex, Critical
    <3>4. Channel!Serve(t)
      BY <2>2, <3>1, <3>2, <3>3 DEF AcquireSend, Channel!Serve
    <3> QED
      BY <3>4 DEF Channel!ChanNext
  <2> QED
    BY <1>2, <2>1, <2>2 DEF Acquire
<1>3. ASSUME NEW t \in Callers, Work(t)
      PROVE  Channel!ChanNext \/ UNCHANGED Channel!chanVars
  <2>1. CASE GiveUp(t)
    <3>1. Failure(prevErr) \in Answers
      BY <2>1 DEF GiveUp, CapReached, TypeOK, Codes, Answers
    <3> QED
      BY <1>c, <2>1, <3>1 DEF GiveUp, Inside, Channel!ChanNext
  <2>2. CASE Attempt(t) \/ KeepStream(t) \/ PrepareStream(t)
    BY <1>b, <2>2 DEF Attempt, KeepStream, PrepareStream, Inside
  <2>3. ASSUME NEW v \in Versions, OpenSucceeds(t, v)
        PROVE  UNCHANGED Channel!chanVars
    BY <1>b, <2>3 DEF OpenSucceeds, Inside
  <2>4. ASSUME NEW v \in Versions, NEW code \in Errs, OpenFails(t, v, code)
        PROVE  Channel!ChanNext
    <3>1. Failure(code) \in Answers
      BY DEF Answers
    <3> QED
      BY <1>c, <2>4, <3>1 DEF OpenFails, Inside, Channel!ChanNext
  <2>5. CASE OpenV1Unimplemented(t)
    BY <1>b, <2>5 DEF OpenV1Unimplemented, Inside
  <2>6. CASE OpenAlphaNilStub(t)
    BY <1>c, <2>6 DEF OpenAlphaNilStub, Inside, Answers, Channel!ChanNext
  <2>7. CASE SendSucceeds(t) \/ SendFails(t) \/ SendOnDeadStream(t) \/ RecvFails(t)
    BY <1>b, <2>7 DEF SendSucceeds, SendFails, SendOnDeadStream, RecvFails, Inside
  <2>8. CASE RecvResponse(t)
    <3>1. Head(stream.responses) = req[t]
      <4>1. connMu = t
        BY <2>8 DEF RecvResponse, Mutex, Critical, Inside
      <4>2. Carries(req[t])
        BY <2>8, <4>1 DEF RecvResponse, StreamInv, HolderInv
      <4>3. Head(<<req[t]>>) = req[t]
        OBVIOUS
      <4> QED
        BY <2>8, <4>2, <4>3 DEF RecvResponse, Carries
    <3> QED
      BY <1>c, <2>8, <3>1 DEF RecvResponse, Inside, Channel!ChanNext
  <2>9. CASE CloseSend(t)
    BY <1>a, <1>b, <2>9 DEF CloseSend, PCs, Inside
  <2>10. CASE DrainOne(t)
    BY <1>d, <2>10 DEF DrainOne
  <2>11. CASE DrainEnds(t)
    BY <1>b, <2>11 DEF DrainEnds, Inside
  <2>12. CASE ResetEnds(t)
    BY <1>a, <2>12 DEF ResetEnds, PCs, Inside
  <2> QED
    BY <1>3, <2>1, <2>2, <2>3, <2>4, <2>5, <2>6, <2>7, <2>8, <2>9, <2>10,
       <2>11, <2>12 DEF Work
<1>4. CASE Environment
  BY <1>d, <1>4 DEF Environment, ServerAnswers, ServerRejects, ServerEnds,
                    StreamBreaks, ServerUpgrades, Tick
<1>5. CASE UNCHANGED vars
  BY <1>d, <1>5 DEF vars
<1> QED
  BY <1>1, <1>2, <1>3, <1>4, <1>5 DEF Next

\* The client is a serial channel to its callers
\* (ReflectStream!ImplementsChannelSafely).
THEOREM Refinement == Spec => ImplementsChannelSafely
<1>1. Init => Channel!ChanInit
  BY DEF Init, Channel!ChanInit, ChannelState, Visible, Inside
<1>2. IInv /\ IInv' /\ [Next]_vars => [Channel!ChanNext]_(Channel!chanVars)
  BY ChannelStep
<1> QED
  BY <1>1, <1>2, Invariance, PTL
     DEF Spec, ImplementsChannelSafely, Channel!ChanSafety

-----------------------------------------------------------------------------
(* Three attempts are enough.  A call during which nothing fails can still   *)
(* lose its first attempt to a stream that went stale before it began, and   *)
(* its second to a v1 stream the server rejects, because the hourly retry of *)
(* v1 was due.  CleanInv says that this is all it can lose.                  *)

\* A working stream of a version that the server has.
Fresh == Served /\ stream.status = "OK"

\* A v1 stream that the server is going to reject, or has rejected, and that
\* will make the client fall back.
Doomed == /\ ~Served
          /\ stream.status \in {"OK", "Unimplemented", "Unavailable"}
          /\ ~useV1Alpha
          /\ stubs = Versions

\* doSendLocked is about to fall back to v1alpha.
Falling == /\ prevErr \in {"Unimplemented", "Unavailable"}
           /\ ~useV1Alpha
           /\ stubs = Versions

AlphaWorks == "v1alpha" \in stubs /\ "v1alpha" \in supports

CleanCall(t) ==
  /\ pc[t] = "openV1" => "v1" \in stubs /\ ("v1alpha" \in stubs => ~useV1Alpha)
  /\ pc[t] = "openAlpha" => AlphaWorks
  /\ pc[t] = "attempt" /\ attemptCount >= 1 => ~HasStream
  /\ pc[t] = "init" /\ attemptCount >= 2 => ~HasStream
  /\ attemptCount >= 2 /\ pc[t] \in {"send", "recv"} =>
       Fresh \/ (attemptCount = 2 /\ Doomed)
  /\ attemptCount >= 2 /\ pc[t] \in {"closeSend", "drain", "attempt"} =>
       attemptCount = 2 /\ Falling
  /\ attemptCount >= 3 =>
       /\ pc[t] = "init" => useV1Alpha /\ lastTriedV1 = clock /\ AlphaWorks
       /\ pc[t] # "openV1"

CleanInv ==
  /\ CleanCallSucceeds
  /\ \A t \in clean : connMu = t /\ pc[t] \in Inside => Usable /\ CleanCall(t)

LEMMA UsableStep == TypeOK /\ [Next]_vars /\ Usable => Usable'
BY DEF TypeOK, Usable, Next, Begin, BeginSend, BeginReset, Acquire, AcquireSend,
       AcquireReset, Work, GiveUp, Attempt, KeepStream, PrepareStream,
       OpenSucceeds, OpenFails, OpenV1Unimplemented, OpenAlphaNilStub,
       SendSucceeds, SendFails, SendOnDeadStream, RecvResponse, RecvFails,
       CloseSend, DrainOne, DrainEnds, ResetEnds, Environment, ServerAnswers,
       ServerRejects, ServerEnds, StreamBreaks, ServerUpgrades, Tick,
       vars, callVars, envVars, versionVars

\* A caller that waits to send has no result yet.
Waiting == \A t \in Callers : pc[t] = "lockSend" => result[t] = NoResult

LEMMA WaitingStep == TypeOK /\ Waiting /\ [Next]_vars => Waiting'
<1> SUFFICES ASSUME TypeOK, Waiting, [Next]_vars PROVE Waiting'
  OBVIOUS
<1> USE DEF TypeOK, Waiting, callVars, envVars, versionVars
<1>1. ASSUME NEW t \in Callers, Begin(t) PROVE Waiting'
  BY <1>1 DEF Begin, BeginSend, BeginReset, Goto
<1>2. ASSUME NEW t \in Callers, Acquire(t) PROVE Waiting'
  BY <1>2 DEF Acquire, AcquireSend, AcquireReset, Goto
<1>3. ASSUME NEW t \in Callers, Work(t) PROVE Waiting'
  BY <1>3 DEF Work, GiveUp, Attempt, KeepStream, PrepareStream, OpenSucceeds,
              OpenFails, OpenV1Unimplemented, OpenAlphaNilStub, SendSucceeds,
              SendFails, SendOnDeadStream, RecvResponse, RecvFails, CloseSend,
              DrainOne, DrainEnds, ResetEnds, Return, Goto
<1>4. CASE Environment
  BY <1>4 DEF Environment, ServerAnswers, ServerRejects, ServerEnds,
              StreamBreaks, ServerUpgrades, Tick
<1>5. CASE UNCHANGED vars
  BY <1>5 DEF vars
<1> QED
  BY <1>1, <1>2, <1>3, <1>4, <1>5 DEF Next

LEMMA CleanStep == IInv /\ Waiting /\ CleanInv /\ [Next]_vars => CleanInv'
<1> SUFFICES ASSUME IInv, Waiting, CleanInv, [Next]_vars PROVE CleanInv'
  OBVIOUS
<1>t. TypeOK /\ Mutex /\ StreamInv /\ (Usable => Usable')
  BY UsableStep DEF IInv
<1> USE DEF callVars, envVars, versionVars
\* A step of the holder t: only its own call is in question.
<1>w. ASSUME NEW t \in Callers, connMu = t, connMu' \in {t, Nobody},
             clean' \in SUBSET clean, UNCHANGED result,
             t \in clean' /\ connMu' = t /\ pc'[t] \in Inside => CleanCall(t)',
             t \in clean /\ connMu' = t /\ pc'[t] \in Inside => pc[t] \in Inside
      PROVE  CleanInv'
  <2>1. CleanCallSucceeds'
    BY <1>w DEF CleanInv, CleanCallSucceeds
  <2>2. ASSUME NEW u \in clean', connMu' = u, pc'[u] \in Inside
        PROVE  Usable' /\ CleanCall(u)'
    <3>1. u = t /\ u \in clean
      BY <1>t, <1>w, <2>2, StreamAssumption DEF TypeOK
    <3>2. CleanCall(u)'
      BY <1>w, <2>2, <3>1
    <3>3. Usable'
      BY <1>t, <1>w, <2>2, <3>1 DEF CleanInv
    <3> QED
      BY <3>2, <3>3
  <2> QED
    BY <2>1, <2>2 DEF CleanInv
\* A step after which the holder t has returned res.
<1>r. ASSUME NEW t \in Callers, NEW res \in Results, Return(t, res),
             clean' \in SUBSET clean, t \in clean' => res[1] = "resp"
      PROVE  CleanInv'
  BY <1>t, <1>r, StreamAssumption DEF CleanInv, CleanCallSucceeds, Return, TypeOK
\* A step of the environment.
<1>e. ASSUME UNCHANGED <<connMu, pc, result>>, clean' \in SUBSET clean,
             \A u \in clean' : connMu = u /\ pc[u] \in Inside /\ CleanCall(u)
                                 => CleanCall(u)'
      PROVE  CleanInv'
  BY <1>t, <1>e DEF CleanInv, CleanCallSucceeds, TypeOK
<1>h. ASSUME NEW t \in Callers, pc[t] \in Inside
      PROVE  /\ connMu = t /\ HolderInv(t)
             /\ t \in clean => Usable /\ CleanCall(t)
  BY <1>t, <1>h DEF Mutex, Critical, StreamInv, CleanInv
<1>1. ASSUME NEW t \in Callers, Begin(t) PROVE CleanInv'
  <2>1. /\ pc[t] = "idle" /\ pc'[t] \notin Inside
        /\ \A u \in Callers : u # t => pc'[u] = pc[u] /\ result'[u] = result[u]
        /\ result'[t] \in {result[t], NoResult}
        /\ UNCHANGED <<connMu, attemptCount, prevErr, stream, cancel,
                       versionVars, envVars, clean>>
    BY <1>1, <1>t DEF Begin, BeginSend, BeginReset, Goto, TypeOK, Inside
  <2>2. CleanCallSucceeds'
    BY <1>t, <2>1 DEF CleanInv, CleanCallSucceeds, TypeOK
  <2>3. ASSUME NEW u \in clean, connMu' = u, pc'[u] \in Inside
        PROVE  Usable' /\ CleanCall(u)'
    <3>1. u \in Callers /\ u # t /\ pc'[u] = pc[u]
      BY <1>t, <2>1, <2>3 DEF TypeOK
    <3>2. Usable /\ CleanCall(u)
      BY <2>1, <2>3, <3>1 DEF CleanInv
    <3>3. CleanCall(u)'
      BY <2>1, <3>1, <3>2
         DEF CleanCall, AlphaWorks, Fresh, Doomed, Falling, Served, HasStream
    <3> QED
      BY <1>t, <3>2, <3>3
  <2> QED
    BY <2>1, <2>2, <2>3 DEF CleanInv
<1>2. ASSUME NEW t \in Callers, Acquire(t) PROVE CleanInv'
  <2>1. CASE AcquireReset(t)
    <3>1. /\ connMu' = t /\ pc'[t] \notin Inside
          /\ UNCHANGED <<result, clean>>
      BY <1>t, <2>1 DEF AcquireReset, Goto, TypeOK, Inside
    <3> QED
      BY <3>1 DEF CleanInv, CleanCallSucceeds
  <2>2. CASE AcquireSend(t)
    <3>1. /\ connMu' = t /\ pc'[t] = "attempt" /\ attemptCount' = 0
          /\ UNCHANGED <<result, stubs, supports>>
          /\ result[t] = NoResult
      BY <1>t, <2>2 DEF AcquireSend, Goto, TypeOK, Waiting
    <3>2. (clean' = clean \cup {t} /\ Usable) \/ (clean' = clean \ {t})
      BY <2>2 DEF AcquireSend
    <3>3. CleanCallSucceeds'
      BY <3>1, <3>2 DEF CleanInv, CleanCallSucceeds
    <3>4. CleanCall(t)'
      BY <3>1 DEF CleanCall
    <3>5. t \in clean' => Usable'
      BY <1>t, <3>2
    <3>6. ASSUME NEW u \in clean', connMu' = u PROVE Usable' /\ CleanCall(u)'
      BY <3>1, <3>4, <3>5, <3>6
    <3> QED
      BY <3>3, <3>6 DEF CleanInv
  <2> QED
    BY <1>2, <2>1, <2>2 DEF Acquire
<1>3. ASSUME NEW t \in Callers, Work(t) PROVE CleanInv'
  <2>1. CASE GiveUp(t)
    <3>1. t \notin clean /\ Failure(prevErr) \in Results
      BY <1>h, <1>t, <2>1 DEF GiveUp, CapReached, MaxAttempts, CleanCall, Inside, TypeOK, Codes, Results
    <3> QED
      BY <1>r, <2>1, <3>1 DEF GiveUp
  <2>2. CASE Attempt(t)
    <3> DEFINE a == attemptCount
    <3>1. connMu = t /\ pc[t] = "attempt" /\ pc'[t] = "init" /\ attemptCount' = a + 1
      BY <1>h, <1>t, <2>2 DEF Attempt, Goto, Inside, TypeOK
    <3>2. ASSUME t \in clean PROVE CleanCall(t)'
      <4>1. a >= 1 => ~HasStream'
        BY <1>h, <2>2, <3>1, <3>2 DEF Attempt, Inside, CleanCall, HasStream
      <4>2. a >= 2 => a = 2 /\ useV1Alpha' /\ lastTriedV1' = clock' /\ AlphaWorks'
        <5> SUFFICES ASSUME a >= 2
                     PROVE  a = 2 /\ useV1Alpha' /\ lastTriedV1' = clock' /\ AlphaWorks'
          OBVIOUS
        <5>1. a = 2 /\ Falling /\ Usable
          BY <1>h, <3>1, <3>2 DEF Inside, CleanCall
        <5>2. FallBack
          BY <5>1 DEF Falling, FallBack, UseV1, Versions
        <5>3. AlphaWorks
          BY <5>1 DEF Falling, AlphaWorks, Usable, Versions
        <5> QED
          BY <2>2, <5>1, <5>2, <5>3 DEF Attempt, AlphaWorks
      <4> QED
        BY <1>t, <3>1, <4>1, <4>2 DEF CleanCall, TypeOK
    <3> QED
      BY <1>w, <2>2, <3>1, <3>2 DEF Attempt, Inside
  <2>3. CASE KeepStream(t)
    <3>1. connMu = t /\ pc[t] = "init" /\ pc'[t] = "send"
      BY <1>h, <1>t, <2>3 DEF KeepStream, Goto, Inside, TypeOK
    <3>2. t \in clean => ~(attemptCount >= 2)
      BY <1>h, <2>3, <3>1 DEF KeepStream, Inside, CleanCall
    <3>3. attemptCount \in Nat /\ attemptCount' = attemptCount
      BY <1>t, <2>3 DEF KeepStream, TypeOK
    <3>4. t \in clean => CleanCall(t)'
      BY <3>1, <3>2, <3>3 DEF CleanCall
    <3> QED
      BY <1>w, <2>3, <3>1, <3>4 DEF KeepStream, Inside
  <2>4. CASE PrepareStream(t)
    <3>1. /\ connMu = t /\ pc[t] = "init" /\ ~HasStream
          /\ pc'[t] = IF UseV1(useV1Alpha') THEN "openV1" ELSE "openAlpha"
      BY <1>h, <1>t, <2>4 DEF PrepareStream, Goto, Inside, TypeOK
    <3>2. ASSUME t \in clean PROVE CleanCall(t)'
      <4>1. Usable /\ CleanCall(t)
        BY <1>h, <3>1, <3>2 DEF Inside
      <4>2. pc'[t] = "openV1" => "v1" \in stubs /\ ("v1alpha" \in stubs => ~useV1Alpha')
        BY <1>t, <3>1 DEF UseV1, TypeOK, Versions
      <4>3. pc'[t] = "openAlpha" => AlphaWorks
        BY <3>1, <4>1 DEF UseV1, AlphaWorks, Usable
      <4>4. attemptCount >= 3 => pc'[t] # "openV1"
        <5> SUFFICES ASSUME attemptCount >= 3 PROVE pc'[t] # "openV1"
          OBVIOUS
        <5>1. useV1Alpha /\ lastTriedV1 = clock /\ AlphaWorks
          BY <3>1, <4>1 DEF CleanCall
        <5>2. ~DueForV1
          BY <1>t, <5>1, StreamAssumption DEF DueForV1, TypeOK
        <5>3. useV1Alpha' = useV1Alpha
          BY <2>4, <5>2 DEF PrepareStream
        <5> QED
          BY <4>2, <5>1, <5>3 DEF AlphaWorks
      <4>5. pc'[t] \in {"openV1", "openAlpha"} /\ UNCHANGED <<attemptCount, stubs, supports>>
        BY <2>4, <3>1 DEF PrepareStream
      <4> QED
        BY <4>2, <4>3, <4>4, <4>5 DEF CleanCall, AlphaWorks
    <3> QED
      BY <1>w, <2>4, <3>1, <3>2 DEF PrepareStream, Inside
  <2>5. ASSUME NEW v \in Versions, OpenSucceeds(t, v) PROVE CleanInv'
    <3>1. /\ connMu = t /\ pc'[t] = "send"
          /\ pc[t] = IF v = "v1" THEN "openV1" ELSE "openAlpha"
          /\ UNCHANGED <<attemptCount, stubs, supports, useV1Alpha>>
      BY <1>h, <1>t, <2>5 DEF OpenSucceeds, Goto, Inside, TypeOK
    <3>2. stream'.status = "OK" /\ (v \in supports => Served') /\ (v \notin supports => ~Served')
      BY <2>5 DEF OpenSucceeds, NewStream, NoStream, Served
    <3>3. ASSUME t \in clean, attemptCount >= 2
          PROVE  Fresh' \/ (attemptCount = 2 /\ Doomed')
      <4>1. Usable /\ CleanCall(t)
        BY <1>h, <3>1, <3>3 DEF Inside
      <4>2. CASE v \in supports
        BY <3>2, <4>2 DEF Fresh
      <4>3. CASE v \notin supports
        <5>1. v = "v1" /\ pc[t] = "openV1"
          BY <3>1, <4>1, <4>3 DEF CleanCall, AlphaWorks, Versions
        <5>2. "v1" \in stubs /\ stubs = Versions /\ ~useV1Alpha /\ ~(attemptCount >= 3)
          BY <1>t, <4>1, <4>3, <5>1 DEF CleanCall, Usable, TypeOK, Versions
        <5> QED
          BY <1>t, <3>1, <3>2, <3>3, <4>3, <5>2 DEF Doomed, TypeOK
      <4> QED
        BY <4>2, <4>3
    <3>4. t \in clean => CleanCall(t)'
      BY <3>1, <3>3 DEF CleanCall
    <3> QED
      BY <1>w, <2>5, <3>1, <3>4 DEF OpenSucceeds, Inside, Versions
  <2>6. ASSUME NEW v \in Versions, NEW code \in Errs, OpenFails(t, v, code)
        PROVE  CleanInv'
    <3>1. Failure(code) \in Results /\ pc[t] \in Inside
      BY <2>6 DEF OpenFails, Results, Inside
    <3>2. t \notin clean'
      BY <1>h, <2>6, <3>1 DEF OpenFails, CleanCall, AlphaWorks
    <3> QED
      BY <1>r, <2>6, <3>1, <3>2 DEF OpenFails
  <2>7. CASE OpenV1Unimplemented(t)
    <3>1. /\ connMu = t /\ pc[t] = "openV1" /\ pc'[t] = "openAlpha"
          /\ UNCHANGED <<attemptCount, stubs, supports>>
      BY <1>h, <1>t, <2>7 DEF OpenV1Unimplemented, Goto, Inside, TypeOK
    <3>2. ASSUME t \in clean PROVE CleanCall(t)'
      <4>1. Usable
        BY <1>h, <3>1, <3>2 DEF Inside
      <4>2. AlphaWorks
        BY <2>7, <4>1 DEF OpenV1Unimplemented, Usable, AlphaWorks
      <4> QED
        BY <3>1, <4>2 DEF CleanCall, AlphaWorks
    <3> QED
      BY <1>w, <2>7, <3>1, <3>2 DEF OpenV1Unimplemented, Inside
  <2>8. CASE OpenAlphaNilStub(t)
    <3>1. Panic \in Results /\ pc[t] \in Inside
      BY <2>8 DEF OpenAlphaNilStub, Results, Inside
    <3>2. t \notin clean
      BY <1>h, <2>8, <3>1 DEF OpenAlphaNilStub, CleanCall, AlphaWorks
    <3> QED
      BY <1>r, <2>8, <3>1, <3>2 DEF OpenAlphaNilStub
  <2>9. CASE SendSucceeds(t)
    <3>1. /\ connMu = t /\ pc[t] = "send" /\ pc'[t] = "recv"
          /\ UNCHANGED <<attemptCount, stubs, supports, useV1Alpha>>
      BY <1>h, <1>t, <2>9 DEF SendSucceeds, Goto, Inside, TypeOK
    <3>2. stream'.served = stream.served /\ stream'.status = stream.status
      BY <1>t, <2>9 DEF SendSucceeds, RequestSent, TypeOK, Streams
    <3>3. (Fresh => Fresh') /\ (Doomed => Doomed')
      BY <3>1, <3>2 DEF Fresh, Doomed, Served
    <3>4. t \in clean => CleanCall(t)'
      BY <1>h, <3>1, <3>3 DEF CleanCall, Inside
    <3> QED
      BY <1>w, <2>9, <3>1, <3>4 DEF SendSucceeds, Inside
  <2>10. CASE SendFails(t)
    <3>1. /\ connMu = t /\ pc[t] = "send" /\ connMu' = t
          /\ clean' = clean \ {t} /\ UNCHANGED result
      BY <1>h, <2>10 DEF SendFails, Inside
    <3> QED
      BY <1>w, <3>1 DEF Inside
  <2>11. CASE SendOnDeadStream(t)
    <3>1. /\ connMu = t /\ pc[t] = "send" /\ pc'[t] = "closeSend"
          /\ Quiet /\ stream.status # "OK" /\ prevErr' = stream.status
          /\ UNCHANGED <<attemptCount, stubs, supports, useV1Alpha>>
      BY <1>h, <1>t, <2>11 DEF SendOnDeadStream, HolderInv, Quiet, Goto, Inside, TypeOK
    <3>2. ASSUME t \in clean, attemptCount >= 2
          PROVE  attemptCount = 2 /\ Falling'
      <4>1. attemptCount = 2 /\ Doomed
        BY <1>h, <3>1, <3>2 DEF Inside, CleanCall, Fresh
      <4> QED
        BY <3>1, <4>1 DEF Doomed, Falling
    <3>3. t \in clean => CleanCall(t)'
      BY <3>1, <3>2, <1>t DEF CleanCall, TypeOK
    <3> QED
      BY <1>w, <2>11, <3>1, <3>3 DEF SendOnDeadStream, Inside
  <2>12. CASE RecvResponse(t)
    <3>1. Head(stream.responses) \in Requests
      BY <1>t, <2>12, ResponseType DEF RecvResponse, TypeOK
    <3>2. Response(Head(stream.responses)) \in Results
      BY <3>1 DEF Results
    <3> QED
      BY <1>r, <2>12, <3>2 DEF RecvResponse, Response
  <2>13. CASE RecvFails(t)
    <3>1. /\ connMu = t /\ pc[t] = "recv" /\ pc'[t] = "closeSend"
          /\ stream.status # "OK" /\ prevErr' = stream.status
          /\ UNCHANGED <<attemptCount, stubs, supports, useV1Alpha>>
      BY <1>h, <1>t, <2>13 DEF RecvFails, Goto, Inside, TypeOK
    <3>2. ASSUME t \in clean, attemptCount >= 2
          PROVE  attemptCount = 2 /\ Falling'
      <4>1. attemptCount = 2 /\ Doomed
        BY <1>h, <3>1, <3>2 DEF Inside, CleanCall, Fresh
      <4> QED
        BY <3>1, <4>1 DEF Doomed, Falling
    <3>3. t \in clean => CleanCall(t)'
      BY <3>1, <3>2, <1>t DEF CleanCall, TypeOK
    <3> QED
      BY <1>w, <2>13, <3>1, <3>3 DEF RecvFails, Inside
  <2>14. CASE CloseSend(t)
    <3>1. CASE pc[t] = "resetClose"
      <4>1. connMu = t /\ pc'[t] \notin Inside /\ UNCHANGED <<connMu, result, clean>>
        BY <1>t, <2>14, <3>1 DEF CloseSend, Goto, Inside, TypeOK, Mutex, Critical
      <4> QED
        BY <1>w, <4>1
    <3>2. CASE pc[t] = "closeSend"
      <4>1. /\ connMu = t /\ pc'[t] = "drain"
            /\ UNCHANGED <<attemptCount, prevErr, stubs, supports, useV1Alpha>>
        BY <1>h, <1>t, <2>14, <3>2 DEF CloseSend, Goto, Inside, TypeOK
      <4>2. t \in clean => CleanCall(t)'
        BY <1>h, <3>2, <4>1 DEF CleanCall, Falling, Inside
      <4> QED
        BY <1>w, <2>14, <3>2, <4>1, <4>2 DEF CloseSend, Inside
    <3> QED
      BY <2>14, <3>1, <3>2 DEF CloseSend
  <2>15. CASE DrainOne(t)
    <3>1. /\ connMu = t /\ pc[t] \in {"drain", "resetDrain"}
          /\ UNCHANGED <<callVars, stubs, useV1Alpha, clean>>
      BY <1>t, <2>15 DEF DrainOne, Mutex, Critical, Inside
    <3>2. t \in clean /\ pc[t] = "drain" => CleanCall(t)'
      BY <1>h, <3>1 DEF CleanCall, Falling, Inside
    <3> QED
      BY <1>w, <3>1, <3>2 DEF Inside
  <2>16. CASE DrainEnds(t)
    <3>1. /\ connMu = t /\ pc[t] = "drain" /\ pc'[t] = "attempt" /\ ~HasStream'
          /\ UNCHANGED <<attemptCount, prevErr, stubs, supports, useV1Alpha>>
      BY <1>h, <1>t, <2>16 DEF DrainEnds, Goto, Inside, TypeOK, HasStream, NoStream
    <3>2. t \in clean => CleanCall(t)'
      BY <1>h, <3>1 DEF CleanCall, Falling, Inside
    <3> QED
      BY <1>w, <2>16, <3>1, <3>2 DEF DrainEnds, Inside
  <2>17. CASE ResetEnds(t)
    <3>1. connMu = t /\ connMu' = Nobody /\ UNCHANGED <<result, clean>>
      BY <1>t, <2>17 DEF ResetEnds, Mutex, Critical
    <3> QED
      BY <1>w, <1>t, <3>1, StreamAssumption
  <2> QED
    BY <1>3, <2>1, <2>2, <2>3, <2>4, <2>5, <2>6, <2>7, <2>8, <2>9, <2>10,
       <2>11, <2>12, <2>13, <2>14, <2>15, <2>16, <2>17 DEF Work
<1>4. CASE Environment
  \* The environment moves only what is on the stream.
  <2>s. ASSUME UNCHANGED <<connMu, pc, result, attemptCount, prevErr, useV1Alpha,
                           lastTriedV1, stubs, supports, clock>>,
               clean' \in SUBSET clean, HasStream' = HasStream,
               \A u \in clean' : connMu = u /\ pc[u] \in {"send", "recv"} =>
                 (Fresh => Fresh') /\ (Doomed => Doomed')
        PROVE  CleanInv'
    <3>1. ASSUME NEW u \in clean', connMu = u, pc[u] \in Inside, CleanCall(u)
          PROVE  CleanCall(u)'
      BY <2>s, <3>1 DEF CleanCall, AlphaWorks, Falling
    <3> QED
      BY <1>e, <2>s, <3>1
  <2>1. CASE ServerAnswers
    <3>1. /\ stream'.ver = stream.ver /\ stream'.served = stream.served
          /\ stream'.status = stream.status
      BY <1>t, <2>1 DEF ServerAnswers, TypeOK, Streams
    <3>2. (Fresh => Fresh') /\ (Doomed => Doomed') /\ HasStream' = HasStream
      BY <2>1, <3>1 DEF ServerAnswers, Fresh, Doomed, Served, HasStream
    <3> QED
      BY <2>1, <2>s, <3>2 DEF ServerAnswers
  <2>2. CASE ServerRejects
    <3>1. /\ stream'.ver = stream.ver /\ stream'.served = stream.served
          /\ stream'.status \in {"Unimplemented", "Unavailable"}
      BY <1>t, <2>2 DEF ServerRejects, TypeOK, Streams
    <3>2. (Fresh => Fresh') /\ (Doomed => Doomed') /\ HasStream' = HasStream
      BY <2>2, <3>1 DEF ServerRejects, Fresh, Doomed, Served, HasStream
    <3> QED
      BY <2>2, <2>s, <3>2 DEF ServerRejects
  <2>3. CASE ServerEnds
    <3>1. stream'.ver = stream.ver
      BY <1>t, <2>3 DEF ServerEnds, TypeOK, Streams
    <3>2. HasStream' = HasStream
      BY <3>1 DEF HasStream
    <3>3. ASSUME NEW u \in clean, connMu = u, pc[u] \in {"send", "recv"}
          PROVE  FALSE
      BY <1>t, <2>3, <3>3
         DEF ServerEnds, StreamInv, HolderInv, Quiet, Carries, TypeOK
    <3> QED
      BY <2>3, <2>s, <3>2, <3>3 DEF ServerEnds
  <2>4. CASE StreamBreaks
    <3>1. stream'.ver = stream.ver
      BY <1>t, <2>4 DEF StreamBreaks, TypeOK, Streams
    <3>2. HasStream' = HasStream /\ clean' = clean \ {connMu}
      BY <2>4, <3>1 DEF HasStream, StreamBreaks
    <3> QED
      BY <2>4, <2>s, <3>2 DEF StreamBreaks
  <2>5. CASE ServerUpgrades
    <3>1. ASSUME NEW u \in clean, CleanCall(u) PROVE CleanCall(u)'
      BY <2>5, <3>1 DEF ServerUpgrades, CleanCall, AlphaWorks, Falling, Fresh,
                        Doomed, Served, HasStream
    <3> QED
      BY <1>e, <2>5, <3>1 DEF ServerUpgrades
  <2>6. CASE Tick
    <3>1. ASSUME NEW u \in clean, CleanCall(u) PROVE CleanCall(u)'
      <4>1. u \in Callers /\ pc[u] # "init"
        BY <1>t, <2>6 DEF Tick, TypeOK
      <4> QED
        BY <2>6, <3>1, <4>1 DEF Tick, CleanCall, AlphaWorks, Falling, Fresh,
                                Doomed, Served, HasStream
    <3> QED
      BY <1>e, <2>6, <3>1 DEF Tick
  <2> QED
    BY <1>4, <2>1, <2>2, <2>3, <2>4, <2>5, <2>6 DEF Environment
<1>5. CASE UNCHANGED vars
  <2>1. ASSUME NEW u \in clean, CleanCall(u) PROVE CleanCall(u)'
    BY <1>5, <2>1 DEF vars, CleanCall, AlphaWorks, Falling, Fresh, Doomed,
                      Served, HasStream
  <2> QED
    BY <1>5, <1>e, <2>1 DEF vars
<1> QED
  BY <1>1, <1>2, <1>3, <1>4, <1>5 DEF Next

\* Three attempts are enough for every call during which nothing fails
\* (ReflectStream!CleanCallSucceeds).
THEOREM CleanCallsSucceed == Spec => []CleanCallSucceeds
<1>1. Init => Waiting /\ CleanInv
  BY StreamAssumption DEF Init, Waiting, CleanInv, CleanCallSucceeds
<1>2. IInv /\ Waiting /\ CleanInv /\ [Next]_vars => Waiting' /\ CleanInv'
  BY CleanStep, WaitingStep DEF IInv
<1>3. CleanInv => CleanCallSucceeds
  BY DEF CleanInv
<1> QED
  BY <1>1, <1>2, <1>3, Invariance, PTL DEF Spec
=============================================================================
