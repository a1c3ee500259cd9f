------------------------ MODULE Camera3Buffers_proofs ------------------------
(***************************************************************************)
(* Proofs about Camera3Buffers, for any streams, limits, configurations    *)
(* and numbers of captures: no buffer is lost, and a stream that was       *)
(* removed owns none.                                                      *)
(***************************************************************************)
EXTENDS Camera3Buffers, TLAPS

CallType == [stage : {"none", "called", "answered"}, req : Requests, status : Status,
             late : BOOLEAN, each : [Streams -> StreamStatus]]

\* Functions and records have their domains, which TypeOK does not say.
Shape ==
    /\ out \in [Streams -> Nat] /\ held \in [Streams -> Nat] /\ pending \in [Streams -> Nat]
    /\ call \in CallType

\* The part of TypeOK that is about numbers.
CountsOK ==
    \A s \in Streams : /\ out[s] \in 0..MaxBuffers[s]
                       /\ pending[s] \in 0..MaxCaptures
                       /\ held[s] \in 0..MaxBuffers[s]

\* What the service knows of the streams that it is about to remove.
DesignatedEmpty ==
    /\ phase # "running" => config \ next \subseteq designated
    /\ phase = "configuring" => \A s \in designated : out[s] = 0

BuffersInv == TypeOK /\ Shape /\ BooksAgree /\ DesignatedEmpty /\ RemovedOwnsNothing

-----------------------------------------------------------------------------
(* The operators                                                           *)

LEMMA Limits ==
    /\ NULL \notin Streams
    /\ MaxCaptures \in Nat
    /\ \A s \in Streams : MaxBuffers[s] \in Nat /\ MaxBuffers[s] > 0
  BY BuffersAssumption

LEMMA RequestType ==
    ASSUME NEW r \in Requests
    PROVE  r \in [Streams -> Nat] /\ \A s \in Streams : r[s] <= MaxBuffers[s]
  BY BuffersAssumption DEF Requests

LEMMA NoRequestType == NoRequest \in Requests
  <1>1. \A s \in Streams : 0 \in 0..MaxBuffers[s]
    BY BuffersAssumption
  <1>2. NoRequest \in [Streams -> UNION {0..MaxBuffers[s] : s \in Streams}]
    BY <1>1 DEF NoRequest
  <1>3. QED
    BY <1>2, BuffersAssumption DEF Requests, NoRequest

LEMMA IdleType == Idle \in CallType
  BY NoRequestType DEF Idle, CallType, Status, StreamStatus

LEMMA GrantedType ==
    ASSUME Shape, NEW s \in Streams
    PROVE  Granted(s) \in Nat
  BY RequestType DEF Shape, CallType, Granted

\* An answer refuses a stream whose name it does not carry, and grants what
\* the limit allows.
LEMMA StatusIsRight ==
    ASSUME NEW s \in Streams, NEW n \in Nat, NEW status \in StatusOf(s, n), Shape
    PROVE  /\ status \in StreamStatus
           /\ status = "OK" => s \in config /\ out[s] + n <= MaxBuffers[s]
  BY BuffersAssumption DEF StatusOf, StreamStatus, Shape

LEMMA OverallType ==
    ASSUME NEW each, NEW asked
    PROVE  /\ Overall(each, asked) \in Status
           /\ \A s \in asked : each[s] = "OK" => Overall(each, asked) \in {"OK", "FAILED_PARTIAL"}
  BY DEF Overall, Status

-----------------------------------------------------------------------------
(* The invariant                                                           *)

LEMMA InitInv == Init => BuffersInv
  <1> SUFFICES ASSUME Init PROVE BuffersInv
    OBVIOUS
  <1>1. Shape
    BY IdleType DEF Init, Shape
  <1>2. \A s \in Streams : out[s] = 0 /\ held[s] = 0 /\ pending[s] = 0 /\ returning # s
    BY Limits DEF Init
  <1>3. CountsOK
    <2> SUFFICES ASSUME NEW s \in Streams
                 PROVE  0 \in 0..MaxBuffers[s] /\ 0 \in 0..MaxCaptures
      BY <1>2 DEF CountsOK
    <2>1. QED
      BY Limits
  <1>4. TypeOK
    <2>1. /\ phase \in {"running", "quiescing", "configuring"}
          /\ config \subseteq Streams /\ next \subseteq Streams /\ designated \subseteq config
          /\ disconnected \subseteq Streams /\ known \subseteq Streams
          /\ signalled \subseteq Streams /\ starved \subseteq Streams
          /\ returning \in Streams \cup {NULL} /\ told \in BOOLEAN
      BY DEF Init
    <2>2. /\ call.stage \in {"none", "called", "answered"} /\ call.req \in Requests
          /\ call.status \in Status /\ call.late \in BOOLEAN
          /\ call.each \in [Streams -> StreamStatus]
      BY <1>1 DEF Shape, CallType
    <2>3. QED
      BY <1>3, <2>1, <2>2 DEF TypeOK, CountsOK
  <1>5. BooksAgree
    <2>1. \A s \in Streams : Granted(s) = 0
      BY DEF Init, Granted, Idle
    <2>2. ASSUME NEW s \in Streams
          PROVE  out[s] = held[s] + Granted(s) + (IF returning = s THEN 1 ELSE 0)
      <3>1. (IF returning = s THEN 1 ELSE 0) = 0
        BY <1>2
      <3>2. out[s] = 0 /\ held[s] = 0 /\ Granted(s) = 0
        BY <1>2, <2>1
      <3>3. QED
        BY <3>1, <3>2
    <2>3. QED
      BY <2>2 DEF BooksAgree
  <1>6. DesignatedEmpty /\ RemovedOwnsNothing
    BY DEF Init, DesignatedEmpty, RemovedOwnsNothing
  <1>7. QED
    BY <1>1, <1>4, <1>5, <1>6 DEF BuffersInv

LEMMA ServiceInv ==
    ASSUME BuffersInv,
           \/ \E s \in Streams : process_capture_request(s) \/ Disconnect(s)
           \/ \E change \in Changes : Quiesce(change[1], change[2])
           \/ signal_stream_flush \/ configure_streams
    PROVE  BuffersInv'
  <1> USE DEF BuffersInv
  <1>1. ASSUME NEW s \in Streams, process_capture_request(s)
        PROVE  BuffersInv'
    BY <1>1, BuffersAssumption
       DEF process_capture_request, TypeOK, Shape, BooksAgree, DesignatedEmpty,
           RemovedOwnsNothing, Granted, serviceVars, halVars
  <1>2. ASSUME NEW s \in Streams, Disconnect(s)
        PROVE  BuffersInv'
    BY <1>2, BuffersAssumption
       DEF Disconnect, TypeOK, Shape, BooksAgree, DesignatedEmpty,
           RemovedOwnsNothing, Granted, serviceVars, halVars
  <1>3. ASSUME NEW change \in Changes, Quiesce(change[1], change[2])
        PROVE  BuffersInv'
    <2>1. change[1] \subseteq Streams /\ change[2] \subseteq Streams
      BY BuffersAssumption
    <2>2. QED
      BY <1>3, <2>1
         DEF Quiesce, TypeOK, Shape, BooksAgree, DesignatedEmpty,
             RemovedOwnsNothing, Granted, serviceVars, halVars
  <1>4. CASE signal_stream_flush
    BY <1>4
       DEF signal_stream_flush, TypeOK, Shape, BooksAgree, DesignatedEmpty,
           RemovedOwnsNothing, Granted, serviceVars, halVars
  <1>5. CASE configure_streams
    BY <1>5
       DEF configure_streams, TypeOK, Shape, BooksAgree, DesignatedEmpty,
           RemovedOwnsNothing, Granted, serviceVars, halVars
  <1>6. QED
    BY <1>1, <1>2, <1>3, <1>4, <1>5

\* Streams that go were designated, and are empty by now.
LEMMA ReconfigureInv ==
    ASSUME BuffersInv, configure_streams_returns
    PROVE  BuffersInv'
  <1> USE DEF BuffersInv
  <1>1. call' = [call EXCEPT !.late = (call.stage # "none")] /\ call' \in CallType
    BY DEF configure_streams_returns, Shape, CallType
  <1>2. TypeOK'
    BY <1>1 DEF configure_streams_returns, TypeOK, Shape, CallType
  <1>3. Shape'
    BY <1>1 DEF configure_streams_returns, Shape
  <1>4. \A s \in Streams : Granted(s)' = Granted(s)
    BY <1>1 DEF Granted, Shape, CallType
  <1>5. BooksAgree'
    BY <1>4 DEF configure_streams_returns, BooksAgree
  <1>6. ASSUME NEW s \in Streams, s \notin next
        PROVE  out[s] = 0 /\ held[s] = 0
    <2>1. out[s] = 0
      BY <1>6 DEF configure_streams_returns, DesignatedEmpty, RemovedOwnsNothing
    <2>2. QED
      BY <2>1, GrantedType DEF BooksAgree, Shape
  <1>7. RemovedOwnsNothing' /\ DesignatedEmpty'
    BY <1>6 DEF configure_streams_returns, RemovedOwnsNothing, DesignatedEmpty
  <1>8. QED
    BY <1>2, <1>3, <1>5, <1>7

\* The answer carries what the service counts as handed out.
LEMMA AnswerInv ==
    ASSUME BuffersInv, request_stream_buffers_answered
    PROVE  BuffersInv'
  <1> USE DEF BuffersInv
  <1>1. call.stage = "called" /\ \A s \in Streams : Granted(s) = 0
    BY DEF request_stream_buffers_answered, Granted
  <1>2. CASE \E status \in Status \ {"OK", "FAILED_PARTIAL"} : Refuse(status)
    <2>1. PICK status \in Status \ {"OK", "FAILED_PARTIAL"} : Refuse(status)
      BY <1>2
    <2>2. call' = [call EXCEPT !.stage = "answered", !.status = status] /\ call' \in CallType
      BY <2>1 DEF Refuse, Shape, CallType
    <2>3. \A s \in Streams : Granted(s)' = 0
      BY <2>2 DEF Granted, Shape, CallType
    <2>4. TypeOK' /\ Shape'
      BY <2>1, <2>2
         DEF Refuse, request_stream_buffers_answered, TypeOK, Shape, CallType, serviceVars, halVars
    <2>5. BooksAgree' /\ DesignatedEmpty' /\ RemovedOwnsNothing'
      BY <1>1, <2>1, <2>3
         DEF Refuse, request_stream_buffers_answered, BooksAgree, DesignatedEmpty,
             RemovedOwnsNothing, serviceVars, halVars
    <2>6. QED
      BY <2>4, <2>5
  <1>3. CASE phase # "configuring" /\ Grant
    <2>1. PICK each \in [Streams -> StreamStatus] :
             /\ \A s \in Streams : IF call.req[s] = 0 THEN each[s] = "OK"
                                   ELSE each[s] \in StatusOf(s, call.req[s])
             /\ call' = [call EXCEPT !.stage = "answered", !.each = each,
                                     !.status = Overall(each, Asked(call.req))]
             /\ out' = [s \in Streams |-> IF each[s] = "OK" THEN out[s] + call.req[s] ELSE out[s]]
      BY <1>3 DEF Grant
    <2>2. call.req \in [Streams -> Nat]
      BY RequestType DEF Shape, CallType
    <2>3. Overall(each, Asked(call.req)) \in Status
      BY OverallType
    <2>4. call' \in CallType
      BY <2>1, <2>3 DEF Shape, CallType
    <2>5. \A s \in Streams : Granted(s)' = IF each[s] = "OK" THEN call.req[s] ELSE 0
      <3>1. SUFFICES ASSUME NEW s \in Streams
                     PROVE  Granted(s)' = IF each[s] = "OK" THEN call.req[s] ELSE 0
        OBVIOUS
      <3>2. /\ call'.stage = "answered" /\ call'.each = each /\ call'.req = call.req
            /\ call'.status = Overall(each, Asked(call.req))
        BY <2>1 DEF Shape, CallType
      <3>3. CASE call.req[s] > 0 /\ each[s] = "OK"
        BY <3>2, <3>3, OverallType DEF Granted, Asked
      <3>4. CASE call.req[s] = 0
        BY <3>2, <3>4 DEF Granted
      <3>5. CASE each[s] # "OK"
        BY <3>2, <3>5 DEF Granted
      <3>6. QED
        BY <2>2, <3>3, <3>4, <3>5
    <2>6. \A s \in Streams : out'[s] \in 0..MaxBuffers[s] /\ (s \notin config => out'[s] = out[s])
      <3>1. SUFFICES ASSUME NEW s \in Streams
                     PROVE  /\ out'[s] \in 0..MaxBuffers[s]
                            /\ s \notin config => out'[s] = out[s]
        OBVIOUS
      <3>2. out[s] \in 0..MaxBuffers[s] /\ MaxBuffers[s] \in Nat
        BY BuffersAssumption DEF TypeOK
      <3>3. CASE call.req[s] = 0 \/ each[s] # "OK"
        BY <2>1, <3>2, <3>3
      <3>4. CASE call.req[s] # 0 /\ each[s] = "OK"
        <4>1. "OK" \in StatusOf(s, call.req[s])
          BY <2>1, <3>4
        <4>2. s \in config /\ out[s] + call.req[s] <= MaxBuffers[s]
          BY <2>2, <4>1, StatusIsRight
        <4>3. QED
          BY <2>1, <2>2, <3>2, <3>4, <4>2
      <3>5. QED
        BY <3>3, <3>4
    <2>7. TypeOK' /\ Shape'
      <3>1. out' \in [Streams -> Nat]
        BY <2>1, <2>2 DEF Shape
      <3>2. Shape'
        BY <2>4, <3>1 DEF request_stream_buffers_answered, Shape
      <3>3. CountsOK'
        BY <2>6 DEF request_stream_buffers_answered, TypeOK, CountsOK
      <3>4. TypeOK'
        BY <2>4, <3>3
           DEF request_stream_buffers_answered, TypeOK, CountsOK, CallType, serviceVars, halVars
      <3>5. QED
        BY <3>2, <3>4
    <2>8. BooksAgree'
      BY <1>1, <2>1, <2>2, <2>5 DEF request_stream_buffers_answered, BooksAgree, Shape
    <2>9. DesignatedEmpty' /\ RemovedOwnsNothing'
      BY <1>3, <2>6
         DEF request_stream_buffers_answered, DesignatedEmpty, RemovedOwnsNothing, serviceVars
    <2>10. QED
      BY <2>7, <2>8, <2>9
  <1>4. QED
    BY <1>2, <1>3 DEF request_stream_buffers_answered, Status

LEMMA HalInv ==
    ASSUME BuffersInv,
           \/ \E s \in Streams : \/ process_capture_result(s) \/ ErrorRequest(s)
                                \/ return_stream_buffers(s)
           \/ \E req \in Requests : request_stream_buffers(req)
           \/ request_stream_buffers_returns
           \/ return_stream_buffers_done
    PROVE  BuffersInv'
  <1> USE DEF BuffersInv
  <1>1. ASSUME NEW s \in Streams, process_capture_result(s)
        PROVE  BuffersInv'
    <2>1. out[s] > 0
      BY <1>1, GrantedType DEF process_capture_result, BooksAgree, Shape
    <2>2. \A x \in Streams : Granted(x)' = Granted(x)
      BY <1>1 DEF process_capture_result, Granted
    <2>3. TypeOK' /\ Shape'
      <3>1. Shape'
        BY <1>1, <2>1 DEF process_capture_result, Shape
      <3>2. CountsOK'
        BY <1>1, <2>1, Limits DEF process_capture_result, TypeOK, Shape, CountsOK
      <3>3. TypeOK'
        BY <1>1, <2>1, <3>2 DEF process_capture_result, TypeOK, CountsOK, serviceVars, halVars
      <3>4. QED
        BY <3>1, <3>3
    <2>4. BooksAgree'
      BY <1>1, <2>2, GrantedType DEF process_capture_result, BooksAgree, Shape
    <2>5. DesignatedEmpty' /\ RemovedOwnsNothing'
      BY <1>1, <2>1
         DEF process_capture_result, DesignatedEmpty, RemovedOwnsNothing, Shape, serviceVars
    <2>6. QED
      BY <2>3, <2>4, <2>5
  <1>2. ASSUME NEW s \in Streams, ErrorRequest(s)
        PROVE  BuffersInv'
    <2>1. pending[s] > 0
      BY <1>2 DEF ErrorRequest, Needs, Shape
    <2>2. QED
      BY <1>2, <2>1, BuffersAssumption
         DEF ErrorRequest, TypeOK, Shape, BooksAgree, DesignatedEmpty, RemovedOwnsNothing,
             Granted, serviceVars, halVars
  <1>3. ASSUME NEW s \in Streams, return_stream_buffers(s)
        PROVE  BuffersInv'
    <2>1. \A x \in Streams : Granted(x)' = Granted(x)
      BY <1>3 DEF return_stream_buffers, Granted
    <2>2. TypeOK' /\ Shape'
      <3>1. Shape'
        BY <1>3 DEF return_stream_buffers, Shape
      <3>2. CountsOK'
        BY <1>3, Limits DEF return_stream_buffers, TypeOK, Shape, CountsOK
      <3>3. TypeOK'
        BY <1>3, <3>2 DEF return_stream_buffers, TypeOK, CountsOK, serviceVars, halVars
      <3>4. QED
        BY <3>1, <3>3
    <2>3. BooksAgree'
      BY <1>3, <2>1, GrantedType, Limits
         DEF return_stream_buffers, BooksAgree, Shape
    <2>4. DesignatedEmpty' /\ RemovedOwnsNothing'
      BY <1>3
         DEF return_stream_buffers, DesignatedEmpty, RemovedOwnsNothing, Shape, serviceVars
    <2>5. QED
      BY <2>2, <2>3, <2>4
  <1>4. ASSUME NEW req \in Requests, request_stream_buffers(req)
        PROVE  BuffersInv'
    <2>1. call' = [Idle EXCEPT !.stage = "called", !.req = req] /\ call' \in CallType
      BY <1>4, IdleType DEF request_stream_buffers, CallType
    <2>2. \A x \in Streams : Granted(x) = 0 /\ Granted(x)' = 0
      BY <1>4, <2>1, IdleType DEF request_stream_buffers, Granted, CallType
    <2>3. TypeOK' /\ Shape'
      BY <1>4, <2>1
         DEF request_stream_buffers, TypeOK, Shape, CallType, serviceVars, halVars
    <2>4. BooksAgree' /\ DesignatedEmpty' /\ RemovedOwnsNothing'
      BY <1>4, <2>2
         DEF request_stream_buffers, BooksAgree, DesignatedEmpty, RemovedOwnsNothing, serviceVars
    <2>5. QED
      BY <2>3, <2>4
  <1>5. CASE request_stream_buffers_returns
    <2>1. call' = Idle /\ call' \in CallType
      BY <1>5, IdleType DEF request_stream_buffers_returns
    <2>2. \A x \in Streams : Granted(x)' = 0
      BY <2>1 DEF Granted, Idle
    <2>3. \A x \in Streams : held'[x] = held[x] + Granted(x)
      BY <1>5 DEF request_stream_buffers_returns
    <2>4. held' \in [Streams -> Nat]
      BY <1>5, GrantedType DEF request_stream_buffers_returns, Shape
    <2>5. \A x \in Streams : held'[x] \in 0..MaxBuffers[x]
      BY <2>3, <2>4, GrantedType, Limits DEF BooksAgree, TypeOK, Shape
    <2>6. Shape'
      BY <1>5, <2>1, <2>4 DEF request_stream_buffers_returns, Shape
    <2>7. TypeOK'
      BY <1>5, <2>1, <2>5
         DEF request_stream_buffers_returns, TypeOK, CallType, serviceVars, Asked
    <2>8. BooksAgree'
      BY <1>5, <2>2, <2>3, <2>4, GrantedType
         DEF request_stream_buffers_returns, BooksAgree, Shape
    <2>9. \A x \in Streams : out[x] = 0 => held'[x] = 0
      BY <2>3, GrantedType DEF BooksAgree, Shape
    <2>10. DesignatedEmpty' /\ RemovedOwnsNothing'
      BY <1>5, <2>9
         DEF request_stream_buffers_returns, DesignatedEmpty, RemovedOwnsNothing, serviceVars
    <2>11. QED
      BY <2>6, <2>7, <2>8, <2>10
  <1>6. CASE return_stream_buffers_done
    <2>1. returning \in Streams
      BY <1>6 DEF return_stream_buffers_done, TypeOK
    <2>2. out[returning] > 0
      BY <2>1, GrantedType DEF BooksAgree, Shape
    <2>3. \A x \in Streams : Granted(x)' = Granted(x)
      BY <1>6 DEF return_stream_buffers_done, Granted
    <2>4. TypeOK' /\ Shape'
      <3>1. Shape'
        BY <1>6, <2>1, <2>2 DEF return_stream_buffers_done, Shape
      <3>2. CountsOK'
        BY <1>6, <2>1, <2>2, Limits DEF return_stream_buffers_done, TypeOK, Shape, CountsOK
      <3>3. TypeOK'
        BY <1>6, <2>1, <2>2, <3>2 DEF return_stream_buffers_done, TypeOK, CountsOK, serviceVars, halVars
      <3>4. QED
        BY <3>1, <3>3
    <2>5. BooksAgree'
      BY <1>6, <2>1, <2>3, GrantedType, Limits
         DEF return_stream_buffers_done, BooksAgree, Shape
    <2>6. DesignatedEmpty' /\ RemovedOwnsNothing'
      BY <1>6, <2>1, <2>2
         DEF return_stream_buffers_done, DesignatedEmpty, RemovedOwnsNothing, Shape, serviceVars
    <2>7. QED
      BY <2>4, <2>5, <2>6
  <1>7. QED
    BY <1>1, <1>2, <1>3, <1>4, <1>5, <1>6

LEMMA StepInv == BuffersInv /\ [Next]_vars => BuffersInv'
  <1> SUFFICES ASSUME BuffersInv, [Next]_vars PROVE BuffersInv'
    OBVIOUS
  <1>1. CASE UNCHANGED vars
    BY <1>1
       DEF vars, serviceVars, halVars, BuffersInv, TypeOK, Shape, BooksAgree, DesignatedEmpty,
           RemovedOwnsNothing, Granted
  <1>2. CASE Next
    BY <1>2, ServiceInv, ReconfigureInv, AnswerInv, HalInv DEF Next
  <1>3. QED
    BY <1>1, <1>2

LEMMA BuffersInvariant == Spec => []BuffersInv
  BY InitInv, StepInv, PTL DEF Spec

-----------------------------------------------------------------------------
(* The theorems                                                            *)

\* No stream ever has more buffers out than its limit, whatever is asked for.
THEOREM TypeCorrect == Spec => []TypeOK
  BY BuffersInvariant, PTL DEF BuffersInv

\* No buffer is lost or counted twice, in any order of requests, answers,
\* returns and configurations.
THEOREM BuffersConserved == Spec => []BooksAgree
  BY BuffersInvariant, PTL DEF BuffersInv

\* The memory of a stream that is not configured may be freed.
THEOREM RemovedIsEmpty == Spec => []RemovedOwnsNothing
  BY BuffersInvariant, PTL DEF BuffersInv
=============================================================================
