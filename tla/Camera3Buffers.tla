-------------------------- MODULE Camera3Buffers --------------------------
(***************************************************************************)
(* The buffer management of include/hardware/camera3.h, version 3.6: the   *)
(* HAL asks the camera service for output buffers with                     *)
(* request_stream_buffers() and gives them back with the capture results   *)
(* or return_stream_buffers(), while the service reconfigures the streams. *)
(*                                                                         *)
(* A call is made, answered and returned from in steps of their own, so    *)
(* that its answer may be on its way while the other side does something   *)
(* else.  A capture has one output stream, a return one buffer.            *)
(***************************************************************************)
EXTENDS Naturals

CONSTANTS
    Streams,        \* camera3_stream_t structures
    MaxBuffers,     \* MaxBuffers[s]: its max_buffers
    Abandonable,    \* bound: streams the application may abandon
    Changes,        \* bound: <<streams to come, designated ones>>
    MaxCaptures,    \* bound: captures in flight of a stream
    NULL

ASSUME BuffersAssumption ==
    /\ MaxBuffers \in [Streams -> Nat \ {0}]
    /\ Abandonable \subseteq Streams
    /\ Changes \subseteq (SUBSET Streams) \X (SUBSET Streams)
    /\ MaxCaptures \in Nat
    /\ NULL \notin Streams

VARIABLES
    phase,          \* service: "running", "quiescing" or "configuring"
    config,         \* the configured streams
    next,           \* service: the streams of the configuration to come
    designated,     \* service: those that must be without buffers for it
    disconnected,   \* service: streams the application has abandoned
    out,            \* service: out[s], buffers it has handed out
    pending,        \* pending[s]: captures of s in flight
    call,           \* the request_stream_buffers() underway
    held,           \* HAL: held[s], its buffers of s
    returning,      \* HAL: the stream of the return_stream_buffers() underway
    told,           \* HAL: to wait for the next configuration
    signalled,      \* HAL: streams of signal_stream_flush()
    known,          \* HAL: streams it knows to be disconnected
    starved         \* HAL: streams there was no buffer for

serviceVars == <<phase, config, next, designated, disconnected>>
halVars == <<told, signalled, known, starved>>
vars == <<serviceVars, halVars, out, pending, call, held, returning>>

\* camera3_stream_buffer_req_status_t and camera3_buffer_request_status_t;
\* UNKNOWN_ERROR of a stream is fatal for the device and left to Camera3Device.
StreamStatus == {"OK", "NO_BUFFER_AVAILABLE", "MAX_BUFFER_EXCEEDED", "STREAM_DISCONNECTED"}
Status == {"OK", "FAILED_PARTIAL", "FAILED_CONFIGURING", "FAILED_ILLEGAL_ARGUMENTS",
           "FAILED_UNKNOWN"}

\* num_buffers_requested of each stream, 0 for those not in the call.
Requests == {r \in [Streams -> UNION {0..MaxBuffers[s] : s \in Streams}] :
                \A s \in Streams : r[s] <= MaxBuffers[s]}
Asked(r) == {s \in Streams : r[s] > 0}
NoRequest == [s \in Streams |-> 0]

\* late: a configure_streams() has finished since the call was made.
Idle == [stage |-> "none", req |-> NoRequest, status |-> "OK", late |-> FALSE,
         each |-> [s \in Streams |-> "OK"]]

\* Buffers that the answer on its way carries.
Granted(s) ==
    IF call.stage = "answered" /\ call.status \in {"OK", "FAILED_PARTIAL"} /\ call.each[s] = "OK"
    THEN call.req[s] ELSE 0

TypeOK ==
    /\ phase \in {"running", "quiescing", "configuring"}
    /\ config \subseteq Streams /\ next \subseteq Streams /\ designated \subseteq config
    /\ disconnected \subseteq Streams /\ known \subseteq Streams
    /\ signalled \subseteq Streams /\ starved \subseteq Streams
    /\ \A s \in Streams : out[s] \in 0..MaxBuffers[s] /\ pending[s] \in 0..MaxCaptures
                          /\ held[s] \in 0..MaxBuffers[s]
    /\ call.stage \in {"none", "called", "answered"} /\ call.req \in Requests
    /\ call.status \in Status /\ call.late \in BOOLEAN /\ call.each \in [Streams -> StreamStatus]
    /\ returning \in Streams \cup {NULL}
    /\ told \in BOOLEAN

\* The first configuration is made.
Init ==
    /\ phase = "running"
    /\ config = Streams /\ next = Streams /\ designated = {} /\ disconnected = {}
    /\ out = [s \in Streams |-> 0] /\ pending = [s \in Streams |-> 0]
    /\ held = [s \in Streams |-> 0]
    /\ call = Idle /\ returning = NULL
    /\ told = FALSE /\ signalled = {} /\ known = {} /\ starved = {}

-----------------------------------------------------------------------------
(* The camera service                                                      *)

\* process_capture_request(), of version 3.6: the buffers are not in it.
process_capture_request(s) ==
    /\ phase = "running" /\ s \in config
    /\ pending[s] < MaxCaptures
    /\ pending' = [pending EXCEPT ![s] = @ + 1]
    /\ UNCHANGED <<serviceVars, halVars, out, call, held, returning>>

\* The application abandons the surface of a stream.
Disconnect(s) ==
    /\ s \in Abandonable \ disconnected
    /\ disconnected' = disconnected \cup {s}
    /\ UNCHANGED <<phase, config, next, designated, halVars, out, pending, call, held, returning>>

\* The service is about to configure: it sends no more captures.
Quiesce(streams, designate) ==
    /\ phase = "running"
    /\ streams # {} /\ streams \cap disconnected = {}
    /\ config \ streams \subseteq designate /\ designate \subseteq config
    /\ phase' = "quiescing"
    /\ next' = streams
    /\ designated' = designate
    /\ UNCHANGED <<config, disconnected, halVars, out, pending, call, held, returning>>

\* The hint is skipped while all buffers are with the service.
signal_stream_flush ==
    /\ phase = "quiescing"
    /\ \E s \in designated \ signalled : out[s] > 0
    /\ signalled' = designated
    /\ UNCHANGED <<serviceVars, told, known, starved, out, pending, call, held, returning>>

\* Mutant: does not wait for a return that is underway.
configure_streams_early ==
    /\ phase = "quiescing"
    /\ \A s \in Streams : pending[s] = 0
    /\ \A s \in designated : out[s] = 0 \/ (out[s] = 1 /\ returning = s)
    /\ phase' = "configuring"
    /\ UNCHANGED <<config, next, designated, disconnected, halVars, out, pending, call, held,
                   returning>>

configure_streams ==
    /\ phase = "quiescing"
    /\ \A s \in Streams : pending[s] = 0
    /\ \A s \in designated : out[s] = 0
    /\ phase' = "configuring"
    /\ UNCHANGED <<config, next, designated, disconnected, halVars, out, pending, call, held,
                   returning>>

\* It returns: what the HAL was told of the configuration before is void.
configure_streams_returns ==
    /\ phase = "configuring"
    /\ phase' = "running"
    /\ config' = next
    /\ designated' = {}
    /\ told' = FALSE /\ signalled' = {} /\ starved' = {}
    /\ known' = known \cap next
    /\ call' = [call EXCEPT !.late = call.stage # "none"]
    /\ UNCHANGED <<next, disconnected, out, pending, held, returning>>

\* What a stream's part of a request can come to.
StatusOf(s, n) ==
    IF s \in disconnected \/ s \notin config THEN {"STREAM_DISCONNECTED"}
    ELSE IF out[s] + n > MaxBuffers[s] THEN {"MAX_BUFFER_EXCEEDED"}
    ELSE {"OK", "NO_BUFFER_AVAILABLE"}

Overall(each, asked) ==
    CASE \A s \in asked : each[s] = "OK" -> "OK"
      [] \A s \in asked : each[s] # "OK" -> "FAILED_UNKNOWN"
      [] OTHER -> "FAILED_PARTIAL"

Refuse(status) ==
    /\ call' = [call EXCEPT !.stage = "answered", !.status = status]
    /\ UNCHANGED out

Grant ==
    \E each \in [Streams -> StreamStatus] :
        /\ \A s \in Streams : IF call.req[s] = 0 THEN each[s] = "OK"
                              ELSE each[s] \in StatusOf(s, call.req[s])
        /\ call' = [call EXCEPT !.stage = "answered", !.each = each,
                                !.status = Overall(each, Asked(call.req))]
        /\ out' = [s \in Streams |-> IF each[s] = "OK" THEN out[s] + call.req[s] ELSE out[s]]

\* The service answers request_stream_buffers().
request_stream_buffers_answered ==
    /\ call.stage = "called"
    /\ \/ phase # "configuring" /\ Grant
       \/ phase # "running" /\ Refuse("FAILED_CONFIGURING")
       \/ ~(Asked(call.req) \subseteq config) /\ Refuse("FAILED_ILLEGAL_ARGUMENTS")
    /\ UNCHANGED <<serviceVars, halVars, pending, held, returning>>

\* return_stream_buffers() blocks as long as the streams are being configured.
return_stream_buffers_done ==
    /\ returning # NULL
    /\ phase # "configuring"
    /\ out' = [out EXCEPT ![returning] = @ - 1]
    /\ returning' = NULL
    /\ UNCHANGED <<serviceVars, halVars, pending, call, held>>

-----------------------------------------------------------------------------
(* The HAL                                                                 *)

\* Captures of s in flight have no buffer yet.
Needs(s) == pending[s] > held[s]

\* Buffers may be asked for ahead of need, unless the stream is being emptied.
request_stream_buffers(req) ==
    /\ call.stage = "none" /\ ~told
    /\ req # NoRequest
    /\ \A s \in Asked(req) : /\ s \in config \ known
                             /\ held[s] + req[s] <= MaxBuffers[s]
                             /\ s \in signalled => Needs(s)
    /\ call' = [Idle EXCEPT !.stage = "called", !.req = req]
    /\ UNCHANGED <<serviceVars, halVars, out, pending, held, returning>>

\* Mutant: has no use for a buffer of a stream that is being emptied.
request_stream_buffers_drops ==
    /\ call.stage = "answered"
    /\ held' = [s \in Streams |-> IF s \in signalled THEN held[s] ELSE held[s] + Granted(s)]
    /\ told' = (told \/ (call.status = "FAILED_CONFIGURING" /\ ~call.late))
    /\ known' = IF call.late THEN known ELSE
                known \cup {s \in Asked(call.req) : call.each[s] = "STREAM_DISCONNECTED"}
    /\ starved' = {s \in starved : Granted(s) = 0}
                    \cup {s \in Streams : call.each[s] = "NO_BUFFER_AVAILABLE"}
    /\ call' = Idle
    /\ UNCHANGED <<serviceVars, signalled, out, pending, returning>>

\* The call returns.  Buffers are the HAL's whenever they arrive; what the
\* answer says of a configuration that is over tells nothing of this one.
request_stream_buffers_returns ==
    /\ call.stage = "answered"
    /\ held' = [s \in Streams |-> held[s] + Granted(s)]
    /\ told' = (told \/ (call.status = "FAILED_CONFIGURING" /\ ~call.late))
    /\ known' = IF call.late THEN known ELSE
                known \cup {s \in Asked(call.req) : call.each[s] = "STREAM_DISCONNECTED"}
    /\ starved' = {s \in starved : Granted(s) = 0}
                    \cup {s \in Streams : call.each[s] = "NO_BUFFER_AVAILABLE"}
    /\ call' = Idle
    /\ UNCHANGED <<serviceVars, signalled, out, pending, returning>>

\* A capture is done; its result takes the buffer back.
process_capture_result(s) ==
    /\ pending[s] > 0 /\ held[s] > 0
    /\ pending' = [pending EXCEPT ![s] = @ - 1]
    /\ held' = [held EXCEPT ![s] = @ - 1]
    /\ out' = [out EXCEPT ![s] = @ - 1]
    /\ UNCHANGED <<serviceVars, halVars, call, returning>>

\* Mutant: waits for the next configuration with its captures.
ErrorRequestStarved(s) ==
    /\ Needs(s)
    /\ s \in starved \cup known
    /\ pending' = [pending EXCEPT ![s] = @ - 1]
    /\ UNCHANGED <<serviceVars, halVars, out, call, held, returning>>

\* A capture that can get no buffer ends with ERROR_REQUEST.
ErrorRequest(s) ==
    /\ Needs(s)
    /\ s \in starved \cup known \/ told
    /\ pending' = [pending EXCEPT ![s] = @ - 1]
    /\ UNCHANGED <<serviceVars, halVars, out, call, held, returning>>

\* Mutant: a stream that is gone is emptied when the service signals it.
return_stream_buffers_signalled(s) ==
    /\ returning = NULL
    /\ held[s] > 0
    /\ IF s \in known THEN s \in signalled ELSE held[s] > pending[s]
    /\ held' = [held EXCEPT ![s] = @ - 1]
    /\ returning' = s
    /\ UNCHANGED <<serviceVars, halVars, out, pending, call>>

\* The HAL returns a buffer it has no capture for or whose stream is gone.
return_stream_buffers(s) ==
    /\ returning = NULL
    /\ held[s] > 0
    /\ held[s] > pending[s] \/ s \in known
    /\ held' = [held EXCEPT ![s] = @ - 1]
    /\ returning' = s
    /\ UNCHANGED <<serviceVars, halVars, out, pending, call>>

Next ==
    \/ \E s \in Streams : \/ process_capture_request(s) \/ Disconnect(s)
                          \/ process_capture_result(s) \/ ErrorRequest(s)
                          \/ return_stream_buffers(s)
    \/ \E change \in Changes : Quiesce(change[1], change[2])
    \/ signal_stream_flush \/ configure_streams \/ configure_streams_returns
    \/ \E req \in Requests : request_stream_buffers(req)
    \/ request_stream_buffers_answered \/ request_stream_buffers_returns
    \/ return_stream_buffers_done

\* The service answers and goes on; the HAL finishes or fails its captures, asks
\* for what they need and returns what it has to, one stream after the other.
Fairness ==
    /\ SF_vars(signal_stream_flush) /\ WF_vars(configure_streams)
    /\ WF_vars(configure_streams_returns)
    /\ WF_vars(request_stream_buffers_answered) /\ WF_vars(request_stream_buffers_returns)
    /\ WF_vars(return_stream_buffers_done)
    /\ \A s \in Streams :
        /\ WF_vars(process_capture_result(s)) /\ WF_vars(ErrorRequest(s))
        /\ SF_vars(\E req \in Requests : req[s] = 1 /\ Needs(s) /\ request_stream_buffers(req))
        /\ SF_vars(s \in signalled \cup known /\ return_stream_buffers(s))

Spec == Init /\ [][Next]_vars
FairSpec == Spec /\ Fairness

-----------------------------------------------------------------------------
(* Properties                                                              *)

\* Every buffer the service has handed out is with the HAL, in an answer on its
\* way to it or in a return on its way back: none is lost in a reconfiguration
\* that an answer, a return or a disconnection crosses.
BooksAgree ==
    \A s \in Streams :
        out[s] = held[s] + Granted(s) + (IF returning = s THEN 1 ELSE 0)

\* Streams no longer configured own no buffers: the memory may be freed.
RemovedOwnsNothing == \A s \in Streams \ config : out[s] = 0 /\ held[s] = 0

\* The service gets the streams empty and the captures finished, and configures,
\* although the HAL may no longer get the buffers its captures need.
QuiescingConfigures == phase = "quiescing" ~> phase = "configuring"

\* A stream that the HAL knows to be gone is emptied.
GoneIsEmptied == \A s \in Streams : s \in known ~> (out[s] = 0 \/ s \notin known)
=============================================================================
