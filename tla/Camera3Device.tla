--------------------------- MODULE Camera3Device ---------------------------
(***************************************************************************)
(* The session contract of include/hardware/camera3.h between the camera   *)
(* framework and a HAL device of version 3.2 or later: the calls of        *)
(* camera3_device_ops, the callbacks of camera3_callback_ops, the captures *)
(* in flight and the buffers lent for them.                                *)
(*                                                                         *)
(* The framework decides from what it has been told (view, lent), the HAL  *)
(* from what it still has to do (hal).  No action of one side looks at a   *)
(* variable of the other, except for the arguments of a call: the          *)
(* properties say that the two accounts agree.                             *)
(*                                                                         *)
(* A callback that carries several things at once is several steps here,   *)
(* one for each: nothing can happen in between that could not happen       *)
(* before or after it.  Fences are left out: a buffer is the framework's   *)
(* again when it is returned.                                              *)
(***************************************************************************)
EXTENDS Naturals, FiniteSets

CONSTANTS
    Streams,        \* the camera3_stream_t structures of the framework
    Type,           \* Type[s]: its stream_type
    MaxBuffers,     \* MaxBuffers[s]: its max_buffers, as the HAL sets it
    Shapes,         \* <<output streams, input stream>> of requests
    Settings,       \* settings buffers of requests
    NULL,
    PartialCount,   \* android.request.partialResultCount
    MaxFrames       \* bound: requests of a session

ASSUME DeviceAssumption ==
    /\ IsFiniteSet(Streams)
    /\ Type \in [Streams -> {"OUTPUT", "INPUT", "BIDIRECTIONAL"}]
    /\ MaxBuffers \in [Streams -> Nat \ {0}]
    /\ Shapes \subseteq (SUBSET Streams) \X (SUBSET Streams)
    /\ NULL \notin Settings
    /\ PartialCount \in Nat \ {0}
    /\ MaxFrames \in Nat

OutputCapable == {s \in Streams : Type[s] # "INPUT"}
InputCapable == {s \in Streams : Type[s] # "OUTPUT"}
Frames == 1..MaxFrames
Partials == 1..PartialCount

VARIABLES
    session,        \* framework: which calls of camera3_device_ops it may make
    streams,        \* framework: the streams of the current configuration
    wanted,         \* argument of the configure_streams() underway
    call,           \* the process_capture_request() underway, its arguments
    flushing,       \* a flush() is underway
    lastFrame,      \* framework: the frame number used last
    lastSettings,   \* framework: the settings that NULL stands for
    view,           \* framework: view[f], what it still expects for frame f
    lent,           \* framework: lent[s], buffers of s it does not have
    gone,           \* framework: told that only close() will succeed
    health,         \* HAL: "ok", "failing" (not yet told), "dead"
    hal,            \* HAL: hal[f], what it still has to do for frame f
    halStreams,     \* HAL: the streams it is configured for
    halSettings     \* HAL: the settings it would use for NULL

frameworkVars == <<session, streams, lastFrame, lastSettings, view, lent, gone>>
callVars == <<wanted, call, flushing>>
halVars == <<health, hal, halStreams, halSettings>>
vars == <<frameworkVars, callVars, halVars>>

\* A capture in the HAL: the buffers it holds, the partial results, the SHUTTER
\* and the ERROR_BUFFERs it has yet to send, the streams whose buffer it could
\* not fill, and whether it has sent anything valid.
Capture == [stage : {"none", "pending", "running", "dropped"}, reprocess : BOOLEAN,
            out : SUBSET Streams, in : SUBSET Streams, meta : SUBSET Partials,
            shutter : BOOLEAN, bad : SUBSET Streams, owed : SUBSET Streams,
            produced : BOOLEAN]
NoCapture == [stage |-> "none", reprocess |-> FALSE, out |-> {}, in |-> {}, meta |-> {},
              shutter |-> FALSE, bad |-> {}, owed |-> {}, produced |-> FALSE]

\* A frame as the framework sees it: buffers and partial results not received,
\* the errors of buffers, returned or announced but not both, and what arrived.
View == [known : BOOLEAN, out : SUBSET Streams, in : SUBSET Streams,
         meta : SUBSET Partials, shutter : BOOLEAN, dropped : BOOLEAN,
         returned : SUBSET Streams, announced : SUBSET Streams, valid : BOOLEAN]
NoView == [known |-> FALSE, out |-> {}, in |-> {}, meta |-> {}, shutter |-> FALSE,
           dropped |-> FALSE, returned |-> {}, announced |-> {}, valid |-> FALSE]

Call == [stage : {"none", "called", "taken"}, frame : {0} \cup Frames, out : SUBSET Streams,
         in : SUBSET Streams, settings : Settings \cup {NULL}]
NoCall == [stage |-> "none", frame |-> 0, out |-> {}, in |-> {}, settings |-> NULL]

TypeOK ==
    /\ session \in {"closed", "opened", "initialized", "configuring", "configured", "closing"}
    /\ streams \subseteq Streams /\ wanted \subseteq Streams /\ halStreams \subseteq Streams
    /\ call \in Call
    /\ flushing \in BOOLEAN /\ gone \in BOOLEAN
    /\ lastFrame \in {0} \cup Frames
    /\ {lastSettings, halSettings} \subseteq Settings \cup {NULL}
    /\ view \in [Frames -> View]
    /\ \A s \in Streams : lent[s] \in 0..MaxBuffers[s]
    /\ health \in {"ok", "failing", "dead"}
    /\ hal \in [Frames -> Capture]

Init ==
    /\ session = "closed"
    /\ streams = {} /\ wanted = {} /\ halStreams = {}
    /\ call = NoCall
    /\ flushing = FALSE /\ gone = FALSE
    /\ lastFrame = 0
    /\ lastSettings = NULL /\ halSettings = NULL
    /\ view = [f \in Frames |-> NoView]
    /\ lent = [s \in Streams |-> 0]
    /\ health = "dead"
    /\ hal = [f \in Frames |-> NoCapture]

-----------------------------------------------------------------------------
(* Helpers                                                                 *)

\* A configuration the framework may ask for.
Valid(config) ==
    /\ config \cap OutputCapable # {}
    /\ Cardinality(config \cap InputCapable) <= 1

One(P) == IF P THEN 1 ELSE 0

\* The framework has received all that a frame entails.
Answered(v) ==
    /\ v.out = {} /\ v.in = {}
    /\ v.dropped \/ (v.shutter /\ v.meta = {} /\ v.returned = v.announced)

\* The HAL has done all that a frame entails.
Finished(c) == c.out = {} /\ c.in = {} /\ c.meta = {} /\ ~c.shutter /\ c.owed = {}

\* What both sides know of frame f after a callback about it.
Sent(f, c) == hal' = [hal EXCEPT ![f] = IF Finished(c) THEN NoCapture ELSE c]
Received(f, v) == view' = [view EXCEPT ![f] = IF Answered(v) THEN NoView ELSE v]

\* The framework waits for nothing any more and takes its buffers as its own.
Forget == view' = [f \in Frames |-> NoView] /\ lent' = [s \in Streams |-> 0]

\* The framework learns from a return value or a message that the device is
\* dead: it treats it as closed.
LearnsDead == gone' = TRUE /\ Forget

\* Requests of the same kind submitted before f.
Older(f) == {g \in Frames : g < f /\ hal[g].reprocess = hal[f].reprocess}

\* Something valid is sent for c although the buffer of s, or the rest of the
\* metadata, is lost.
SavedWithout(c, s) == c.produced \/ c.meta # {} \/ c.out \ (c.bad \cup {s}) # {}
SavedWithoutResult(c) == c.produced \/ c.out \ c.bad # {}

-----------------------------------------------------------------------------
(* Calls of the framework                                                  *)

\* camera_module_t.common.open(): a new session, whatever the last one left.
Open ==
    /\ session = "closed"
    /\ session' = "opened"
    /\ health' = "ok"
    /\ gone' = FALSE
    /\ UNCHANGED <<streams, lastFrame, lastSettings, view, lent, callVars, hal, halStreams, halSettings>>

\* Once, before all others.  -ENODEV leaves close() only.
Initialize ==
    /\ session = "opened" /\ ~gone
    /\ \/ session' = "initialized" /\ UNCHANGED <<gone, health>>
       \/ gone' = TRUE /\ health' = "dead" /\ UNCHANGED session
    /\ UNCHANGED <<streams, lastFrame, lastSettings, view, lent, callVars, hal, halStreams, halSettings>>

Operational == session \in {"initialized", "configured"} /\ ~gone

\* Any time after initialize(); without effect unless the answer is NULL.
construct_default_request_settings ==
    /\ Operational
    /\ health # "ok"
    /\ LearnsDead
    /\ UNCHANGED <<session, streams, lastFrame, lastSettings, callVars, halVars>>

\* Mutant: does not wait for what is in flight.
configure_at_once(config) ==
    /\ Operational
    /\ call = NoCall /\ ~flushing
    /\ Valid(config)
    /\ session' = "configuring"
    /\ wanted' = config
    /\ UNCHANGED <<streams, lastFrame, lastSettings, view, lent, gone, call, flushing, halVars>>

\* Only when the framework has everything back, and no other call is underway.
configure_streams(config) ==
    /\ Operational
    /\ call = NoCall /\ ~flushing
    /\ \A f \in Frames : ~view[f].known
    /\ Valid(config)
    /\ session' = "configuring"
    /\ wanted' = config
    /\ UNCHANGED <<streams, lastFrame, lastSettings, view, lent, gone, call, flushing, halVars>>

\* Mutant: a refused configuration resets the HAL's settings.
configure_forgets ==
    /\ session = "configuring"
    /\ wanted' = {}
    /\ \/ /\ health = "ok"
          /\ session' = "configured"
          /\ streams' = wanted /\ halStreams' = wanted
          /\ lastSettings' = NULL /\ halSettings' = NULL
          /\ UNCHANGED <<view, lent, gone>>
       \/ /\ session' = IF streams = {} THEN "initialized" ELSE "configured"
          /\ halSettings' = NULL
          /\ \/ health = "ok" /\ UNCHANGED <<view, lent, gone>>
             \/ health # "ok" /\ LearnsDead
          /\ UNCHANGED <<streams, halStreams, lastSettings>>
    /\ UNCHANGED <<lastFrame, call, flushing, health, hal>>

\* 0, or -EINVAL for a configuration the HAL cannot support, after which all is
\* as if the call had not been made, or -ENODEV.
configure_streams_returns ==
    /\ session = "configuring"
    /\ wanted' = {}
    /\ \/ /\ health = "ok"
          /\ session' = "configured"
          /\ streams' = wanted /\ halStreams' = wanted
          /\ lastSettings' = NULL /\ halSettings' = NULL
          /\ UNCHANGED <<view, lent, gone>>
       \/ /\ session' = IF streams = {} THEN "initialized" ELSE "configured"
          /\ \/ health = "ok" /\ UNCHANGED <<view, lent, gone>>
             \/ health # "ok" /\ LearnsDead
          /\ UNCHANGED <<streams, halStreams, lastSettings, halSettings>>
    /\ UNCHANGED <<lastFrame, call, flushing, health, hal>>

\* One request at a time, within max_buffers, while a flush() may be underway.
\* NULL stands for the settings of the request before.
process_capture_request(out, in, settings) ==
    /\ session = "configured" /\ ~gone
    /\ call = NoCall
    /\ lastFrame < MaxFrames
    /\ out \subseteq streams \cap OutputCapable
    /\ in \subseteq streams \cap InputCapable /\ Cardinality(in) <= 1
    /\ \A s \in Streams : lent[s] + One(s \in out) + One(s \in in) <= MaxBuffers[s]
    /\ lastFrame' = lastFrame + 1
    /\ call' = [stage |-> "called", frame |-> lastFrame + 1, out |-> out, in |-> in,
                settings |-> settings]
    /\ view' = [view EXCEPT ![lastFrame + 1] =
                   [NoView EXCEPT !.known = TRUE, !.out = out, !.in = in, !.meta = Partials]]
    /\ lent' = [s \in Streams |-> lent[s] + One(s \in out) + One(s \in in)]
    /\ UNCHANGED <<session, streams, lastSettings, gone, wanted, flushing, halVars>>

Malformed == call.out = {} \/ (call.settings = NULL /\ halSettings = NULL)

\* The HAL takes a request over: it owns the buffers.
TakeRequest ==
    /\ call.stage = "called" /\ health = "ok" /\ ~Malformed
    /\ call' = [call EXCEPT !.stage = "taken"]
    /\ halSettings' = IF call.settings = NULL THEN halSettings ELSE call.settings
    /\ hal' = [hal EXCEPT ![call.frame] =
                  [NoCapture EXCEPT !.stage = "pending", !.reprocess = call.in # {},
                                    !.out = call.out, !.in = call.in,
                                    !.meta = Partials, !.shutter = TRUE]]
    /\ UNCHANGED <<frameworkVars, wanted, flushing, health, halStreams>>

\* Mutant: the buffers of a refused request are not taken back.
RejectKeepsBuffers ==
    /\ call.stage = "called" /\ health = "ok" /\ Malformed
    /\ call' = NoCall
    /\ lastFrame' = lastFrame - 1
    /\ view' = [view EXCEPT ![call.frame] = NoView]
    /\ UNCHANGED <<lent, session, streams, lastSettings, gone, wanted, flushing, halVars>>

\* -EINVAL: the framework keeps the buffers, as if it had not called.
RejectRequest ==
    /\ call.stage = "called" /\ health = "ok" /\ Malformed
    /\ call' = NoCall
    /\ lastFrame' = lastFrame - 1
    /\ view' = [view EXCEPT ![call.frame] = NoView]
    /\ lent' = [s \in Streams |-> lent[s] - One(s \in call.out) - One(s \in call.in)]
    /\ UNCHANGED <<session, streams, lastSettings, gone, wanted, flushing, halVars>>

\* 0, when the HAL is ready for the next request, or -ENODEV.
process_capture_request_returns ==
    /\ \/ /\ call.stage = "taken"
          /\ lastSettings' = IF call.settings = NULL THEN lastSettings ELSE call.settings
          /\ UNCHANGED <<view, lent, gone>>
       \/ /\ call.stage # "none" /\ health # "ok"
          /\ LearnsDead
          /\ UNCHANGED lastSettings
    /\ call' = NoCall
    /\ UNCHANGED <<session, streams, lastFrame, wanted, flushing, halVars>>

\* flush() may be called while a process_capture_request() is underway.
flush ==
    /\ session = "configured" /\ ~gone /\ ~flushing
    /\ flushing' = TRUE
    /\ UNCHANGED <<frameworkVars, wanted, call, halVars>>

\* Mutant: does not wait for requests that have not begun.
flush_returns_early ==
    /\ flushing
    /\ \/ /\ health = "ok" /\ \A f \in Frames : hal[f].stage \in {"none", "pending"}
          /\ UNCHANGED <<view, lent, gone>>
       \/ health # "ok" /\ LearnsDead
    /\ flushing' = FALSE
    /\ UNCHANGED <<session, streams, lastFrame, lastSettings, wanted, call, halVars>>

\* Not before nothing is left in the HAL, or with -ENODEV.
flush_returns ==
    /\ flushing
    /\ \/ /\ health = "ok" /\ \A f \in Frames : hal[f] = NoCapture
          /\ UNCHANGED <<view, lent, gone>>
       \/ health # "ok" /\ LearnsDead
    /\ flushing' = FALSE
    /\ UNCHANGED <<session, streams, lastFrame, lastSettings, wanted, call, halVars>>

\* No other call is underway.
close ==
    /\ session \in {"opened", "initialized", "configured"}
    /\ call = NoCall /\ ~flushing
    /\ session' = "closing"
    /\ UNCHANGED <<streams, lastFrame, lastSettings, view, lent, gone, callVars, halVars>>

\* Blocks until all captures have been completed, unless the device is dead.
close_returns ==
    /\ session = "closing"
    /\ \A f \in Frames : hal[f] = NoCapture
    /\ session' = "closed"
    /\ streams' = {} /\ halStreams' = {}
    /\ lastFrame' = 0
    /\ lastSettings' = NULL /\ halSettings' = NULL
    /\ Forget
    /\ health' = "dead"
    /\ UNCHANGED <<gone, callVars, hal>>

-----------------------------------------------------------------------------
(* Work and callbacks of the HAL, each about a capture it holds            *)

InHal(f, stages) == health = "ok" /\ hal[f].stage \in stages

\* During flush() a SHUTTER precedes whatever else is sent for a frame.
MaySend(f) == flushing => ~hal[f].shutter

\* Frame g keeps a later one from returning a buffer of s.  During flush() the
\* order holds between valid buffers only.
Precedes(g, s) ==
    /\ s \in hal[g].out
    /\ flushing => hal[g].stage # "dropped" /\ s \notin hal[g].bad

CallbackUnchanged ==
    UNCHANGED <<session, streams, lastFrame, lastSettings, gone, callVars, health,
                halStreams, halSettings>>

Returned(s) == lent' = [lent EXCEPT ![s] = @ - 1]

\* Exposure or reprocessing begins.  What has not begun when flush() comes is
\* dropped.
Begin(f) ==
    /\ InHal(f, {"pending"}) /\ ~flushing
    /\ hal' = [hal EXCEPT ![f].stage = "running"]
    /\ UNCHANGED <<view, lent>> /\ CallbackUnchanged

NotifyShutter(f) ==
    /\ InHal(f, {"running"}) /\ hal[f].shutter
    /\ Sent(f, [hal[f] EXCEPT !.shutter = FALSE])
    /\ Received(f, [view[f] EXCEPT !.shutter = TRUE])
    /\ UNCHANGED lent /\ CallbackUnchanged

\* Partial result p; the results of requests of a kind are completed in order.
ResultMetadata(f, p) ==
    /\ InHal(f, {"running"}) /\ MaySend(f)
    /\ p \in hal[f].meta
    /\ hal[f].meta = {p} => \A g \in Older(f) : hal[g].meta = {}
    /\ Sent(f, [hal[f] EXCEPT !.meta = @ \ {p}, !.produced = TRUE])
    /\ Received(f, [view[f] EXCEPT !.meta = @ \ {p}, !.valid = TRUE])
    /\ UNCHANGED lent /\ CallbackUnchanged

\* A filled buffer.
ReturnBuffer(f, s) ==
    /\ InHal(f, {"running"}) /\ MaySend(f)
    /\ s \in hal[f].out \ hal[f].bad
    /\ \A g \in Older(f) : ~Precedes(g, s)
    /\ Sent(f, [hal[f] EXCEPT !.out = @ \ {s}, !.produced = TRUE])
    /\ Received(f, [view[f] EXCEPT !.out = @ \ {s}, !.valid = TRUE])
    /\ Returned(s) /\ CallbackUnchanged

\* Mutant: no ERROR_BUFFER follows.
ReturnErrorBufferUntold(f, s) ==
    /\ InHal(f, {"running", "dropped"})
    /\ s \in hal[f].out
    /\ flushing \/ \A g \in Older(f) : ~Precedes(g, s)
    /\ \/ /\ hal[f].stage = "dropped"
          /\ Sent(f, [hal[f] EXCEPT !.out = @ \ {s}])
       \/ /\ hal[f].stage = "running" /\ MaySend(f)
          /\ s \in hal[f].bad \/ SavedWithout(hal[f], s)
          /\ Sent(f, [hal[f] EXCEPT !.out = @ \ {s}, !.bad = @ \cup {s},
                                    !.owed = @])
    /\ Received(f, [view[f] EXCEPT !.out = @ \ {s}, !.returned = @ \cup {s}])
    /\ Returned(s) /\ CallbackUnchanged

\* A buffer with STATUS_ERROR, of a capture that was dropped or one that still
\* produces something else.
ReturnErrorBuffer(f, s) ==
    /\ InHal(f, {"running", "dropped"})
    /\ s \in hal[f].out
    /\ flushing \/ \A g \in Older(f) : ~Precedes(g, s)
    /\ \/ /\ hal[f].stage = "dropped"
          /\ Sent(f, [hal[f] EXCEPT !.out = @ \ {s}])
       \/ /\ hal[f].stage = "running" /\ MaySend(f)
          /\ s \in hal[f].bad \/ SavedWithout(hal[f], s)
          /\ Sent(f, [hal[f] EXCEPT !.out = @ \ {s}, !.bad = @ \cup {s},
                                    !.owed = IF s \in hal[f].bad THEN @ ELSE @ \cup {s}])
    /\ Received(f, [view[f] EXCEPT !.out = @ \ {s}, !.returned = @ \cup {s}])
    /\ Returned(s) /\ CallbackUnchanged

\* ERROR_BUFFER for a buffer that was returned in error or will be.
NotifyErrorBuffer(f, s) ==
    /\ InHal(f, {"running"})
    /\ \/ /\ s \in hal[f].owed
          /\ Sent(f, [hal[f] EXCEPT !.owed = @ \ {s}])
       \/ /\ s \in hal[f].out \ hal[f].bad /\ SavedWithout(hal[f], s)
          /\ Sent(f, [hal[f] EXCEPT !.bad = @ \cup {s}])
    /\ Received(f, [view[f] EXCEPT !.announced = @ \cup {s}])
    /\ UNCHANGED lent /\ CallbackUnchanged

\* Mutant: although all buffers failed as well.
NotifyErrorResultAlone(f) ==
    /\ InHal(f, {"running"})
    /\ hal[f].meta # {}
    /\ Sent(f, [hal[f] EXCEPT !.meta = {}])
    /\ Received(f, [view[f] EXCEPT !.meta = {}])
    /\ UNCHANGED lent /\ CallbackUnchanged

\* ERROR_RESULT: the partial results not sent yet will not come.
NotifyErrorResult(f) ==
    /\ InHal(f, {"running"})
    /\ hal[f].meta # {} /\ SavedWithoutResult(hal[f])
    /\ Sent(f, [hal[f] EXCEPT !.meta = {}])
    /\ Received(f, [view[f] EXCEPT !.meta = {}])
    /\ UNCHANGED lent /\ CallbackUnchanged

\* Mutant: only for captures that have begun.
NotifyErrorRequestBegun(f) ==
    /\ InHal(f, {"running"})
    /\ hal[f].meta = Partials /\ hal[f].bad = {} /\ ~hal[f].produced
    /\ Sent(f, [hal[f] EXCEPT !.stage = "dropped", !.meta = {}, !.shutter = FALSE])
    /\ Received(f, [view[f] EXCEPT !.dropped = TRUE])
    /\ UNCHANGED lent /\ CallbackUnchanged

\* ERROR_REQUEST, if nothing but a SHUTTER has been sent for the frame: only
\* buffers follow, all in error.
NotifyErrorRequest(f) ==
    /\ InHal(f, {"pending", "running"})
    /\ hal[f].meta = Partials /\ hal[f].bad = {} /\ ~hal[f].produced
    /\ Sent(f, [hal[f] EXCEPT !.stage = "dropped", !.meta = {}, !.shutter = FALSE])
    /\ Received(f, [view[f] EXCEPT !.dropped = TRUE])
    /\ UNCHANGED lent /\ CallbackUnchanged

\* Input buffers go back in the order in which they came.
ReturnInput(f, s) ==
    /\ InHal(f, {"running", "dropped"})
    /\ flushing /\ hal[f].stage = "running" => ~hal[f].shutter
    /\ s \in hal[f].in
    /\ \A g \in Older(f) : hal[g].in = {}
    /\ Sent(f, [hal[f] EXCEPT !.in = {}])
    /\ Received(f, [view[f] EXCEPT !.in = {}])
    /\ Returned(s) /\ CallbackUnchanged

\* A serious failure: the captures are cancelled before anybody is told.
Fail ==
    /\ health = "ok" /\ session # "closed"
    /\ health' = "failing"
    /\ hal' = [f \in Frames |-> NoCapture]
    /\ UNCHANGED <<frameworkVars, callVars, halStreams, halSettings>>

\* notify() with ERROR_DEVICE, the last callback of the session.
NotifyErrorDevice ==
    /\ health = "failing"
    /\ health' = "dead"
    /\ LearnsDead
    /\ UNCHANGED <<session, streams, lastFrame, lastSettings, callVars, hal,
                   halStreams, halSettings>>

-----------------------------------------------------------------------------
\* What the framework does on its own account.
Framework ==
    \/ Open \/ Initialize \/ construct_default_request_settings
    \/ \E config \in SUBSET Streams : configure_streams(config)
    \/ \E shape \in Shapes, settings \in Settings \cup {NULL} :
          process_capture_request(shape[1], shape[2], settings)
    \/ flush \/ close

\* The HAL answers the calls made to it.
Answer ==
    \/ configure_streams_returns
    \/ TakeRequest \/ RejectRequest \/ process_capture_request_returns
    \/ close_returns

HalStep(f) ==
    \/ Begin(f) \/ NotifyShutter(f)
    \/ \E p \in Partials : ResultMetadata(f, p)
    \/ \E s \in Streams : ReturnBuffer(f, s) \/ ReturnErrorBuffer(f, s) \/ NotifyErrorBuffer(f, s)
    \/ NotifyErrorResult(f) \/ NotifyErrorRequest(f)
    \/ \E s \in Streams : ReturnInput(f, s)

Pipeline == \/ \E f \in Frames : HalStep(f)
            \/ NotifyErrorDevice

Next ==
    \/ Framework \/ Answer \/ flush_returns
    \/ Pipeline \/ Fail

Spec == Init /\ [][Next]_vars

\* The HAL answers calls, and goes on as long as it holds a capture or has to
\* tell that it failed; it need not fail.
Fairness == WF_vars(Answer) /\ WF_vars(flush_returns) /\ WF_vars(Pipeline)

FairSpec == Spec /\ Fairness

-----------------------------------------------------------------------------
(* Properties                                                              *)

\* No callback comes when it is not expected: a capture in the HAL is one of a
\* session that is configured or closing, the framework waits for it, and its
\* buffers are of streams of the configuration, which it may not free before.
CallbacksExpected ==
    \A f \in Frames : hal[f] # NoCapture =>
        /\ session \in {"configured", "closing"} /\ ~gone
        /\ view[f].known
        /\ hal[f].out \cup hal[f].in \subseteq streams \cap halStreams

\* Nothing is waited for in vain: from the messages alone the framework finds
\* out that a frame is over, whatever part of it failed and in whatever order
\* errors, buffers and metadata came.
EveryFrameAnswered ==
    health = "ok" => \A f \in Frames :
        view[f].known => hal[f] # NoCapture \/ (call.stage = "called" /\ call.frame = f)

\* No buffer is lost or returned twice: the buffers of a stream the framework
\* misses are those that captures hold, or that a call is handing over.
BuffersConserved ==
    health = "ok" => \A s \in Streams :
        lent[s] = Cardinality({f \in Frames : s \in hal[f].out})
                  + Cardinality({f \in Frames : s \in hal[f].in})
                  + One(call.stage = "called" /\ s \in call.out)
                  + One(call.stage = "called" /\ s \in call.in)

\* S6: a capture fails altogether only by ERROR_REQUEST.  Until something valid
\* has come for a frame, something valid is still to come.
SomethingComes ==
    health = "ok" => \A f \in Frames : hal[f].stage = "running" =>
        view[f].valid \/ hal[f].meta # {} \/ hal[f].out \ hal[f].bad # {}

\* Between requests both sides agree on what NULL settings would mean, also
\* after a request or a configuration that was refused.
SettingsAgree == health = "ok" /\ call = NoCall => lastSettings = halSettings

\* What flush() promises, although requests may come in while it runs: after 0
\* the framework has all back but a request it is just handing over.
FlushQuiesces ==
    [][flushing /\ ~flushing' /\ ~gone' =>
          \A f \in Frames : view'[f].known => call.stage = "called" /\ call.frame = f]_vars

\* flush() ends, also when requests come in meanwhile.
FlushEnds == flushing ~> ~flushing
=============================================================================
