------------------------ MODULE Camera3Device_proofs ------------------------
(***************************************************************************)
(* Proofs about Camera3Device, for any streams, shapes of requests,        *)
(* settings, numbers of partial results and of requests: the accounts of   *)
(* framework and HAL agree in every order of calls, callbacks and errors.  *)
(***************************************************************************)
EXTENDS Camera3Device, FiniteSetTheorems, TLAPS

OneIn(in) == \A s, t \in in : s = t

\* A capture c of the HAL and what the framework expects of the frame, v: what
\* the one has yet to send is what the other waits for, and the announcements
\* and the returns of failed buffers that are not paired yet are those that
\* will be.
Match(c, v) ==
    /\ c.stage \in {"pending", "running", "dropped"}
    /\ v.known /\ v.out = c.out /\ v.in = c.in
    /\ IF c.stage = "dropped"
       THEN v.dropped /\ c.meta = {} /\ ~c.shutter /\ c.bad = {} /\ c.owed = {}
       ELSE /\ ~v.dropped /\ v.meta = c.meta /\ v.shutter = ~c.shutter /\ v.valid = c.produced
            /\ c.bad = v.returned \cup v.announced
            /\ c.owed = v.returned \ v.announced
            /\ c.bad \cap c.out = v.announced \ v.returned
    /\ c.stage = "pending" => c.meta # {}
    /\ c.stage = "running" => c.produced \/ c.meta # {} \/ c.out \ c.bad # {}

SessionOK ==
    /\ streams = halStreams
    /\ session = "closed" => /\ lastFrame = 0 /\ lastSettings = NULL /\ halSettings = NULL
                             /\ view = [f \in Frames |-> NoView]
                             /\ lent = [s \in Streams |-> 0]
    /\ health = "ok" => session # "closed" /\ ~gone
    /\ session = "configuring" /\ health = "ok" => \A f \in Frames : ~view[f].known
    /\ flushing => session = "configured"

\* While a request is handed over, the framework has lent its buffers and the
\* HAL knows nothing of the frame.
CallOK ==
    /\ call.stage = "none" => call = NoCall
    /\ call.stage # "none" =>
          /\ session = "configured"
          /\ call.frame = lastFrame /\ lastFrame \in Frames
          /\ call.out \cup call.in \subseteq streams
          /\ OneIn(call.in)
    /\ call.stage = "called" /\ health = "ok" =>
          /\ hal[call.frame] = NoCapture
          /\ view[call.frame] = [NoView EXCEPT !.known = TRUE, !.out = call.out, !.in = call.in,
                                               !.meta = Partials]

SettingsOK ==
    health = "ok" =>
        halSettings = IF call.stage = "taken" /\ call.settings # NULL THEN call.settings
                      ELSE lastSettings

CaptureOK(f) ==
    /\ health = "ok" /\ session \in {"configured", "closing"}
    /\ f <= lastFrame
    /\ Match(hal[f], view[f])
    /\ hal[f].out \cup hal[f].in \subseteq streams
    /\ OneIn(hal[f].in)

FramesOK ==
    \A f \in Frames :
        /\ hal[f] = NoCapture \/ CaptureOK(f)
        /\ view[f] = NoView \/ (view[f].known /\ f <= lastFrame)

\* A frame the framework waits for is the HAL's or about to be.
Waited(f) == view[f].known => hal[f] # NoCapture \/ (call.stage = "called" /\ call.frame = f)

OutFrames(s) == {f \in Frames : s \in hal[f].out}
InFrames(s) == {f \in Frames : s \in hal[f].in}
Held(s) ==
    Cardinality(OutFrames(s)) + Cardinality(InFrames(s))
    + One(call.stage = "called" /\ s \in call.out) + One(call.stage = "called" /\ s \in call.in)

Types == TypeOK /\ lent \in [Streams -> Nat]

DeviceInv ==
    /\ Types /\ SessionOK /\ CallOK /\ SettingsOK /\ FramesOK
    /\ health = "ok" => \A f \in Frames : Waited(f)
    /\ health = "ok" => \A s \in Streams : lent[s] = Held(s)

-----------------------------------------------------------------------------
(* The operators                                                           *)

LEMMA FramesFinite ==
    /\ Frames \subseteq Nat
    /\ \A S \in SUBSET Frames : IsFiniteSet(S) /\ Cardinality(S) \in Nat
  <1>1. IsFiniteSet(Frames)
    BY FS_Interval, DeviceAssumption DEF Frames
  <1>2. ASSUME NEW S \in SUBSET Frames
        PROVE  IsFiniteSet(S) /\ Cardinality(S) \in Nat
    BY <1>1, FS_Subset, FS_CardinalityType
  <1>3. QED
    BY <1>2 DEF Frames

\* Sets of frames that differ in f only.
LEMMA CountChange ==
    ASSUME NEW S \in SUBSET Frames, NEW T \in SUBSET Frames, NEW f \in Frames,
           \A g \in Frames \ {f} : g \in S <=> g \in T
    PROVE  /\ Cardinality(S) \in Nat /\ Cardinality(T) \in Nat
           /\ (f \in S <=> f \in T) => Cardinality(T) = Cardinality(S)
           /\ f \in S /\ f \notin T => Cardinality(T) = Cardinality(S) - 1
           /\ f \notin S /\ f \in T => Cardinality(T) = Cardinality(S) + 1
  <1>1. /\ IsFiniteSet(S) /\ Cardinality(S) \in Nat
        /\ IsFiniteSet(T) /\ Cardinality(T) \in Nat
    BY FramesFinite
  <1>2. (f \in S <=> f \in T) => T = S
    OBVIOUS
  <1>3. f \in S /\ f \notin T => Cardinality(T) = Cardinality(S) - 1
    <2>1. f \in S /\ f \notin T => T = S \ {f}
      OBVIOUS
    <2>2. QED
      BY <1>1, <2>1, FS_RemoveElement
  <1>4. f \notin S /\ f \in T => Cardinality(T) = Cardinality(S) + 1
    <2>1. f \notin S /\ f \in T => T = S \cup {f}
      OBVIOUS
    <2>2. QED
      BY <1>1, <2>1, FS_AddElement
  <1>5. QED
    BY <1>1, <1>2, <1>3, <1>4

LEMMA AtMostOne ==
    ASSUME NEW S \in SUBSET Streams, Cardinality(S) <= 1
    PROVE  OneIn(S)
  <1>1. IsFiniteSet(S) /\ Cardinality(S) \in Nat
    BY DeviceAssumption, FS_Subset, FS_CardinalityType
  <1>2. CASE Cardinality(S) = 0
    BY <1>1, <1>2, FS_EmptySet DEF OneIn
  <1>3. CASE Cardinality(S) = 1
    BY <1>1, <1>3, FS_Singleton DEF OneIn
  <1>4. QED
    BY <1>1, <1>2, <1>3

LEMMA NothingType ==
    /\ NoCapture \in Capture /\ NoView \in View /\ NoCall \in Call
    /\ NoCapture.stage = "none" /\ NoCapture.out = {} /\ NoCapture.in = {}
    /\ ~NoView.known
    /\ NoCall.stage = "none"
  BY DEF NoCapture, Capture, NoView, View, NoCall, Call

\* The framework learns that a frame is over when it is over.
LEMMA MatchEnds ==
    ASSUME NEW c \in Capture, NEW v \in View, Match(c, v)
    PROVE  Finished(c) = Answered(v)
  <1>1. CASE c.stage = "dropped"
    BY <1>1 DEF Match, Finished, Answered, View, Capture
  <1>2. CASE c.stage # "dropped"
    <2>1. c.out = {} => v.announced \subseteq v.returned
      BY <1>2 DEF Match
    <2>2. c.out = {} => (c.owed = {} <=> v.returned = v.announced)
      BY <1>2, <2>1 DEF Match
    <2>3. QED
      BY <1>2, <2>2 DEF Match, Finished, Answered, View, Capture
  <1>3. QED
    BY <1>1, <1>2

-----------------------------------------------------------------------------
(* What the invariant says                                                 *)

LEMMA InvIsEnough ==
    ASSUME DeviceInv
    PROVE  /\ TypeOK /\ CallbacksExpected /\ EveryFrameAnswered /\ BuffersConserved
           /\ SomethingComes /\ SettingsAgree
  <1>1. TypeOK
    BY DEF DeviceInv, Types
  <1>2. CallbacksExpected
    BY DEF DeviceInv, FramesOK, CaptureOK, Match, SessionOK, CallbacksExpected
  <1>3. EveryFrameAnswered
    BY DEF DeviceInv, Waited, EveryFrameAnswered
  <1>4. BuffersConserved
    BY DEF DeviceInv, Held, OutFrames, InFrames, BuffersConserved
  <1>5. SomethingComes
    BY NothingType DEF DeviceInv, FramesOK, CaptureOK, Match, SomethingComes
  <1>6. SettingsAgree
    BY NothingType DEF DeviceInv, SettingsOK, SettingsAgree
  <1>7. QED
    BY <1>1, <1>2, <1>3, <1>4, <1>5, <1>6

LEMMA InitInv == Init => DeviceInv
  <1> SUFFICES ASSUME Init PROVE DeviceInv
    OBVIOUS
  <1>1. Types
    <2>1. \A s \in Streams : lent[s] = 0 /\ 0 \in 0..MaxBuffers[s]
      BY DeviceAssumption DEF Init
    <2>2. view \in [Frames -> View] /\ hal \in [Frames -> Capture] /\ call \in Call
      BY NothingType DEF Init
    <2>3. QED
      BY <2>1, <2>2 DEF Init, Types, TypeOK
  <1>2. SessionOK /\ SettingsOK
    BY DEF Init, SessionOK, SettingsOK
  <1>3. CallOK
    BY NothingType DEF Init, CallOK
  <1>4. FramesOK
    BY DEF Init, FramesOK
  <1>5. QED
    BY <1>1, <1>2, <1>3, <1>4 DEF Init, DeviceInv

-----------------------------------------------------------------------------
(* A callback about frame f                                                *)

\* After it the HAL has c to do and the framework expects v; at most one buffer
\* went back.
LEMMA Callback ==
    ASSUME DeviceInv, NEW f \in Frames, health = "ok", hal[f] # NoCapture,
           NEW c \in Capture, NEW v \in View, Match(c, v),
           Sent(f, c), Received(f, v), CallbackUnchanged,
           \/ c.out = hal[f].out /\ c.in = hal[f].in /\ lent' = lent
           \/ \E s \in hal[f].out : c.out = hal[f].out \ {s} /\ c.in = hal[f].in /\ Returned(s)
           \/ \E s \in hal[f].in : c.out = hal[f].out /\ c.in = {} /\ Returned(s)
    PROVE  DeviceInv'
  <1> DEFINE Old == hal[f]
             New == hal'[f]
  <1>1. /\ hal \in [Frames -> Capture] /\ view \in [Frames -> View] /\ lent \in [Streams -> Nat]
        /\ Old \in Capture
    BY DEF DeviceInv, Types, TypeOK
  <1>2. /\ hal' \in [Frames -> Capture] /\ view' \in [Frames -> View]
        /\ \A g \in Frames \ {f} : hal'[g] = hal[g] /\ view'[g] = view[g]
    BY <1>1, NothingType DEF Sent, Received
  <1>3. /\ (New = c /\ view'[f] = v) \/ (New = NoCapture /\ view'[f] = NoView)
        /\ New.out = c.out /\ New.in = c.in
    BY <1>1, MatchEnds, NothingType DEF Sent, Received, Finished
  <1>4. /\ c.out \subseteq Old.out /\ c.in \subseteq Old.in
        /\ CaptureOK(f)
    BY DEF DeviceInv, FramesOK
  <1>5. SessionOK' /\ SettingsOK'
    <2>1. \A g \in Frames : ~view[g].known => ~view'[g].known
      BY <1>2, <1>4 DEF CaptureOK, Match
    <2>2. session # "closed" /\ session # "configuring"
      BY <1>4 DEF CaptureOK
    <2>3. QED
      BY <2>1, <2>2 DEF DeviceInv, SessionOK, SettingsOK, CallbackUnchanged, callVars
  <1>6. CallOK'
    <2>1. CASE call.stage = "called"
      <3>1. call.frame # f /\ call.frame \in Frames
        BY <2>1 DEF DeviceInv, CallOK
      <3>2. QED
        BY <1>2, <2>1, <3>1 DEF DeviceInv, CallOK, CallbackUnchanged, callVars
    <2>2. CASE call.stage # "called"
      BY <2>2 DEF DeviceInv, CallOK, CallbackUnchanged, callVars
    <2>3. QED
      BY <2>1, <2>2
  <1>7. FramesOK'
    <2>1. ASSUME NEW g \in Frames
          PROVE  (/\ hal[g] = NoCapture \/ CaptureOK(g)
                  /\ view[g] = NoView \/ (view[g].known /\ g <= lastFrame))'
      <3>1. CASE g = f
        BY <1>3, <1>4, <3>1 DEF CaptureOK, OneIn, Match, CallbackUnchanged, callVars
      <3>2. CASE g # f
        BY <1>2, <3>2 DEF DeviceInv, FramesOK, CaptureOK, CallbackUnchanged, callVars
      <3>3. QED
        BY <3>1, <3>2
    <2>2. QED
      BY <2>1 DEF FramesOK
  <1>8. \A g \in Frames : Waited(g)'
    <2>1. ASSUME NEW g \in Frames
          PROVE  Waited(g)'
      <3>1. CASE g = f
        BY <1>3, <3>1, NothingType DEF Match, Waited
      <3>2. CASE g # f
        BY <1>2, <3>2 DEF DeviceInv, Waited, CallbackUnchanged, callVars
      <3>3. QED
        BY <3>1, <3>2
    <2>2. QED
      BY <2>1
  <1>9. ASSUME NEW s \in Streams
        PROVE  lent'[s] = Held(s)' /\ Held(s)' \in Nat /\ Held(s)' <= lent[s]
    <2>1. /\ Cardinality(OutFrames(s)) \in Nat /\ Cardinality(OutFrames(s)') \in Nat
          /\ (s \in Old.out <=> s \in New.out) =>
                Cardinality(OutFrames(s)') = Cardinality(OutFrames(s))
          /\ s \in Old.out /\ s \notin New.out =>
                Cardinality(OutFrames(s)') = Cardinality(OutFrames(s)) - 1
      <3>1. OutFrames(s) \in SUBSET Frames /\ OutFrames(s)' \in SUBSET Frames
        BY DEF OutFrames
      <3>2. \A g \in Frames \ {f} : g \in OutFrames(s) <=> g \in OutFrames(s)'
        BY <1>2 DEF OutFrames
      <3>3. (f \in OutFrames(s) <=> s \in Old.out) /\ (f \in OutFrames(s)' <=> s \in New.out)
        BY DEF OutFrames
      <3>4. QED
        BY <3>1, <3>2, <3>3, CountChange
    <2>2. /\ Cardinality(InFrames(s)) \in Nat /\ Cardinality(InFrames(s)') \in Nat
          /\ (s \in Old.in <=> s \in New.in) =>
                Cardinality(InFrames(s)') = Cardinality(InFrames(s))
          /\ s \in Old.in /\ s \notin New.in =>
                Cardinality(InFrames(s)') = Cardinality(InFrames(s)) - 1
      <3>1. InFrames(s) \in SUBSET Frames /\ InFrames(s)' \in SUBSET Frames
        BY DEF InFrames
      <3>2. \A g \in Frames \ {f} : g \in InFrames(s) <=> g \in InFrames(s)'
        BY <1>2 DEF InFrames
      <3>3. (f \in InFrames(s) <=> s \in Old.in) /\ (f \in InFrames(s)' <=> s \in New.in)
        BY DEF InFrames
      <3>4. QED
        BY <3>1, <3>2, <3>3, CountChange
    <2> DEFINE a == One(call.stage = "called" /\ s \in call.out)
               b == One(call.stage = "called" /\ s \in call.in)
               Gone(S) == IF s \in S THEN 1 ELSE 0
    <2>3. /\ a \in Nat /\ b \in Nat
          /\ Held(s) = Cardinality(OutFrames(s)) + Cardinality(InFrames(s)) + a + b
          /\ Held(s)' = Cardinality(OutFrames(s)') + Cardinality(InFrames(s)') + a + b
      BY DEF Held, One, CallbackUnchanged, callVars
    <2>4. lent[s] = Held(s) /\ lent[s] \in Nat
      BY <1>1 DEF DeviceInv
    <2>5. lent'[s] = lent[s] - Gone(Old.out \ New.out) - Gone(Old.in \ New.in)
      <3>1. CASE c.out = Old.out /\ c.in = Old.in /\ lent' = lent
        BY <1>3, <2>4, <3>1
      <3>2. ASSUME NEW t \in Old.out, c.out = Old.out \ {t}, c.in = Old.in, Returned(t)
            PROVE  lent'[s] = lent[s] - Gone(Old.out \ New.out) - Gone(Old.in \ New.in)
        <4>1. Gone(Old.in \ New.in) = 0 /\ Gone(Old.out \ New.out) = IF s = t THEN 1 ELSE 0
          BY <1>3, <3>2
        <4>2. lent'[s] = IF s = t THEN lent[s] - 1 ELSE lent[s]
          BY <1>1, <3>2 DEF Returned
        <4>3. QED
          BY <2>4, <4>1, <4>2
      <3>3. ASSUME NEW t \in Old.in, c.out = Old.out, c.in = {}, Returned(t)
            PROVE  lent'[s] = lent[s] - Gone(Old.out \ New.out) - Gone(Old.in \ New.in)
        <4>1. Old.in = {t}
          BY <1>4 DEF CaptureOK, OneIn
        <4>2. Gone(Old.out \ New.out) = 0 /\ Gone(Old.in \ New.in) = IF s = t THEN 1 ELSE 0
          BY <1>3, <3>3, <4>1
        <4>3. lent'[s] = IF s = t THEN lent[s] - 1 ELSE lent[s]
          BY <1>1, <3>3 DEF Returned
        <4>4. QED
          BY <2>4, <4>2, <4>3
      <3>4. QED
        BY <3>1, <3>2, <3>3
    <2>6. (s \in New.out => s \in Old.out) /\ (s \in New.in => s \in Old.in)
      BY <1>3, <1>4
    <2> HIDE DEF a, b, Old, New
    <2>7. QED
      BY <2>1, <2>2, <2>3, <2>4, <2>5, <2>6
  <1>10. Types'
    <2>1. /\ call' = call /\ wanted' = wanted /\ flushing' = flushing /\ session' = session
          /\ streams' = streams /\ lastFrame' = lastFrame /\ lastSettings' = lastSettings
          /\ gone' = gone /\ health' = health /\ halStreams' = halStreams
          /\ halSettings' = halSettings
      BY DEF CallbackUnchanged, callVars
    <2>2. lent' \in [Streams -> Nat]
      BY <1>1, <1>9 DEF Returned
    <2>3. \A s \in Streams : lent'[s] \in 0..MaxBuffers[s]
      BY <1>1, <1>9, DeviceAssumption DEF DeviceInv, Types, TypeOK
    <2>4. QED
      BY <1>2, <2>1, <2>2, <2>3 DEF DeviceInv, Types, TypeOK
  <1>11. QED
    BY <1>5, <1>6, <1>7, <1>8, <1>9, <1>10 DEF DeviceInv

\* What a step of the HAL about frame f starts from.
LEMMA InHalFacts ==
    ASSUME DeviceInv, NEW f \in Frames, NEW stages, "none" \notin stages, InHal(f, stages)
    PROVE  /\ hal[f] \in Capture /\ view[f] \in View /\ hal[f] # NoCapture
           /\ Match(hal[f], view[f]) /\ health = "ok" /\ hal[f].stage \in stages
  BY NothingType DEF DeviceInv, Types, TypeOK, FramesOK, CaptureOK, InHal

LEMMA BeginInv ==
    ASSUME DeviceInv, NEW f \in Frames, Begin(f) PROVE DeviceInv'
  <1>1. PICK c \in Capture : c = [hal[f] EXCEPT !.stage = "running"]
    BY InHalFacts DEF Begin, Capture
  <1>2. Match(c, view[f]) /\ ~Finished(c)
    BY <1>1, InHalFacts DEF Begin, Match, Capture, Finished
  <1>3. Sent(f, c)
    BY <1>1, <1>2 DEF Begin, Sent
  <1>4. Received(f, view[f])
    BY <1>2, InHalFacts, MatchEnds DEF Begin, Received, DeviceInv, Types, TypeOK
  <1>5. QED
    BY <1>1, <1>2, <1>3, <1>4, InHalFacts, Callback DEF Begin, Capture

LEMMA NotifyShutterInv ==
    ASSUME DeviceInv, NEW f \in Frames, NotifyShutter(f) PROVE DeviceInv'
  <1>1. PICK c \in Capture : c = [hal[f] EXCEPT !.shutter = FALSE]
    BY InHalFacts DEF NotifyShutter, Capture
  <1>2. PICK v \in View : v = [view[f] EXCEPT !.shutter = TRUE]
    BY InHalFacts DEF NotifyShutter, View
  <1>3. Match(c, v)
    <2>1. hal[f].stage = "running" /\ Match(hal[f], view[f])
      BY InHalFacts DEF NotifyShutter
    <2>2. /\ c.stage = "running" /\ c.out = hal[f].out /\ c.in = hal[f].in
          /\ c.meta = hal[f].meta /\ c.bad = hal[f].bad /\ c.owed = hal[f].owed
          /\ c.produced = hal[f].produced /\ c.shutter = FALSE
      BY <1>1, <2>1, InHalFacts DEF NotifyShutter, Capture
    <2>3. /\ v.known = view[f].known /\ v.out = view[f].out /\ v.in = view[f].in
          /\ v.meta = view[f].meta /\ v.dropped = view[f].dropped
          /\ v.returned = view[f].returned /\ v.announced = view[f].announced
          /\ v.valid = view[f].valid /\ v.shutter = TRUE
      BY <1>2, InHalFacts DEF NotifyShutter, View
    <2>4. QED
      BY <2>1, <2>2, <2>3 DEF Match
  <1>4. QED
    BY <1>1, <1>2, <1>3, InHalFacts, Callback DEF NotifyShutter, Capture

LEMMA ResultMetadataInv ==
    ASSUME DeviceInv, NEW f \in Frames, NEW p \in Partials, ResultMetadata(f, p)
    PROVE  DeviceInv'
  <1>1. PICK c \in Capture : c = [hal[f] EXCEPT !.meta = @ \ {p}, !.produced = TRUE]
    BY InHalFacts DEF ResultMetadata, Capture
  <1>2. PICK v \in View : v = [view[f] EXCEPT !.meta = @ \ {p}, !.valid = TRUE]
    BY InHalFacts DEF ResultMetadata, View
  <1>3. Match(c, v)
    BY <1>1, <1>2, InHalFacts DEF ResultMetadata, Match, Capture, View
  <1>4. QED
    BY <1>1, <1>2, <1>3, InHalFacts, Callback DEF ResultMetadata, Capture

LEMMA ReturnBufferInv ==
    ASSUME DeviceInv, NEW f \in Frames, NEW s \in Streams, ReturnBuffer(f, s)
    PROVE  DeviceInv'
  <1>1. PICK c \in Capture : c = [hal[f] EXCEPT !.out = @ \ {s}, !.produced = TRUE]
    BY InHalFacts DEF ReturnBuffer, Capture
  <1>2. PICK v \in View : v = [view[f] EXCEPT !.out = @ \ {s}, !.valid = TRUE]
    BY InHalFacts DEF ReturnBuffer, View
  <1>3. Match(c, v)
    BY <1>1, <1>2, InHalFacts DEF ReturnBuffer, Match, Capture, View
  <1>4. s \in hal[f].out /\ c.out = hal[f].out \ {s} /\ c.in = hal[f].in
    BY <1>1, InHalFacts DEF ReturnBuffer, Capture
  <1>5. QED
    BY <1>1, <1>2, <1>3, <1>4, InHalFacts, Callback DEF ReturnBuffer

LEMMA ReturnErrorBufferInv ==
    ASSUME DeviceInv, NEW f \in Frames, NEW s \in Streams, ReturnErrorBuffer(f, s)
    PROVE  DeviceInv'
  <1>1. PICK v \in View : v = [view[f] EXCEPT !.out = @ \ {s}, !.returned = @ \cup {s}]
    BY InHalFacts DEF ReturnErrorBuffer, View
  <1>2. CASE hal[f].stage = "dropped" /\ Sent(f, [hal[f] EXCEPT !.out = @ \ {s}])
    <2>1. PICK c \in Capture : c = [hal[f] EXCEPT !.out = @ \ {s}]
      BY InHalFacts DEF ReturnErrorBuffer, Capture
    <2>2. Match(c, v)
      BY <1>1, <1>2, <2>1, InHalFacts DEF ReturnErrorBuffer, Match, Capture, View
    <2>3. s \in hal[f].out /\ c.out = hal[f].out \ {s} /\ c.in = hal[f].in
      BY <2>1, InHalFacts DEF ReturnErrorBuffer, Capture
    <2>4. QED
      BY <1>1, <1>2, <2>1, <2>2, <2>3, InHalFacts, Callback DEF ReturnErrorBuffer
  <1>3. CASE /\ hal[f].stage = "running"
             /\ s \in hal[f].bad \/ SavedWithout(hal[f], s)
             /\ Sent(f, [hal[f] EXCEPT !.out = @ \ {s}, !.bad = @ \cup {s},
                                       !.owed = IF s \in hal[f].bad THEN @ ELSE @ \cup {s}])
    <2>1. PICK c \in Capture :
             c = [hal[f] EXCEPT !.out = @ \ {s}, !.bad = @ \cup {s},
                                !.owed = IF s \in hal[f].bad THEN @ ELSE @ \cup {s}]
      <3> DEFINE owed == IF s \in hal[f].bad THEN hal[f].owed ELSE hal[f].owed \cup {s}
      <3>1. hal[f] \in Capture
        BY InHalFacts DEF ReturnErrorBuffer
      <3>2. owed \in SUBSET Streams
        BY <3>1 DEF Capture
      <3>3. [hal[f] EXCEPT !.out = @ \ {s}, !.bad = @ \cup {s}, !.owed = owed] \in Capture
        <4> HIDE DEF owed
        <4>1. QED
          BY <3>1, <3>2 DEF Capture
      <3>4. QED
        BY <3>3
    <2>2. s \in hal[f].out /\ c.out = hal[f].out \ {s} /\ c.in = hal[f].in
      BY <2>1, InHalFacts DEF ReturnErrorBuffer, Capture
    <2>3. Match(c, v)
      <3>1. v.returned = view[f].returned \cup {s} /\ v.announced = view[f].announced
        BY <1>1, InHalFacts DEF ReturnErrorBuffer, View
      <3>2. c.bad = v.returned \cup v.announced
        BY <1>3, <2>1, <3>1, InHalFacts DEF ReturnErrorBuffer, Match, Capture
      <3>3. c.owed = v.returned \ v.announced
        BY <1>3, <2>1, <2>2, <3>1, InHalFacts DEF ReturnErrorBuffer, Match, Capture
      <3>4. c.bad \cap c.out = v.announced \ v.returned
        BY <1>3, <2>1, <2>2, <3>1, InHalFacts DEF ReturnErrorBuffer, Match, Capture
      <3>5. c.produced \/ c.meta # {} \/ c.out \ c.bad # {}
        BY <1>3, <2>1, InHalFacts DEF ReturnErrorBuffer, SavedWithout, Match, Capture
      <3>6. QED
        BY <1>1, <1>3, <2>1, <3>2, <3>3, <3>4, <3>5, InHalFacts
           DEF ReturnErrorBuffer, Match, Capture, View
    <2>4. QED
      BY <1>1, <1>3, <2>1, <2>2, <2>3, InHalFacts, Callback DEF ReturnErrorBuffer
  <1>4. QED
    BY <1>2, <1>3 DEF ReturnErrorBuffer

LEMMA NotifyErrorBufferInv ==
    ASSUME DeviceInv, NEW f \in Frames, NEW s \in Streams, NotifyErrorBuffer(f, s)
    PROVE  DeviceInv'
  <1>1. PICK v \in View : v = [view[f] EXCEPT !.announced = @ \cup {s}]
    BY InHalFacts DEF NotifyErrorBuffer, View
  <1>2. v.returned = view[f].returned /\ v.announced = view[f].announced \cup {s}
    BY <1>1, InHalFacts DEF NotifyErrorBuffer, View
  <1>3. CASE s \in hal[f].owed /\ Sent(f, [hal[f] EXCEPT !.owed = @ \ {s}])
    <2>1. PICK c \in Capture : c = [hal[f] EXCEPT !.owed = @ \ {s}]
      BY InHalFacts DEF NotifyErrorBuffer, Capture
    <2>2. Match(c, v)
      BY <1>1, <1>2, <1>3, <2>1, InHalFacts DEF NotifyErrorBuffer, Match, Capture, View
    <2>3. QED
      BY <1>1, <1>3, <2>1, <2>2, InHalFacts, Callback DEF NotifyErrorBuffer, Capture
  <1>4. CASE /\ s \in hal[f].out \ hal[f].bad /\ SavedWithout(hal[f], s)
             /\ Sent(f, [hal[f] EXCEPT !.bad = @ \cup {s}])
    <2>1. PICK c \in Capture : c = [hal[f] EXCEPT !.bad = @ \cup {s}]
      BY InHalFacts DEF NotifyErrorBuffer, Capture
    <2>2. Match(c, v)
      <3>1. c.produced \/ c.meta # {} \/ c.out \ c.bad # {}
        BY <1>4, <2>1, InHalFacts DEF NotifyErrorBuffer, SavedWithout, Capture
      <3>2. /\ c.bad = v.returned \cup v.announced
            /\ c.owed = v.returned \ v.announced
            /\ c.bad \cap c.out = v.announced \ v.returned
        BY <1>2, <1>4, <2>1, InHalFacts DEF NotifyErrorBuffer, Match, Capture
      <3>3. QED
        BY <1>1, <2>1, <3>1, <3>2, InHalFacts DEF NotifyErrorBuffer, Match, Capture, View
    <2>3. QED
      BY <1>1, <1>4, <2>1, <2>2, InHalFacts, Callback DEF NotifyErrorBuffer, Capture
  <1>5. QED
    BY <1>3, <1>4 DEF NotifyErrorBuffer

LEMMA NotifyErrorResultInv ==
    ASSUME DeviceInv, NEW f \in Frames, NotifyErrorResult(f) PROVE DeviceInv'
  <1>1. PICK c \in Capture : c = [hal[f] EXCEPT !.meta = {}]
    BY InHalFacts DEF NotifyErrorResult, Capture
  <1>2. PICK v \in View : v = [view[f] EXCEPT !.meta = {}]
    BY InHalFacts DEF NotifyErrorResult, View
  <1>3. Match(c, v)
    BY <1>1, <1>2, InHalFacts DEF NotifyErrorResult, SavedWithoutResult, Match, Capture, View
  <1>4. QED
    BY <1>1, <1>2, <1>3, InHalFacts, Callback DEF NotifyErrorResult, Capture

LEMMA NotifyErrorRequestInv ==
    ASSUME DeviceInv, NEW f \in Frames, NotifyErrorRequest(f) PROVE DeviceInv'
  <1>1. PICK c \in Capture :
           c = [hal[f] EXCEPT !.stage = "dropped", !.meta = {}, !.shutter = FALSE]
    BY InHalFacts DEF NotifyErrorRequest, Capture
  <1>2. PICK v \in View : v = [view[f] EXCEPT !.dropped = TRUE]
    BY InHalFacts DEF NotifyErrorRequest, View
  <1>3. Match(c, v)
    <2>1. hal[f].stage # "dropped"
      BY InHalFacts DEF NotifyErrorRequest
    <2>2. hal[f].owed = {}
      BY <2>1, InHalFacts DEF NotifyErrorRequest, Match
    <2>3. QED
      BY <1>1, <1>2, <2>2, InHalFacts DEF NotifyErrorRequest, Match, Capture, View
  <1>4. QED
    BY <1>1, <1>2, <1>3, InHalFacts, Callback DEF NotifyErrorRequest, Capture

LEMMA ReturnInputInv ==
    ASSUME DeviceInv, NEW f \in Frames, NEW s \in Streams, ReturnInput(f, s)
    PROVE  DeviceInv'
  <1>1. PICK c \in Capture : c = [hal[f] EXCEPT !.in = {}]
    BY InHalFacts DEF ReturnInput, Capture
  <1>2. PICK v \in View : v = [view[f] EXCEPT !.in = {}]
    BY InHalFacts DEF ReturnInput, View
  <1>3. Match(c, v)
    BY <1>1, <1>2, InHalFacts DEF ReturnInput, Match, Capture, View
  <1>4. s \in hal[f].in /\ c.out = hal[f].out /\ c.in = {}
    BY <1>1, InHalFacts DEF ReturnInput, Capture
  <1>5. QED
    BY <1>1, <1>2, <1>3, <1>4, InHalFacts, Callback DEF ReturnInput

LEMMA HalStepInv ==
    ASSUME DeviceInv, NEW f \in Frames, HalStep(f) PROVE DeviceInv'
  BY BeginInv, NotifyShutterInv, ResultMetadataInv, ReturnBufferInv, ReturnErrorBufferInv,
     NotifyErrorBufferInv, NotifyErrorResultInv, NotifyErrorRequestInv, ReturnInputInv
     DEF HalStep

-----------------------------------------------------------------------------
(* Calls and answers                                                       *)

LEMMA NothingLeft ==
    ASSUME DeviceInv, health # "ok"
    PROVE  \A f \in Frames : hal[f] = NoCapture
  BY DEF DeviceInv, FramesOK, CaptureOK

LEMMA ForgetFacts ==
    ASSUME Forget
    PROVE  /\ view' \in [Frames -> View] /\ lent' \in [Streams -> Nat]
           /\ \A s \in Streams : lent'[s] \in 0..MaxBuffers[s]
           /\ \A f \in Frames : view'[f] = NoView
  <1>1. \A s \in Streams : lent'[s] = 0 /\ 0 \in 0..MaxBuffers[s]
    BY DeviceAssumption DEF Forget
  <1>2. QED
    BY <1>1, NothingType DEF Forget

\* Whoever learns that the device is dead learns it of a HAL that holds nothing.
LEMMA LearnsDeadInv ==
    ASSUME DeviceInv, health # "ok", health' \in {"failing", "dead"}, LearnsDead,
           CallOK', call' \in Call, wanted' \subseteq Streams, flushing' \in BOOLEAN,
           session' \in {"initialized", "configuring", "configured", "closing"}
           \/ (session' = session /\ session # "closed"),
           flushing' => session' = "configured",
           UNCHANGED <<streams, halStreams, lastFrame, lastSettings, halSettings, hal>>
    PROVE  DeviceInv'
  <1>1. Types'
    BY ForgetFacts DEF DeviceInv, Types, TypeOK, LearnsDead
  <1>2. SessionOK' /\ SettingsOK'
    BY DEF DeviceInv, SessionOK, SettingsOK
  <1>3. FramesOK'
    BY NothingLeft, ForgetFacts DEF FramesOK, LearnsDead
  <1>4. QED
    BY <1>1, <1>2, <1>3 DEF DeviceInv

LEMMA OpenInv == ASSUME DeviceInv, Open PROVE DeviceInv'
  <1>1. \A f \in Frames : hal[f] = NoCapture /\ view[f] = NoView
    BY DEF Open, DeviceInv, SessionOK, FramesOK, CaptureOK
  <1>2. call = NoCall
    BY DEF Open, DeviceInv, CallOK, Types, TypeOK, Call
  <1>3. Types' /\ SessionOK' /\ CallOK' /\ SettingsOK'
    <2>1. Types'
      BY DEF Open, DeviceInv, Types, TypeOK, callVars
    <2>2. SessionOK'
      BY <1>1 DEF Open, DeviceInv, SessionOK, callVars
    <2>3. CallOK' /\ SettingsOK'
      BY <1>2, NothingType DEF Open, DeviceInv, SessionOK, CallOK, SettingsOK, callVars
    <2>4. QED
      BY <2>1, <2>2, <2>3
  <1>4. FramesOK' /\ \A f \in Frames : Waited(f)'
    BY <1>1, NothingType DEF Open, FramesOK, Waited, callVars
  <1>5. ASSUME NEW s \in Streams PROVE lent'[s] = Held(s)'
    <2>1. OutFrames(s) = {} /\ InFrames(s) = {}
      BY <1>1, NothingType DEF OutFrames, InFrames
    <2>2. OutFrames(s)' = {} /\ InFrames(s)' = {}
      BY <2>1 DEF OutFrames, InFrames, Open
    <2>3. Held(s)' = 0
      <3>1. call'.stage # "called"
        BY <1>2, NothingType DEF Open, callVars
      <3>2. QED
        BY <2>2, <3>1, FS_EmptySet DEF Held, One
    <2>4. lent'[s] = 0
      BY DEF Open, DeviceInv, SessionOK
    <2>5. QED
      BY <2>3, <2>4
  <1>6. QED
    BY <1>3, <1>4, <1>5 DEF DeviceInv

LEMMA InitializeInv == ASSUME DeviceInv, Initialize PROVE DeviceInv'
  <1>1. \A f \in Frames : hal[f] = NoCapture
    BY DEF Initialize, DeviceInv, FramesOK, CaptureOK
  <1>2. Types' /\ SessionOK'
    <2>1. Types'
      BY DEF Initialize, DeviceInv, Types, TypeOK, callVars
    <2>2. SessionOK'
      <3>1. CASE session' = "initialized" /\ UNCHANGED <<gone, health>>
        BY <3>1 DEF Initialize, DeviceInv, SessionOK, callVars
      <3>2. CASE gone' = TRUE /\ health' = "dead" /\ UNCHANGED session
        BY <3>2 DEF Initialize, DeviceInv, SessionOK, callVars
      <3>3. QED
        BY <3>1, <3>2 DEF Initialize
    <2>3. QED
      BY <2>1, <2>2
  <1>3. CallOK' /\ SettingsOK' /\ FramesOK'
    BY <1>1 DEF Initialize, DeviceInv, CallOK, SettingsOK, FramesOK, callVars
  <1>4. health' = "ok" => \A f \in Frames : Waited(f)'
    BY DEF Initialize, DeviceInv, Waited, callVars
  <1>5. health' = "ok" => \A s \in Streams : lent'[s] = Held(s)'
    BY DEF Initialize, DeviceInv, Held, OutFrames, InFrames, callVars
  <1>6. QED
    BY <1>2, <1>3, <1>4, <1>5 DEF DeviceInv

LEMMA ConstructInv ==
    ASSUME DeviceInv, construct_default_request_settings PROVE DeviceInv'
  <1>1. /\ UNCHANGED <<health, call, wanted, flushing, session, streams, halStreams, lastFrame,
                       lastSettings, halSettings, hal>>
        /\ health # "ok" /\ LearnsDead /\ session # "closed"
    BY DEF construct_default_request_settings, callVars, halVars, Operational
  <1>2. CallOK'
    BY <1>1 DEF DeviceInv, CallOK
  <1>3. QED
    BY <1>1, <1>2, LearnsDeadInv DEF DeviceInv, Types, TypeOK, SessionOK

LEMMA ConfigureInv ==
    ASSUME DeviceInv, NEW config \in SUBSET Streams, configure_streams(config)
    PROVE  DeviceInv'
  <1>1. \A f \in Frames : hal[f] = NoCapture /\ view[f] = NoView
    BY DEF configure_streams, DeviceInv, FramesOK, CaptureOK, Match
  <1>2. Types' /\ SessionOK'
    BY DEF configure_streams, Operational, DeviceInv, Types, TypeOK, SessionOK, halVars
  <1>3. CallOK' /\ SettingsOK' /\ FramesOK'
    BY <1>1, NothingType
       DEF configure_streams, DeviceInv, CallOK, SettingsOK, FramesOK, halVars
  <1>4. health' = "ok" => \A f \in Frames : Waited(f)'
    BY DEF configure_streams, DeviceInv, Waited, halVars
  <1>5. health' = "ok" => \A s \in Streams : lent'[s] = Held(s)'
    BY DEF configure_streams, DeviceInv, Held, OutFrames, InFrames, halVars
  <1>6. QED
    BY <1>2, <1>3, <1>4, <1>5 DEF DeviceInv

LEMMA ConfigureReturnsInv == ASSUME DeviceInv, configure_streams_returns PROVE DeviceInv'
  <1>1. /\ session = "configuring" /\ session' \in {"initialized", "configured"}
        /\ wanted' = {} /\ UNCHANGED <<lastFrame, call, flushing, health, hal>>
    BY DEF configure_streams_returns
  <1>2. /\ call = NoCall /\ ~flushing
        /\ \A f \in Frames : hal[f] = NoCapture
    BY <1>1 DEF DeviceInv, Types, TypeOK, Call, CallOK, SessionOK, FramesOK, CaptureOK
  <1>3. CallOK'
    BY <1>1, <1>2, NothingType DEF CallOK
  <1>4. CASE health = "ok" /\ UNCHANGED <<view, lent, gone>>
    <2>1. Types'
      BY <1>1, <1>4 DEF configure_streams_returns, DeviceInv, Types, TypeOK
    <2>2. SessionOK'
      BY <1>1, <1>2, <1>4 DEF configure_streams_returns, DeviceInv, SessionOK
    <2>3. SettingsOK'
      BY <1>1, <1>2, <1>4, NothingType DEF configure_streams_returns, DeviceInv, SettingsOK
    <2>4. FramesOK'
      BY <1>1, <1>2, <1>4 DEF DeviceInv, FramesOK
    <2>5. \A f \in Frames : Waited(f)'
      BY <1>1, <1>4 DEF DeviceInv, Waited
    <2>6. \A s \in Streams : lent'[s] = Held(s)'
      BY <1>1, <1>4 DEF DeviceInv, Held, OutFrames, InFrames
    <2>7. QED
      BY <1>3, <2>1, <2>2, <2>3, <2>4, <2>5, <2>6 DEF DeviceInv
  <1>5. CASE /\ health # "ok" /\ LearnsDead
             /\ UNCHANGED <<streams, halStreams, lastSettings, halSettings>>
    BY <1>1, <1>2, <1>3, <1>5, NothingType, LearnsDeadInv DEF DeviceInv, Types, TypeOK
  <1>6. QED
    BY <1>4, <1>5 DEF configure_streams_returns

LEMMA RequestInv ==
    ASSUME DeviceInv, NEW out \in SUBSET Streams, NEW in \in SUBSET Streams,
           NEW settings \in Settings \cup {NULL}, process_capture_request(out, in, settings)
    PROVE  DeviceInv'
  <1> DEFINE n == lastFrame + 1
  <1>1. /\ n \in Frames /\ call = NoCall /\ session = "configured" /\ ~gone
        /\ hal[n] = NoCapture /\ view[n] = NoView
        /\ lastFrame \in Nat /\ call.stage = "none"
    BY NothingType, DeviceAssumption
       DEF process_capture_request, DeviceInv, Types, TypeOK, FramesOK, CaptureOK, Frames
  <1>2. /\ lastFrame' = n
        /\ call' \in Call /\ call'.stage = "called" /\ call'.frame = n
        /\ call'.out = out /\ call'.in = in /\ call'.settings = settings
    BY <1>1 DEF process_capture_request, Call
  <1>3. PICK v \in View : v = [NoView EXCEPT !.known = TRUE, !.out = out, !.in = in,
                                             !.meta = Partials]
    BY NothingType DEF View
  <1>4. /\ view' \in [Frames -> View] /\ view'[n] = v /\ v.known
        /\ \A f \in Frames \ {n} : view'[f] = view[f]
    BY <1>1, <1>3 DEF process_capture_request, DeviceInv, Types, TypeOK, NoView
  <1>5. UNCHANGED <<session, streams, lastSettings, gone, wanted, flushing, health, hal,
                    halStreams, halSettings>>
    BY DEF process_capture_request, halVars
  <1>6. /\ lent' \in [Streams -> Nat]
        /\ \A s \in Streams : lent'[s] = lent[s] + One(s \in out) + One(s \in in)
        /\ \A s \in Streams : lent'[s] \in 0..MaxBuffers[s]
    <2>1. \A s \in Streams : lent[s] \in Nat /\ One(s \in out) \in Nat /\ One(s \in in) \in Nat
      BY DEF DeviceInv, Types, One
    <2>2. \A s \in Streams : /\ lent'[s] = lent[s] + One(s \in out) + One(s \in in)
                             /\ lent'[s] <= MaxBuffers[s] /\ MaxBuffers[s] \in Nat
      BY DeviceAssumption DEF process_capture_request
    <2>3. \A s \in Streams : lent'[s] \in Nat /\ lent'[s] \in 0..MaxBuffers[s]
      <3> SUFFICES ASSUME NEW s \in Streams
                   PROVE  lent'[s] \in Nat /\ lent'[s] \in 0..MaxBuffers[s]
        OBVIOUS
      <3> DEFINE a == One(s \in out)
                 b == One(s \in in)
      <3>1. a \in Nat /\ b \in Nat /\ lent[s] \in Nat /\ lent'[s] = lent[s] + a + b
        BY <2>1, <2>2
      <3> HIDE DEF a, b
      <3>2. QED
        BY <3>1, <2>2
    <2>4. QED
      BY <2>2, <2>3 DEF process_capture_request
  <1>7. Types'
    BY <1>1, <1>2, <1>4, <1>5, <1>6 DEF DeviceInv, Types, TypeOK
  <1>8. SessionOK' /\ SettingsOK'
    BY <1>1, <1>2, <1>5 DEF DeviceInv, SessionOK, SettingsOK
  <1>9. CallOK'
    <2>1. out \cup in \subseteq streams /\ OneIn(in)
      BY AtMostOne DEF process_capture_request
    <2>2. hal'[n] = NoCapture
          /\ view'[n] = [NoView EXCEPT !.known = TRUE, !.out = out, !.in = in, !.meta = Partials]
      BY <1>1, <1>3, <1>4, <1>5
    <2>3. QED
      BY <1>1, <1>2, <1>5, <2>1, <2>2 DEF CallOK
  <1>10. FramesOK'
    <2>1. ASSUME NEW f \in Frames
          PROVE  (/\ hal[f] = NoCapture \/ CaptureOK(f)
                  /\ view[f] = NoView \/ (view[f].known /\ f <= lastFrame))'
      <3>1. CASE f = n
        BY <1>1, <1>2, <1>4, <1>5, <3>1
      <3>2. CASE f # n
        <4>1. f <= lastFrame => f <= n
          BY <1>1 DEF Frames
        <4>2. QED
          BY <1>2, <1>4, <1>5, <3>2, <4>1 DEF DeviceInv, FramesOK, CaptureOK
      <3>3. QED
        BY <3>1, <3>2
    <2>2. QED
      BY <2>1 DEF FramesOK
  <1>11. health' = "ok" => \A f \in Frames : Waited(f)'
    <2>1. ASSUME NEW f \in Frames, health' = "ok" PROVE Waited(f)'
      BY <1>1, <1>2, <1>4, <1>5, <2>1 DEF DeviceInv, Waited
    <2>2. QED
      BY <2>1
  <1>12. health' = "ok" => \A s \in Streams : lent'[s] = Held(s)'
    <2>1. ASSUME NEW s \in Streams, health' = "ok" PROVE lent'[s] = Held(s)'
      <3>1. OutFrames(s)' = OutFrames(s) /\ InFrames(s)' = InFrames(s)
        BY <1>5 DEF OutFrames, InFrames
      <3>2. /\ OutFrames(s) \in SUBSET Frames /\ InFrames(s) \in SUBSET Frames
        BY DEF OutFrames, InFrames
      <3>3. lent[s] = Cardinality(OutFrames(s)) + Cardinality(InFrames(s))
        <4>1. lent[s] = Held(s)
          BY <1>5, <2>1 DEF DeviceInv
        <4>2. Cardinality(OutFrames(s)) \in Nat /\ Cardinality(InFrames(s)) \in Nat
          BY <3>2, FramesFinite
        <4>3. Held(s) = Cardinality(OutFrames(s)) + Cardinality(InFrames(s)) + 0 + 0
          BY <1>1 DEF Held, One
        <4>4. QED
          BY <4>1, <4>2, <4>3
      <3>4. Held(s)' = Cardinality(OutFrames(s)) + Cardinality(InFrames(s))
                       + One(s \in out) + One(s \in in)
        BY <1>2, <3>1 DEF Held, One
      <3>5. QED
        BY <1>6, <3>3, <3>4
    <2>2. QED
      BY <2>1
  <1>13. QED
    BY <1>7, <1>8, <1>9, <1>10, <1>11, <1>12 DEF DeviceInv

LEMMA TakeRequestInv == ASSUME DeviceInv, TakeRequest PROVE DeviceInv'
  <1>0. PICK n \in Frames : n = call.frame
    BY DEF TakeRequest, DeviceInv, CallOK
  <1>1. /\ call \in Call /\ call.stage = "called" /\ health = "ok"
        /\ n = call.frame /\ n = lastFrame /\ session = "configured"
        /\ hal[n] = NoCapture
        /\ view[n] = [NoView EXCEPT !.known = TRUE, !.out = call.out, !.in = call.in,
                                    !.meta = Partials]
    BY <1>0 DEF TakeRequest, DeviceInv, Types, TypeOK, CallOK
  <1>2. PICK c \in Capture :
           c = [NoCapture EXCEPT !.stage = "pending", !.reprocess = call.in # {},
                                 !.out = call.out, !.in = call.in,
                                 !.meta = Partials, !.shutter = TRUE]
    <2>1. (call.in # {}) \in BOOLEAN /\ call.out \in SUBSET Streams /\ call.in \in SUBSET Streams
      BY <1>1 DEF Call
    <2>2. ASSUME NEW b \in BOOLEAN, NEW out \in SUBSET Streams, NEW in \in SUBSET Streams
          PROVE  [NoCapture EXCEPT !.stage = "pending", !.reprocess = b, !.out = out, !.in = in,
                                   !.meta = Partials, !.shutter = TRUE] \in Capture
      BY DEF NoCapture, Capture
    <2>3. QED
      BY <2>1, <2>2
  <1>3. /\ hal' \in [Frames -> Capture] /\ hal'[n] = c
        /\ \A f \in Frames \ {n} : hal'[f] = hal[f]
    BY <1>1, <1>2 DEF TakeRequest, DeviceInv, Types, TypeOK
  <1>4. /\ call' \in Call /\ call' # NoCall /\ call'.stage = "taken"
        /\ call'.frame = n /\ call'.out = call.out /\ call'.in = call.in
        /\ call'.settings = call.settings
    BY <1>1 DEF TakeRequest, Call, NoCall
  <1>5. UNCHANGED <<session, streams, lastFrame, lastSettings, view, lent, gone, wanted,
                    flushing, health, halStreams>>
    BY DEF TakeRequest, frameworkVars
  <1>6. Match(c, view[n])
    <2>1. Partials # {}
      BY DeviceAssumption DEF Partials
    <2>2. /\ c.stage = "pending" /\ c.out = call.out /\ c.in = call.in /\ c.meta = Partials
          /\ c.shutter = TRUE /\ c.bad = {} /\ c.owed = {} /\ c.produced = FALSE
      BY <1>2 DEF NoCapture
    <2>3. LET v == view[n]
          IN  /\ v.known = TRUE /\ v.out = call.out /\ v.in = call.in /\ v.meta = Partials
              /\ v.shutter = FALSE /\ v.dropped = FALSE /\ v.returned = {} /\ v.announced = {}
              /\ v.valid = FALSE
      BY <1>1 DEF NoView
    <2>4. QED
      BY <2>1, <2>2, <2>3 DEF Match
  <1>7. c.out = call.out /\ c.in = call.in /\ c # NoCapture
    BY <1>2 DEF NoCapture
  <1>8. Types'
    BY <1>1, <1>3, <1>4, <1>5 DEF TakeRequest, DeviceInv, Types, TypeOK, Call
  <1>9. SessionOK' /\ SettingsOK'
    BY <1>1, <1>4, <1>5 DEF TakeRequest, DeviceInv, SessionOK, SettingsOK
  <1>10. CallOK'
    BY <1>1, <1>4, <1>5 DEF DeviceInv, CallOK
  <1>11. FramesOK'
    <2>1. ASSUME NEW f \in Frames
          PROVE  (/\ hal[f] = NoCapture \/ CaptureOK(f)
                  /\ view[f] = NoView \/ (view[f].known /\ f <= lastFrame))'
      <3>1. CASE f = n
        <4>1. call.out \cup call.in \subseteq streams /\ OneIn(call.in) /\ n <= lastFrame
          BY <1>1 DEF DeviceInv, CallOK, Frames
        <4>2. CaptureOK(n)'
          BY <1>1, <1>3, <1>5, <1>6, <1>7, <4>1 DEF CaptureOK, OneIn, Match
        <4>3. QED
          BY <1>1, <1>5, <3>1, <4>2 DEF DeviceInv, FramesOK
      <3>2. CASE f # n
        BY <1>3, <1>5, <3>2 DEF DeviceInv, FramesOK, CaptureOK
      <3>3. QED
        BY <3>1, <3>2
    <2>2. QED
      BY <2>1 DEF FramesOK
  <1>12. \A f \in Frames : Waited(f)'
    <2>1. ASSUME NEW f \in Frames PROVE Waited(f)'
      <3>1. CASE f = n
        BY <1>3, <1>7, <3>1 DEF Waited
      <3>2. CASE f # n
        BY <1>1, <1>3, <1>5, <3>2 DEF DeviceInv, Waited
      <3>3. QED
        BY <3>1, <3>2
    <2>2. QED
      BY <2>1
  <1>13. ASSUME NEW s \in Streams PROVE lent'[s] = Held(s)'
    <2>1. /\ OutFrames(s) \in SUBSET Frames /\ OutFrames(s)' \in SUBSET Frames
          /\ InFrames(s) \in SUBSET Frames /\ InFrames(s)' \in SUBSET Frames
      BY DEF OutFrames, InFrames
    <2>2. /\ n \notin OutFrames(s) /\ (n \in OutFrames(s)' <=> s \in call.out)
          /\ \A f \in Frames \ {n} : f \in OutFrames(s) <=> f \in OutFrames(s)'
      BY <1>1, <1>3, <1>7, NothingType DEF OutFrames
    <2>3. /\ n \notin InFrames(s) /\ (n \in InFrames(s)' <=> s \in call.in)
          /\ \A f \in Frames \ {n} : f \in InFrames(s) <=> f \in InFrames(s)'
      BY <1>1, <1>3, <1>7, NothingType DEF InFrames
    <2>4. /\ Cardinality(OutFrames(s)) \in Nat
          /\ Cardinality(OutFrames(s)') = Cardinality(OutFrames(s)) + One(s \in call.out)
      <3>1. CASE s \in call.out
        BY <1>1, <2>1, <2>2, <3>1, CountChange DEF One
      <3>2. CASE s \notin call.out
        <4>1. Cardinality(OutFrames(s)') = Cardinality(OutFrames(s))
              /\ Cardinality(OutFrames(s)) \in Nat
          BY <1>1, <2>1, <2>2, <3>2, CountChange
        <4>2. QED
          BY <3>2, <4>1 DEF One
      <3>3. QED
        BY <3>1, <3>2
    <2>5. /\ Cardinality(InFrames(s)) \in Nat
          /\ Cardinality(InFrames(s)') = Cardinality(InFrames(s)) + One(s \in call.in)
      <3>1. CASE s \in call.in
        BY <1>1, <2>1, <2>3, <3>1, CountChange DEF One
      <3>2. CASE s \notin call.in
        <4>1. Cardinality(InFrames(s)') = Cardinality(InFrames(s))
              /\ Cardinality(InFrames(s)) \in Nat
          BY <1>1, <2>1, <2>3, <3>2, CountChange
        <4>2. QED
          BY <3>2, <4>1 DEF One
      <3>3. QED
        BY <3>1, <3>2
    <2>6. lent'[s] = Cardinality(OutFrames(s)) + Cardinality(InFrames(s))
                     + One(s \in call.out) + One(s \in call.in)
      BY <1>1, <1>5 DEF DeviceInv, Held, One
    <2>7. Held(s)' = Cardinality(OutFrames(s)') + Cardinality(InFrames(s)') + 0 + 0
      BY <1>4 DEF Held, One
    <2>8. One(s \in call.out) \in Nat /\ One(s \in call.in) \in Nat
      BY DEF One
    <2>9. QED
      BY <2>4, <2>5, <2>6, <2>7, <2>8
  <1>14. QED
    BY <1>8, <1>9, <1>10, <1>11, <1>12, <1>13 DEF DeviceInv

LEMMA RejectRequestInv == ASSUME DeviceInv, RejectRequest PROVE DeviceInv'
  <1>1. PICK n \in Frames : n = call.frame
    BY DEF RejectRequest, DeviceInv, CallOK
  <1>2. /\ call.stage = "called" /\ health = "ok" /\ n = lastFrame /\ session = "configured"
        /\ hal[n] = NoCapture /\ n \in Nat \ {0}
    BY <1>1, DeviceAssumption DEF RejectRequest, DeviceInv, CallOK, Frames
  <1>3. UNCHANGED <<session, streams, lastSettings, gone, wanted, flushing, health, hal,
                    halStreams, halSettings>>
    BY DEF RejectRequest, halVars
  <1>4. call' = NoCall /\ call'.stage = "none" /\ call' \in Call
    BY NothingType DEF RejectRequest
  <1>5. lastFrame' = n - 1 /\ lastFrame' \in {0} \cup Frames
    BY <1>2, DeviceAssumption DEF RejectRequest, Frames
  <1>6. /\ view' \in [Frames -> View] /\ view'[n] = NoView
        /\ \A f \in Frames \ {n} : view'[f] = view[f]
    BY <1>1, NothingType DEF RejectRequest, DeviceInv, Types, TypeOK
  <1>7. ASSUME NEW s \in Streams
        PROVE  lent'[s] = Held(s)' /\ lent'[s] \in Nat /\ lent'[s] <= lent[s]
    <2>1. OutFrames(s)' = OutFrames(s) /\ InFrames(s)' = InFrames(s)
      BY <1>3 DEF OutFrames, InFrames
    <2>2. Cardinality(OutFrames(s)) \in Nat /\ Cardinality(InFrames(s)) \in Nat
      <3>1. OutFrames(s) \in SUBSET Frames /\ InFrames(s) \in SUBSET Frames
        BY DEF OutFrames, InFrames
      <3>2. QED
        BY <3>1, FramesFinite
    <2>3. lent[s] = Cardinality(OutFrames(s)) + Cardinality(InFrames(s))
                    + One(s \in call.out) + One(s \in call.in)
      BY <1>2 DEF DeviceInv, Held, One
    <2>4. Held(s)' = Cardinality(OutFrames(s)) + Cardinality(InFrames(s)) + 0 + 0
      BY <1>4, <2>1 DEF Held, One
    <2>5. lent'[s] = lent[s] - One(s \in call.out) - One(s \in call.in)
      BY DEF RejectRequest
    <2>6. One(s \in call.out) \in Nat /\ One(s \in call.in) \in Nat
      BY DEF One
    <2>7. QED
      BY <2>2, <2>3, <2>4, <2>5, <2>6
  <1>8. Types'
    <2>1. lent' \in [Streams -> Nat]
      BY <1>7 DEF RejectRequest
    <2>2. \A s \in Streams : lent'[s] \in 0..MaxBuffers[s]
      <3>1. \A s \in Streams : lent[s] \in 0..MaxBuffers[s] /\ MaxBuffers[s] \in Nat
        BY DeviceAssumption DEF DeviceInv, Types, TypeOK
      <3>2. QED
        BY <1>7, <3>1
    <2>3. QED
      BY <1>3, <1>4, <1>5, <1>6, <2>1, <2>2 DEF DeviceInv, Types, TypeOK
  <1>9. SessionOK' /\ SettingsOK' /\ CallOK'
    BY <1>2, <1>3, <1>4 DEF DeviceInv, SessionOK, SettingsOK, CallOK
  <1>10. FramesOK'
    <2>1. ASSUME NEW f \in Frames
          PROVE  (/\ hal[f] = NoCapture \/ CaptureOK(f)
                  /\ view[f] = NoView \/ (view[f].known /\ f <= lastFrame))'
      <3>1. CASE f = n
        BY <1>2, <1>3, <1>6, <3>1
      <3>2. CASE f # n
        <4>1. f <= lastFrame => f <= n - 1
          BY <1>2, <3>2 DEF Frames
        <4>2. QED
          BY <1>3, <1>5, <1>6, <3>2, <4>1 DEF DeviceInv, FramesOK, CaptureOK
      <3>3. QED
        BY <3>1, <3>2
    <2>2. QED
      BY <2>1 DEF FramesOK
  <1>11. \A f \in Frames : Waited(f)'
    <2>1. ASSUME NEW f \in Frames PROVE Waited(f)'
      <3>1. CASE f = n
        BY <1>6, <3>1, NothingType DEF Waited
      <3>2. CASE f # n
        BY <1>1, <1>2, <1>3, <1>6, <3>2 DEF DeviceInv, Waited
      <3>3. QED
        BY <3>1, <3>2
    <2>2. QED
      BY <2>1
  <1>12. QED
    BY <1>7, <1>8, <1>9, <1>10, <1>11 DEF DeviceInv

LEMMA RequestReturnsInv ==
    ASSUME DeviceInv, process_capture_request_returns PROVE DeviceInv'
  <1>1. /\ call.stage # "none" /\ session = "configured"
        /\ call' = NoCall /\ call'.stage = "none" /\ call' \in Call
        /\ UNCHANGED <<session, streams, lastFrame, wanted, flushing, health, hal,
                       halStreams, halSettings>>
    BY NothingType DEF process_capture_request_returns, DeviceInv, CallOK, halVars
  <1>2. CallOK'
    BY <1>1 DEF CallOK
  <1>3. CASE /\ call.stage = "taken"
             /\ lastSettings' = IF call.settings = NULL THEN lastSettings ELSE call.settings
             /\ UNCHANGED <<view, lent, gone>>
    <2>1. Types'
      BY <1>1, <1>3 DEF DeviceInv, Types, TypeOK, Call
    <2>2. SessionOK' /\ SettingsOK' /\ FramesOK'
      BY <1>1, <1>3 DEF DeviceInv, SessionOK, SettingsOK, FramesOK, CaptureOK
    <2>3. health' = "ok" => \A f \in Frames : Waited(f)'
      BY <1>1, <1>3 DEF DeviceInv, Waited
    <2>4. health' = "ok" => \A s \in Streams : lent'[s] = Held(s)'
      BY <1>1, <1>3 DEF DeviceInv, Held, OutFrames, InFrames, One
    <2>5. QED
      BY <1>2, <2>1, <2>2, <2>3, <2>4 DEF DeviceInv
  <1>4. CASE health # "ok" /\ LearnsDead /\ UNCHANGED lastSettings
    BY <1>1, <1>2, <1>4, LearnsDeadInv DEF DeviceInv, Types, TypeOK
  <1>5. QED
    BY <1>3, <1>4 DEF process_capture_request_returns

\* A step that touches neither captures nor views nor the call.
LEMMA FlushInv == ASSUME DeviceInv, flush PROVE DeviceInv'
  <1>1. Types' /\ SessionOK' /\ CallOK' /\ SettingsOK'
    BY DEF flush, DeviceInv, Types, TypeOK, SessionOK, CallOK, SettingsOK, frameworkVars, halVars
  <1>2. FramesOK' /\ (health' = "ok" => \A f \in Frames : Waited(f)')
    BY DEF flush, DeviceInv, FramesOK, CaptureOK, Waited, frameworkVars, halVars
  <1>3. health' = "ok" => \A s \in Streams : lent'[s] = Held(s)'
    BY DEF flush, DeviceInv, Held, OutFrames, InFrames, frameworkVars, halVars
  <1>4. QED
    BY <1>1, <1>2, <1>3 DEF DeviceInv

LEMMA FlushReturnsInv == ASSUME DeviceInv, flush_returns PROVE DeviceInv'
  <1>1. /\ flushing' = FALSE
        /\ UNCHANGED <<session, streams, lastFrame, lastSettings, wanted, call, health, hal,
                       halStreams, halSettings>>
    BY DEF flush_returns, halVars
  <1>2. session = "configured"
    BY DEF flush_returns, DeviceInv, SessionOK
  <1>3. CASE health = "ok" /\ UNCHANGED <<view, lent, gone>>
    <2>1. Types' /\ SessionOK' /\ CallOK' /\ SettingsOK'
      BY <1>1, <1>3 DEF DeviceInv, Types, TypeOK, SessionOK, CallOK, SettingsOK
    <2>2. FramesOK' /\ (health' = "ok" => \A f \in Frames : Waited(f)')
      BY <1>1, <1>3 DEF DeviceInv, FramesOK, CaptureOK, Waited
    <2>3. health' = "ok" => \A s \in Streams : lent'[s] = Held(s)'
      BY <1>1, <1>3 DEF DeviceInv, Held, OutFrames, InFrames
    <2>4. QED
      BY <2>1, <2>2, <2>3 DEF DeviceInv
  <1>4. CASE health # "ok" /\ LearnsDead
    <2>1. CallOK'
      BY <1>1, <1>4 DEF DeviceInv, CallOK
    <2>2. QED
      BY <1>1, <1>2, <1>4, <2>1, LearnsDeadInv DEF DeviceInv, Types, TypeOK
  <1>5. QED
    BY <1>3, <1>4 DEF flush_returns

LEMMA CloseInv == ASSUME DeviceInv, close PROVE DeviceInv'
  <1>1. Types' /\ SessionOK'
    BY DEF close, DeviceInv, Types, TypeOK, SessionOK, callVars, halVars
  <1>2. CallOK' /\ SettingsOK'
    BY NothingType DEF close, DeviceInv, CallOK, SettingsOK, callVars, halVars
  <1>3. FramesOK' /\ (health' = "ok" => \A f \in Frames : Waited(f)')
    BY DEF close, DeviceInv, FramesOK, CaptureOK, Waited, callVars, halVars
  <1>4. health' = "ok" => \A s \in Streams : lent'[s] = Held(s)'
    BY DEF close, DeviceInv, Held, OutFrames, InFrames, callVars, halVars
  <1>5. QED
    BY <1>1, <1>2, <1>3, <1>4 DEF DeviceInv

LEMMA CloseReturnsInv == ASSUME DeviceInv, close_returns PROVE DeviceInv'
  <1>1. /\ call = NoCall /\ ~flushing
    BY DEF close_returns, DeviceInv, SessionOK, CallOK, Types, TypeOK, Call
  <1>2. Types'
    BY ForgetFacts DEF close_returns, DeviceInv, Types, TypeOK, callVars
  <1>3. SessionOK' /\ CallOK' /\ SettingsOK'
    BY <1>1, NothingType DEF close_returns, Forget, SessionOK, CallOK, SettingsOK, callVars
  <1>4. FramesOK'
    BY ForgetFacts DEF close_returns, FramesOK
  <1>5. QED
    BY <1>2, <1>3, <1>4 DEF DeviceInv, close_returns

LEMMA FailInv == ASSUME DeviceInv, Fail PROVE DeviceInv'
  <1>1. Types'
    BY NothingType DEF Fail, DeviceInv, Types, TypeOK, frameworkVars, callVars
  <1>2. SessionOK' /\ CallOK' /\ SettingsOK'
    BY DEF Fail, DeviceInv, SessionOK, CallOK, SettingsOK, frameworkVars, callVars
  <1>3. FramesOK'
    BY DEF Fail, DeviceInv, FramesOK, frameworkVars, callVars
  <1>4. QED
    BY <1>1, <1>2, <1>3 DEF DeviceInv, Fail

LEMMA NotifyErrorDeviceInv == ASSUME DeviceInv, NotifyErrorDevice PROVE DeviceInv'
  <1>1. /\ health = "failing" /\ health' = "dead" /\ LearnsDead
        /\ UNCHANGED <<session, streams, lastFrame, lastSettings, wanted, call, flushing, hal,
                       halStreams, halSettings>>
    BY DEF NotifyErrorDevice, callVars
  <1>2. CallOK'
    BY <1>1 DEF DeviceInv, CallOK
  <1>3. CASE session # "closed"
    BY <1>1, <1>2, <1>3, LearnsDeadInv DEF DeviceInv, Types, TypeOK, SessionOK
  <1>4. CASE session = "closed"
    <2>1. Types'
      BY <1>1, ForgetFacts DEF DeviceInv, Types, TypeOK, LearnsDead
    <2>2. SessionOK' /\ SettingsOK'
      BY <1>1 DEF DeviceInv, SessionOK, SettingsOK, LearnsDead, Forget
    <2>3. FramesOK'
      BY <1>1, NothingLeft, ForgetFacts DEF FramesOK, LearnsDead
    <2>4. QED
      BY <1>1, <1>2, <2>1, <2>2, <2>3 DEF DeviceInv
  <1>5. QED
    BY <1>3, <1>4

-----------------------------------------------------------------------------
(* Every step                                                              *)

LEMMA StutterInv == ASSUME DeviceInv, UNCHANGED vars PROVE DeviceInv'
  <1>1. UNCHANGED <<session, streams, lastFrame, lastSettings, view, lent, gone, wanted, call,
                    flushing, health, hal, halStreams, halSettings>>
    BY DEF vars, frameworkVars, callVars, halVars
  <1>2. Types' /\ SessionOK' /\ CallOK' /\ SettingsOK'
    BY <1>1 DEF DeviceInv, Types, TypeOK, SessionOK, CallOK, SettingsOK
  <1>3. FramesOK' /\ (health' = "ok" => \A f \in Frames : Waited(f)')
    BY <1>1 DEF DeviceInv, FramesOK, CaptureOK, Waited
  <1>4. health' = "ok" => \A s \in Streams : lent'[s] = Held(s)'
    BY <1>1 DEF DeviceInv, Held, OutFrames, InFrames
  <1>5. QED
    BY <1>2, <1>3, <1>4 DEF DeviceInv

LEMMA NextInv == DeviceInv /\ [Next]_vars => DeviceInv'
  <1> SUFFICES ASSUME DeviceInv, [Next]_vars PROVE DeviceInv'
    OBVIOUS
  <1>1. CASE Framework
    <2>1. ASSUME NEW shape \in Shapes, NEW settings \in Settings \cup {NULL},
                 process_capture_request(shape[1], shape[2], settings)
          PROVE  DeviceInv'
      <3>1. shape[1] \in SUBSET Streams /\ shape[2] \in SUBSET Streams
        BY DeviceAssumption
      <3>2. QED
        BY <2>1, <3>1, RequestInv
    <2>2. QED
      BY <1>1, <2>1, OpenInv, InitializeInv, ConstructInv, ConfigureInv, FlushInv, CloseInv
         DEF Framework
  <1>2. CASE Answer
    BY <1>2, ConfigureReturnsInv, TakeRequestInv, RejectRequestInv, RequestReturnsInv,
       CloseReturnsInv DEF Answer
  <1>3. CASE Pipeline
    BY <1>3, HalStepInv, NotifyErrorDeviceInv DEF Pipeline
  <1>4. QED
    BY <1>1, <1>2, <1>3, FlushReturnsInv, FailInv, StutterInv DEF Next

LEMMA AlwaysInv == Spec => []DeviceInv
  BY InitInv, NextInv, PTL DEF Spec

-----------------------------------------------------------------------------
(* The theorems                                                            *)

\* Every variable keeps its type: the framework never lends more buffers of a
\* stream than max_buffers, and never counts below zero.
THEOREM TypeCorrect == Spec => []TypeOK
  <1>1. DeviceInv => TypeOK
    BY InvIsEnough
  <1>2. QED
    BY <1>1, AlwaysInv, PTL

\* No callback comes that the framework does not expect: not after close()
\* returned or the device was declared dead, and not for streams it has freed.
THEOREM CallbacksAreExpected == Spec => []CallbacksExpected
  <1>1. DeviceInv => CallbacksExpected
    BY InvIsEnough
  <1>2. QED
    BY <1>1, AlwaysInv, PTL

\* A frame the framework still waits for is in the HAL or about to be: the
\* errors, buffers and metadata of a frame, in whatever order, tell its end.
THEOREM FramesAnswered == Spec => []EveryFrameAnswered
  <1>1. DeviceInv => EveryFrameAnswered
    BY InvIsEnough
  <1>2. QED
    BY <1>1, AlwaysInv, PTL

\* The buffers the framework misses are those that captures hold or that a
\* call hands over: none is lost or returned twice.
THEOREM BuffersAreConserved == Spec => []BuffersConserved
  <1>1. DeviceInv => BuffersConserved
    BY InvIsEnough
  <1>2. QED
    BY <1>1, AlwaysInv, PTL

\* The partial errors of a capture never add up to the loss of all of it.
THEOREM SomethingStillComes == Spec => []SomethingComes
  <1>1. DeviceInv => SomethingComes
    BY InvIsEnough
  <1>2. QED
    BY <1>1, AlwaysInv, PTL

\* Between requests framework and HAL mean the same settings by NULL, whatever
\* was refused before.
THEOREM SettingsAgreed == Spec => []SettingsAgree
  <1>1. DeviceInv => SettingsAgree
    BY InvIsEnough
  <1>2. QED
    BY <1>1, AlwaysInv, PTL

\* When flush() returns 0 the framework has all back but the request it is
\* just handing over.
THEOREM FlushHasQuiesced == Spec => FlushQuiesces
  <1> DEFINE Quiet == flushing /\ ~flushing' /\ ~gone' =>
                         \A f \in Frames : view'[f].known =>
                            call.stage = "called" /\ call.frame = f
  <1>1. ASSUME DeviceInv, [Next]_vars PROVE Quiet
    <2> SUFFICES ASSUME flushing, ~flushing', ~gone' PROVE Quiet
      OBVIOUS
    <2>1. flush_returns
      <3>1. ~(Open \/ Initialize \/ construct_default_request_settings \/ flush \/ close)
            /\ \A config \in SUBSET Streams : ~configure_streams(config)
        BY DEF Open, Initialize, construct_default_request_settings, flush, close,
               configure_streams, callVars
      <3>2. ~Framework
        BY <3>1 DEF Framework, process_capture_request
      <3>3. ~Answer
        BY DEF Answer, configure_streams_returns, TakeRequest, RejectRequest,
               process_capture_request_returns, close_returns, callVars
      <3>4. ~Pipeline
        <4>1. CallbackUnchanged => flushing' = flushing
          BY DEF CallbackUnchanged, callVars
        <4>2. \A f \in Frames : HalStep(f) => CallbackUnchanged
          BY DEF HalStep, Begin, NotifyShutter, ResultMetadata, ReturnBuffer, ReturnErrorBuffer,
                 NotifyErrorBuffer, NotifyErrorResult, NotifyErrorRequest, ReturnInput
        <4>3. ~NotifyErrorDevice
          BY DEF NotifyErrorDevice, callVars
        <4>4. QED
          BY <4>1, <4>2, <4>3 DEF Pipeline
      <3>5. ~Fail /\ ~UNCHANGED vars
        BY DEF Fail, vars, callVars
      <3>6. QED
        BY <1>1, <3>2, <3>3, <3>4, <3>5 DEF Next
    <2>2. CASE health = "ok" /\ (\A f \in Frames : hal[f] = NoCapture) /\ UNCHANGED view
      BY <1>1, <2>2 DEF DeviceInv, Waited
    <2>3. CASE LearnsDead
      BY <2>3 DEF LearnsDead
    <2>4. QED
      BY <2>1, <2>2, <2>3 DEF flush_returns
  <1>2. QED
    BY <1>1, AlwaysInv, PTL DEF Spec, FlushQuiesces
=============================================================================
