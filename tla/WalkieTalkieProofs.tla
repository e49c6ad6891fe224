------------------------- MODULE WalkieTalkieProofs -------------------------
(***************************************************************************)
(* What VoiceTerminal says of the recorder and the button, and what        *)
(* WalkieTalkie says of a microphone that the volume key opened, for any   *)
(* number of activities, engines, sessions, callbacks and broadcasts.      *)
(*                                                                         *)
(* The terminal: every thread, live or not, is the engine's of the live    *)
(* activity, and there is at most one; a callback that is not a result     *)
(* comes from a thread that records no more.  So whatever puts the button  *)
(* back to MIC either has just ended the session or is from another one.   *)
(*                                                                         *)
(* The two together: unless a service was destroyed with the key down, a   *)
(* lock that is open again has MIC_STOP as the last broadcast sent, or     *)
(* all broadcasts are delivered and the recording is not the key's.        *)
(***************************************************************************)
EXTENDS WalkieTalkie, VolumeHijackProofs

\* The variables but those of the recorder.
DeviceTypes ==
    /\ activities \in 0..MaxActivities
    /\ granted \in BOOLEAN /\ modelOnDisk \in BOOLEAN /\ isArmed \in BOOLEAN
    /\ injection \in {"idle", "extracting", "injected", "orphaned"}
    /\ services \in 0..MaxServices

\* The recorder, its engine and its button.
RecorderTypes ==
    /\ activity \in 0..MaxActivities /\ speechService \in 0..MaxServices
    /\ micButton \in {"MIC", "LISTENING"}
    /\ threads \subseteq Threads /\ sessions \in 0..MaxSessions
    /\ mainQueue \in Seq(Callbacks)
    /\ overtaken \in BOOLEAN /\ unserved \in BOOLEAN

\* The threads are the engine's; there is one at most.
ThreadInv ==
    /\ \A t \in threads : activity # 0 /\ t.service = speechService /\ t.session <= sessions
    /\ \A t, u \in threads : t = u

\* A callback in q is of a session that was started, and of one that has ended
\* if it is not a result.
Past(q) ==
    \A i \in 1..Len(q) :
        /\ q[i].session <= sessions
        /\ q[i].cb # "onResult" => \A t \in Live : t.session # q[i].session

ButtonInv ==
    /\ Recording /\ ~overtaken => micButton = "LISTENING"
    /\ micButton = "LISTENING" /\ activity # 0 => threads # {} \/ unserved

RecorderInv == RecorderTypes /\ ThreadInv /\ Past(mainQueue) /\ ButtonInv

VInv == DeviceTypes /\ RecorderInv

\* A runnable left behind means a service forgot the microphone; ...
StrayInv == strayCallbacks # <<>> => forgotten

\* ... otherwise a lock that is not open has closed what it opened, or is about to.
ClosedInv ==
    ~forgotten /\ ~isMicTriggered =>
        /\ broadcasts # <<>> => broadcasts[Len(broadcasts)] = "MIC_STOP"
        /\ broadcasts = <<>> => ~(Recording /\ opener = "key")

WTypeInv == broadcasts \in Seq(Mic) /\ opener \in {"key", "button"} /\ forgotten \in BOOLEAN

WInv == TypeOK /\ HardwareLock /\ VInv /\ WTypeInv /\ StrayInv /\ ClosedInv
-----------------------------------------------------------------------------
(* The recorder.                                                           *)

\* The engine holds all the threads there are.
LEMMA HeldIsAll ==
    RecorderInv => /\ Held(speechService) = threads
                   /\ speechService = 0 => threads = {}
  BY DEF RecorderInv, RecorderTypes, ThreadInv, Held, Threads

\* A step that leaves the recorder alone, and the engine too unless there was none.
LEMMA RecorderFrame ==
    ASSUME RecorderInv, UNCHANGED <<activity, micButton, threads, sessions, mainQueue,
                                    overtaken, unserved>>,
           speechService' \in 0..MaxServices,
           speechService # 0 => speechService' = speechService
    PROVE  RecorderInv'
<1>1. \A t \in threads : t.service = speechService'
  BY HeldIsAll DEF RecorderInv, ThreadInv
<1>2. RecorderTypes'
  BY DEF RecorderInv, RecorderTypes
<1>3. ThreadInv'
  BY <1>1 DEF RecorderInv, ThreadInv
<1>4. Past(mainQueue)'
  BY DEF RecorderInv, Past, Live
<1>5. ButtonInv'
  BY DEF RecorderInv, ButtonInv, Recording, Live
<1> QED
  BY <1>2, <1>3, <1>4, <1>5 DEF RecorderInv

\* The start of a session leaves a button that says so over a recorder, or over
\* an engine that could not be built.
LEMMA RecorderStarts ==
    ASSUME RecorderInv, activity # 0, activity' = activity,
           speechService' \in 0..MaxServices,
           speechService # 0 => speechService' = speechService,
           StartListening(speechService'), micButton' = "LISTENING"
    PROVE  RecorderInv'
<1>0. /\ \A t \in threads : t.service = speechService'
      /\ Held(speechService') = threads
  BY HeldIsAll DEF RecorderInv, ThreadInv, Held
<1>t. /\ threads \subseteq Threads /\ sessions \in 0..MaxSessions /\ mainQueue \in Seq(Callbacks)
      /\ overtaken \in BOOLEAN /\ activity \in 0..MaxActivities
      /\ \A t \in threads : t.session <= sessions
      /\ \A t, u \in threads : t = u
  BY DEF RecorderInv, RecorderTypes, ThreadInv
<1>1. CASE speechService' = 0 \/ threads # {}
  <2>1. /\ unserved' = (speechService' = 0)
        /\ UNCHANGED <<threads, sessions, mainQueue, overtaken>>
    BY <1>0, <1>1 DEF StartListening
  <2>2. speechService' = 0 => threads = {}
    BY <1>0, <1>t DEF Threads
  <2>3. RecorderTypes'
    BY <1>t, <2>1 DEF RecorderTypes
  <2>4. ThreadInv'
    BY <1>0, <1>t, <2>1 DEF ThreadInv
  <2>5. Past(mainQueue)'
    BY <2>1 DEF RecorderInv, Past, Live
  <2>6. ButtonInv'
    BY <1>1, <2>1 DEF ButtonInv
  <2> QED
    BY <2>3, <2>4, <2>5, <2>6 DEF RecorderInv
<1>2. CASE speechService' # 0 /\ threads = {}
  <2> DEFINE new == [service |-> speechService', session |-> sessions + 1, live |-> TRUE]
  <2>1. /\ sessions < MaxSessions /\ sessions' = sessions + 1
        /\ threads' = {new} /\ ~overtaken' /\ ~unserved' /\ mainQueue' = mainQueue
        /\ overtaken' \in BOOLEAN /\ unserved' \in BOOLEAN
    BY <1>0, <1>2 DEF StartListening
  <2>2. sessions' \in 0..MaxSessions
    BY <1>t, <2>1, VoiceBoundsAssumption
  <2>3. new \in Threads
    BY <1>2, <1>t, <2>1, VoiceBoundsAssumption DEF Threads
  <2>4. RecorderTypes'
    BY <1>t, <2>1, <2>2, <2>3 DEF RecorderTypes
  <2>5. ThreadInv'
    BY <1>t, <2>1 DEF ThreadInv
  <2>6. Past(mainQueue)'
    <3>1. ASSUME NEW i \in 1..Len(mainQueue) PROVE mainQueue[i].session <= sessions /\ mainQueue[i].session \in Nat
      <4>1. mainQueue[i] \in Callbacks
        BY <1>t
      <4>2. mainQueue[i].session \in Nat
        BY <4>1, VoiceBoundsAssumption DEF Callbacks
      <4> QED
        BY <4>2 DEF RecorderInv, Past
    <3> QED
      BY <1>t, <2>1, <3>1 DEF Past, Live
  <2>7. ButtonInv'
    BY <2>1 DEF ButtonInv
  <2> QED
    BY <2>4, <2>5, <2>6, <2>7 DEF RecorderInv
<1> QED
  BY <1>1, <1>2

\* The end of a session, with the callbacks in q still to run: no thread is
\* left, and the last words of the one that recorded join the queue.
LEMMA RecorderStops ==
    ASSUME RecorderInv, NEW svc, Held(svc) = threads,
           NEW q \in Seq(Callbacks), Past(q), Stop(svc, q),
           micButton' = "MIC" \/ (activity' = 0 /\ micButton' = micButton),
           activity' \in {0, activity}, speechService' \in 0..MaxServices,
           overtaken' \in BOOLEAN
    PROVE  RecorderInv' /\ threads' = {}
<1>t. /\ threads \subseteq Threads /\ sessions \in 0..MaxSessions
      /\ activity \in 0..MaxActivities /\ micButton \in {"MIC", "LISTENING"}
      /\ unserved \in BOOLEAN
      /\ \A t \in threads : activity # 0 /\ t.session <= sessions
  BY DEF RecorderInv, RecorderTypes, ThreadInv
<1>1. threads' = {} /\ sessions' = sessions /\ unserved' = unserved
  BY DEF Stop
<1>2. mainQueue' \in Seq(Callbacks) /\ \A i \in 1..Len(mainQueue') : mainQueue'[i].session <= sessions
  <2>1. CASE \E t \in threads : t.live
    <3> DEFINE t == CHOOSE t \in threads : t.live
               c == Posted("onFinalResult", t)
    <3>1. t \in threads
      BY <2>1
    <3>2. mainQueue' = Append(q, c)
      BY <2>1 DEF Stop
    <3>3. /\ t.session \in 1..MaxSessions /\ t.session <= sessions
          /\ activity \in 1..MaxActivities
      BY <1>t, <3>1, VoiceBoundsAssumption DEF Threads
    <3> HIDE DEF t
    <3>4. c \in Callbacks /\ c.session <= sessions
      BY <3>3 DEF Posted, Callbacks
    <3> HIDE DEF c
    <3>5. \A i \in 1..Len(q) : q[i].session <= sessions
      BY DEF Past
    <3> QED
      BY <3>2, <3>4, <3>5
  <2>2. CASE ~\E t \in threads : t.live
    BY <2>2 DEF Stop, Past
  <2> QED
    BY <2>1, <2>2
<1>3. RecorderTypes'
  BY <1>t, <1>1, <1>2, VoiceBoundsAssumption DEF RecorderTypes
<1>4. ThreadInv' /\ Live' = {}
  BY <1>1 DEF ThreadInv, Live
<1>5. Past(mainQueue)'
  BY <1>1, <1>2, <1>4 DEF Past
<1>6. ButtonInv'
  BY <1>4 DEF ButtonInv, Recording
<1> QED
  BY <1>1, <1>3, <1>4, <1>5, <1>6 DEF RecorderInv

\* The tail of the queue is as past as the queue.
LEMMA PastTail ==
    ASSUME RecorderInv, mainQueue # <<>>
    PROVE  /\ Tail(mainQueue) \in Seq(Callbacks) /\ Past(Tail(mainQueue))
           /\ Head(mainQueue) \in Callbacks
           /\ Head(mainQueue).cb # "onResult" => \A t \in Live : t.session # Head(mainQueue).session
<1> DEFINE q == mainQueue
<1>1. q \in Seq(Callbacks) /\ Past(q)
  BY DEF RecorderInv, RecorderTypes
<1> HIDE DEF q
<1>2. /\ Tail(q) \in Seq(Callbacks) /\ Len(Tail(q)) = Len(q) - 1 /\ Len(q) \in Nat \ {0}
      /\ \A i \in 1..Len(Tail(q)) : Tail(q)[i] = q[i + 1]
      /\ Head(q) = q[1] /\ q[1] \in Callbacks
  BY <1>1 DEF q
<1>3. \A i \in 1..Len(Tail(q)) : i + 1 \in 1..Len(q)
  BY <1>2
<1> QED
  BY <1>1, <1>2, <1>3 DEF Past, q
-----------------------------------------------------------------------------
(* The terminal.                                                           *)

\* What building an engine leaves in place.
LEMMA EngineTypes ==
    ASSUME DeviceTypes, RecorderInv, NEW armed, InitVoskService(armed) \/ UNCHANGED engine
    PROVE  /\ speechService' \in 0..MaxServices /\ services' \in 0..MaxServices
           /\ speechService # 0 => speechService' = speechService
<1>1. services \in 0..MaxServices /\ speechService \in 0..MaxServices /\ MaxServices \in Nat
  BY VoiceBoundsAssumption DEF DeviceTypes, RecorderInv, RecorderTypes
<1>2. CASE UNCHANGED engine
  BY <1>1, <1>2 DEF engine
<1>3. CASE services < MaxServices /\ services' = services + 1 /\ speechService' = services + 1
           /\ speechService = 0
  BY <1>1, <1>3
<1> QED
  BY <1>2, <1>3 DEF InitVoskService

\* startVoskListening, which MIC_START leads to.
LEMMA StartVosk ==
    ASSUME VInv, activity # 0, UNCHANGED <<activity, activities, granted, shield, injection>>,
           StartVoskListening \/ UNCHANGED <<engine, recorder, micButton>>
    PROVE  VInv'
<1>1. CASE UNCHANGED <<engine, recorder, micButton>>
  <2>1. RecorderInv'
    BY <1>1, RecorderFrame DEF VInv, RecorderInv, RecorderTypes, engine, recorder
  <2> QED
    BY <1>1, <2>1 DEF VInv, DeviceTypes, engine, shield
<1>2. CASE StartVoskListening /\ isArmed
  <2>1. /\ speechService' \in 0..MaxServices /\ services' \in 0..MaxServices
        /\ speechService # 0 => speechService' = speechService
    BY <1>2, EngineTypes DEF StartVoskListening, VInv
  <2>2. RecorderInv'
    BY <1>2, <2>1, RecorderStarts DEF StartVoskListening, VInv
  <2> QED
    BY <2>1, <2>2 DEF VInv, DeviceTypes, shield
<1> QED
  BY <1>1, <1>2 DEF StartVoskListening

\* MIC_START opens the microphone, ...
LEMMA OnMicStartKeeps == VInv /\ OnMicStart => VInv'
  BY StartVosk DEF OnMicStart

\* ... MIC_STOP cuts it.
LEMMA OnMicStopKeeps == VInv /\ OnMicStop => VInv' /\ threads' = {}
<1> SUFFICES ASSUME VInv, OnMicStop PROVE VInv' /\ threads' = {}
  OBVIOUS
<1>1. Stop(speechService, mainQueue) /\ micButton' = "MIC"
  BY DEF OnMicStop
<1>2. /\ mainQueue \in Seq(Callbacks) /\ Past(mainQueue) /\ overtaken' \in BOOLEAN
      /\ activity' = activity /\ speechService' \in 0..MaxServices
  BY DEF OnMicStop, engine, VInv, RecorderInv, RecorderTypes
<1>3. RecorderInv' /\ threads' = {}
  BY <1>1, <1>2, HeldIsAll, RecorderStops DEF VInv
<1> QED
  BY <1>3 DEF OnMicStop, engine, shield, VInv, DeviceTypes

\* The death of the process takes everything along.
LEMMA VKillKeeps == VInv /\ VKill => VInv' /\ threads' = {}
<1> SUFFICES ASSUME VInv, VKill PROVE VInv' /\ threads' = {}
  OBVIOUS
<1>1. DeviceTypes'
  BY DEF VKill, VInv, DeviceTypes
<1>2. RecorderTypes'
  <2>1. sessions \in 0..MaxSessions /\ <<>> \in Seq(Callbacks)
    BY DEF VInv, RecorderInv, RecorderTypes
  <2>2. 0 \in 0..MaxActivities /\ 0 \in 0..MaxServices
    BY VoiceBoundsAssumption
  <2>3. overtaken' \in BOOLEAN /\ unserved' \in BOOLEAN
    BY DEF VKill
  <2> QED
    BY <2>1, <2>2, <2>3 DEF VKill, RecorderTypes
<1>3. ThreadInv' /\ Past(mainQueue)' /\ ButtonInv' /\ threads' = {}
  BY DEF VKill, ThreadInv, Past, ButtonInv, Recording, Live
<1> QED
  BY <1>1, <1>2, <1>3 DEF VInv, RecorderInv

\* Every other step of the terminal.
LEMMA VStepKeeps == VInv /\ VStep => VInv'
<1> SUFFICES ASSUME VInv, VStep PROVE VInv'
  OBVIOUS
<1>r. RecorderInv /\ DeviceTypes /\ RecorderTypes
  BY DEF VInv, RecorderInv
<1>1. CASE OnCreate
  <2>1. threads = {} /\ activities + 1 \in 1..MaxActivities
    BY <1>1, <1>r, VoiceBoundsAssumption DEF OnCreate, RecorderInv, ThreadInv, DeviceTypes
  <2>2. speechService' \in 0..MaxServices /\ services' \in 0..MaxServices
    BY <1>1, <1>r, EngineTypes DEF OnCreate
  <2>3. DeviceTypes'
    BY <1>1, <1>r, <2>1, <2>2 DEF OnCreate, DeviceTypes
  <2>4. RecorderTypes'
    BY <1>1, <1>r, <2>1, <2>2 DEF OnCreate, RecorderTypes, recorder
  <2>5. ThreadInv' /\ ButtonInv'
    BY <1>1, <2>1 DEF OnCreate, recorder, ThreadInv, ButtonInv, Recording, Live
  <2>6. Past(mainQueue)'
    BY <1>1, <1>r DEF OnCreate, recorder, RecorderInv, Past, Live
  <2> QED
    BY <2>3, <2>4, <2>5, <2>6 DEF VInv, RecorderInv
<1>2. CASE OnActivityDestroy
  <2>1. /\ Stop(speechService, mainQueue) /\ activity' = 0 /\ micButton' = micButton
        /\ speechService' = 0 /\ overtaken' = overtaken
    BY <1>2 DEF OnActivityDestroy
  <2>2. /\ mainQueue \in Seq(Callbacks) /\ Past(mainQueue) /\ overtaken \in BOOLEAN
        /\ 0 \in 0..MaxServices
    BY <1>r, VoiceBoundsAssumption DEF RecorderInv, RecorderTypes
  <2>3. RecorderInv'
    BY <1>r, <2>1, <2>2, HeldIsAll, RecorderStops
  <2>4. DeviceTypes'
    BY <1>2, <1>r DEF OnActivityDestroy, DeviceTypes, Cancelled
  <2> QED
    BY <2>3, <2>4 DEF VInv
<1>3. CASE ClickMic
  <2>1. CASE UNCHANGED <<engine, recorder, micButton>>
    BY <1>3, <2>1, StartVosk DEF ClickMic
  <2>2. CASE granted /\ isArmed
    <3>1. /\ speechService' \in 0..MaxServices /\ services' \in 0..MaxServices
          /\ speechService # 0 => speechService' = speechService
      BY <1>3, <1>r, <2>2, EngineTypes DEF ClickMic
    <3>2. DeviceTypes'
      BY <1>3, <1>r, <3>1 DEF ClickMic, DeviceTypes, shield
    <3>3. CASE micButton = "LISTENING"
      <4>1. /\ Stop(speechService', mainQueue) /\ micButton' = "MIC" /\ activity' = activity
            /\ overtaken' = overtaken
        BY <1>3, <2>2, <3>3 DEF ClickMic
      <4>2. mainQueue \in Seq(Callbacks) /\ Past(mainQueue) /\ overtaken \in BOOLEAN
        BY <1>r DEF RecorderInv, RecorderTypes
      <4>3. Held(speechService') = threads
        BY <1>r, <3>1, HeldIsAll DEF RecorderInv, ThreadInv, Held
      <4>4. RecorderInv'
        BY <1>r, <3>1, <4>1, <4>2, <4>3, RecorderStops
      <4> QED
        BY <3>2, <4>4 DEF VInv
    <3>4. CASE micButton # "LISTENING"
      <4>1. /\ StartListening(speechService') /\ micButton' = "LISTENING"
            /\ activity # 0 /\ activity' = activity
        BY <1>3, <2>2, <3>4 DEF ClickMic
      <4>2. RecorderInv'
        BY <1>r, <3>1, <4>1, RecorderStarts
      <4> QED
        BY <3>2, <4>2 DEF VInv
    <3> QED
      BY <3>3, <3>4
  <2> QED
    BY <1>3, <2>1, <2>2 DEF ClickMic
<1>4. CASE GrantPermission
  <2>1. RecorderInv'
    BY <1>4, <1>r, RecorderFrame DEF GrantPermission, engine, recorder, RecorderTypes
  <2> QED
    BY <1>4, <1>r, <2>1 DEF GrantPermission, VInv, DeviceTypes, shield, engine
\* The recognizer thread t posts c.
<1>p. ASSUME NEW t \in Live, NEW cb \in {"onResult", "onError"}, NEW T,
             mainQueue' = Append(mainQueue, Posted(cb, t)), threads' = T,
             cb = "onResult" => T = threads,
             cb = "onError" => T = (threads \ {t}) \union {[t EXCEPT !.live = FALSE]},
             UNCHANGED <<activity, speechService, micButton, sessions, overtaken, unserved>>
      PROVE  RecorderInv'
  <2> DEFINE c == Posted(cb, t)
  <2>1. /\ t \in threads /\ t \in Threads /\ activity \in 1..MaxActivities
        /\ t.session <= sessions /\ t.service = speechService
        /\ \A u \in threads : u = t
    BY <1>r, VoiceBoundsAssumption DEF Live, RecorderInv, RecorderTypes, ThreadInv
  <2>2. c \in Callbacks /\ c.session = t.session /\ c.cb = cb
    BY <2>1 DEF Posted, Callbacks, Threads
  <2>3. CASE cb = "onResult"
    <3>1. Past(mainQueue)'
      <4>1. Past(mainQueue) /\ mainQueue \in Seq(Callbacks)
        BY <1>r DEF RecorderInv, RecorderTypes
      <4> HIDE DEF c
      <4>2. mainQueue' = Append(mainQueue, c) /\ threads' = threads
        BY <1>p, <2>3 DEF c
      <4> QED
        BY <1>p, <2>1, <2>2, <2>3, <4>1, <4>2 DEF Past, Live
    <3>2. RecorderTypes'
      BY <1>p, <1>r, <2>2, <2>3 DEF RecorderTypes
    <3>3. ThreadInv' /\ ButtonInv'
      BY <1>p, <1>r, <2>3 DEF RecorderInv, ThreadInv, ButtonInv, Recording, Live
    <3> QED
      BY <3>1, <3>2, <3>3 DEF RecorderInv
  <2>4. CASE cb = "onError"
    <3> DEFINE u == [t EXCEPT !.live = FALSE]
    <3>1. u \in Threads /\ ~u.live /\ u.service = t.service /\ u.session = t.session
      BY <2>1 DEF Threads
    <3>2. threads' = {u}
      BY <1>p, <2>1, <2>4
    <3> HIDE DEF u
    <3>3. Live' = {}
      BY <3>1, <3>2 DEF Live
    <3>4. Past(mainQueue)'
      <4>1. Past(mainQueue) /\ mainQueue \in Seq(Callbacks)
        BY <1>r DEF RecorderInv, RecorderTypes
      <4> HIDE DEF c
      <4>2. mainQueue' = Append(mainQueue, c)
        BY <1>p, <2>4 DEF c
      <4> QED
        BY <1>p, <2>1, <2>2, <3>3, <4>1, <4>2 DEF Past
    <3>5. RecorderTypes'
      BY <1>p, <1>r, <2>2, <2>4, <3>1, <3>2 DEF RecorderTypes
    <3>6. ThreadInv' /\ ButtonInv'
      BY <1>p, <1>r, <2>1, <2>4, <3>1, <3>2, <3>3 DEF ThreadInv, ButtonInv, Recording
    <3> QED
      BY <3>4, <3>5, <3>6 DEF RecorderInv
  <2> QED
    BY <2>3, <2>4
<1>5. CASE EndUtterance
  <2>1. PICK t \in Live : mainQueue' = Append(mainQueue, Posted("onResult", t))
    BY <1>5 DEF EndUtterance
  <2>2. RecorderInv'
    BY <1>5, <1>p, <2>1 DEF EndUtterance, engine
  <2> QED
    BY <1>5, <1>r, <2>2 DEF EndUtterance, VInv, DeviceTypes, shield, engine
<1>6. CASE RecorderFails
  <2>1. PICK t \in Live : /\ mainQueue' = Append(mainQueue, Posted("onError", t))
                          /\ threads' = (threads \ {t}) \union {[t EXCEPT !.live = FALSE]}
    BY <1>6 DEF RecorderFails
  <2>2. RecorderInv'
    BY <1>6, <1>p, <2>1 DEF RecorderFails, engine
  <2> QED
    BY <1>6, <1>r, <2>2 DEF RecorderFails, VInv, DeviceTypes, shield, engine
<1>7. CASE RunCallback
  <2> DEFINE c == Head(mainQueue)
             q == Tail(mainQueue)
  <2>1. mainQueue # <<>> /\ overtaken' = (overtaken \/ \E t \in Live : t.session # c.session)
    BY <1>7 DEF RunCallback
  <2>2. /\ q \in Seq(Callbacks) /\ Past(q)
        /\ c.cb # "onResult" => \A t \in Live : t.session # c.session
    BY <1>r, <2>1, PastTail
  <2>d. DeviceTypes'
    BY <1>7, <1>r DEF RunCallback, DeviceTypes, shield, engine
  <2>3. CASE c.cb = "onResult" /\ c.activity = activity
    <3>1. Stop(speechService, q) /\ micButton' = "MIC" /\ activity' = activity
          /\ speechService' = speechService
      BY <1>7, <2>3 DEF RunCallback, engine
    <3>2. overtaken' \in BOOLEAN /\ speechService \in 0..MaxServices
      BY <1>r, <2>1 DEF RecorderTypes
    <3>3. Held(speechService) = threads
      BY <1>r, HeldIsAll
    <3> HIDE DEF q, c
    <3>4. RecorderInv'
      BY <1>r, <2>2, <3>1, <3>2, <3>3, RecorderStops
    <3> QED
      BY <2>d, <3>4 DEF VInv
  <2>4. CASE ~(c.cb = "onResult" /\ c.activity = activity)
    <3>1. /\ mainQueue' = q /\ UNCHANGED <<threads, sessions, unserved, activity, speechService>>
          /\ micButton' = IF c.activity = activity THEN "MIC" ELSE micButton
      BY <1>7, <2>4 DEF RunCallback, engine
    <3> HIDE DEF q, c
    <3>2. RecorderTypes'
      BY <1>r, <2>1, <2>2, <3>1 DEF RecorderTypes
    <3>3. ThreadInv'
      BY <1>r, <3>1 DEF RecorderInv, ThreadInv
    <3>4. Past(mainQueue)'
      BY <2>2, <3>1 DEF Past, Live
    \* The button goes back to MIC for a callback of another session only.
    <3>5. ButtonInv'
      <4>1. c.activity = activity /\ Recording => overtaken'
        BY <2>1, <2>2, <2>4 DEF Recording
      <4>2. /\ Recording /\ ~overtaken => micButton = "LISTENING"
            /\ micButton = "LISTENING" /\ activity # 0 => threads # {} \/ unserved
        BY <1>r DEF RecorderInv, ButtonInv
      <4>3. Recording' = Recording
        BY <3>1 DEF Recording, Live
      <4> QED
        BY <2>1, <3>1, <4>1, <4>2, <4>3 DEF ButtonInv
    <3> QED
      BY <2>d, <3>2, <3>3, <3>4, <3>5 DEF VInv, RecorderInv
  <2> QED
    BY <2>3, <2>4
<1>8. CASE PickModel \/ InjectModel \/ InjectForNobody
  <2>1. RecorderInv'
    BY <1>8, <1>r, RecorderFrame
       DEF PickModel, InjectModel, InjectForNobody, engine, recorder, RecorderTypes
  <2>2. DeviceTypes'
    BY <1>8, <1>r DEF PickModel, InjectModel, InjectForNobody, engine, shield, DeviceTypes
  <2> QED
    BY <2>1, <2>2 DEF VInv
<1>9. CASE InjectionDone
  <2>1. /\ speechService' \in 0..MaxServices /\ services' \in 0..MaxServices
        /\ speechService # 0 => speechService' = speechService
    BY <1>9, <1>r, EngineTypes DEF InjectionDone
  <2>2. RecorderInv'
    BY <1>9, <1>r, <2>1, RecorderFrame DEF InjectionDone, recorder
  <2> QED
    BY <1>9, <1>r, <2>1, <2>2 DEF InjectionDone, VInv, DeviceTypes, shield
<1> QED
  BY <1>1, <1>2, <1>3, <1>4, <1>5, <1>6, <1>7, <1>8, <1>9 DEF VStep

\* The terminal starts in the invariant.
LEMMA VoiceStart == VInit => VInv
<1> SUFFICES ASSUME VInit PROVE VInv
  OBVIOUS
<1>1. DeviceTypes
  <2>1. 0 \in 0..MaxActivities /\ 0 \in 0..MaxServices
    BY VoiceBoundsAssumption
  <2>2. isArmed \in BOOLEAN /\ granted \in BOOLEAN /\ modelOnDisk \in BOOLEAN
    BY DEF VInit
  <2> QED
    BY <2>1, <2>2 DEF VInit, DeviceTypes
<1>2. RecorderTypes
  <2>1. <<>> \in Seq(Callbacks) /\ 0 \in 0..MaxActivities /\ 0 \in 0..MaxServices
        /\ 0 \in 0..MaxSessions
    BY VoiceBoundsAssumption
  <2>2. overtaken \in BOOLEAN /\ unserved \in BOOLEAN
    BY DEF VInit
  <2> QED
    BY <2>1, <2>2 DEF VInit, RecorderTypes
<1>3. ThreadInv /\ Past(mainQueue) /\ ButtonInv
  BY DEF VInit, ThreadInv, Past, ButtonInv, Recording, Live
<1> QED
  BY <1>1, <1>2, <1>3 DEF VInv, RecorderInv

\* The terminal's inductive invariant, with the broadcasts of any key filter.
THEOREM VoiceInvariant == VSpec => []VInv
<1>2. VInv /\ UNCHANGED vvars => VInv'
  <2> SUFFICES ASSUME VInv, UNCHANGED vvars PROVE VInv'
    OBVIOUS
  <2>1. RecorderInv'
    BY RecorderFrame DEF VInv, vvars, engine, recorder, RecorderInv, RecorderTypes
  <2> QED
    BY <2>1 DEF VInv, DeviceTypes, vvars, shield, engine
<1>3. VInv /\ [VNext]_vvars => VInv'
  BY <1>2, VStepKeeps, OnMicStartKeeps, OnMicStopKeeps, VKillKeeps DEF VNext
<1> QED
  BY VoiceStart, <1>3, PTL DEF VSpec

\* The values the variables of the terminal may have.
THEOREM VoiceTypeCorrect == VSpec => []VTypeOK
<1>1. VInv => VTypeOK
  BY DEF VInv, DeviceTypes, RecorderInv, RecorderTypes, VTypeOK
<1> QED
  BY <1>1, VoiceInvariant, PTL

\* Nothing records out of reach of MIC_STOP, the button and onDestroy
\* (MainActivity.kt:424, 529).
THEOREM RecorderCorrect == VSpec => []EveryRecorderCanBeStopped
<1>1. VInv => EveryRecorderCanBeStopped
  BY DEF VInv, RecorderInv, ThreadInv, EveryRecorderCanBeStopped, Live
<1> QED
  BY <1>1, VoiceInvariant, PTL

\* While a session records the button says so, unless a callback of an earlier
\* one has run since it started.
THEOREM ShownCorrect == VSpec => []RecordingIsShown
<1>1. VInv => RecordingIsShown
  BY DEF VInv, RecorderInv, ButtonInv, RecordingIsShown
<1> QED
  BY <1>1, VoiceInvariant, PTL

\* An ended session never leaves the button red.
THEOREM ListeningCorrect == VSpec => []ListeningIsReal
<1>1. VInv => ListeningIsReal
  BY HeldIsAll DEF VInv, RecorderInv, ButtonInv, ListeningIsReal
<1> QED
  BY <1>1, VoiceInvariant, PTL

-----------------------------------------------------------------------------
(* The key filter and the terminal together.                               *)

\* The lock, whatever else the other half does.
LockInv == TypeOK /\ HardwareLock

\* A step of the key filter keeps its lock, ...
LEMMA KeyLock == LockInv /\ (KeyStep \/ Die) => LockInv'
<1>1. KeyStep \/ Die => Next
  BY DEF KeyStep, Die, Next, FingerStep
<1> QED
  BY <1>1, NextTypeOK, NextHardwareLock DEF LockInv

\* ... and so does a step that it does not see.
LEMMA IdleLock == LockInv /\ KeysIdle => LockInv'
  BY DEF LockInv, TypeOK, HardwareLock, Effects, KeysIdle, finger, switch, lock

\* A step of the terminal that starts no session was recording before.
LEMMA NoNewRecording ==
    ASSUME VInv, VStep \/ UNCHANGED vvars \/ OnMicStart \/ OnMicStop,
           sessions' = sessions, Recording'
    PROVE  Recording
<1>s. sessions \in Nat
  BY VoiceBoundsAssumption DEF VInv, RecorderInv, RecorderTypes
<1>1. \A svc : StartListening(svc) => threads' = threads
  BY <1>s DEF StartListening
<1>2. \A svc, q : Stop(svc, q) => threads' \subseteq threads
  BY DEF Stop
<1>3. threads' \subseteq threads => Recording
  BY DEF Recording, Live
<1>4. CASE OnMicStart \/ OnMicStop
  BY <1>4, <1>1, <1>2, <1>3 DEF OnMicStart, OnMicStop, StartVoskListening, recorder
<1>5. CASE VStep
  <2>1. CASE RecorderFails
    BY <2>1 DEF RecorderFails, Recording
  <2>2. CASE ClickMic
    BY <2>2, <1>1, <1>2, <1>3 DEF ClickMic, recorder
  <2>3. CASE RunCallback
    BY <2>3, <1>2, <1>3 DEF RunCallback
  <2>4. CASE OnActivityDestroy
    BY <2>4, <1>2, <1>3 DEF OnActivityDestroy
  <2> QED
    BY <1>3, <1>5, <2>1, <2>2, <2>3, <2>4
       DEF VStep, OnCreate, GrantPermission, EndUtterance, PickModel, InjectModel,
           InjectForNobody, InjectionDone, recorder
<1>6. CASE UNCHANGED vvars
  BY <1>6, <1>3 DEF vvars, recorder
<1> QED
  BY <1>4, <1>5, <1>6

\* What a step of the key filter may do to the microphone: open it and know so,
\* open it after a service was forgotten, close it, or nothing.
LEMMA KeyEffect ==
    ASSUME LockInv, StrayInv, WTypeInv, KeyStep
    PROVE  /\ StrayInv'
           /\ \/ effect' = "MIC_START" /\ (isMicTriggered' \/ forgotten')
              \/ effect' = "MIC_STOP"
              \/ effect' \notin Mic /\ (isMicTriggered' = isMicTriggered \/ forgotten')
<1>t. volDownPressTime # 0 <=> (micCallbacks # <<>> \/ isMicTriggered)
  BY DEF LockInv, HardwareLock
<1>f. forgotten' = (forgotten \/ (bound /\ ~bound' /\ volDownPressTime # 0))
  BY DEF KeyStep
<1>1. CASE PressVolDown \/ RepeatVolDown \/ ReleaseVolDown
  <2>1. VolDownPressed \/ VolDownReleased \/ PassThrough
    BY <1>1 DEF PressVolDown, RepeatVolDown, ReleaseVolDown
  <2>2. strayCallbacks' = strayCallbacks /\ bound' = bound
    BY <1>1 DEF PressVolDown, RepeatVolDown, ReleaseVolDown
  <2>3. StrayInv'
    BY <2>2, <1>f DEF StrayInv
  <2>4. CASE VolDownPressed
    BY <2>4, <2>3 DEF VolDownPressed, Mic
  <2>5. CASE VolDownReleased
    <3>1. CASE isMicTriggered
      BY <2>5, <2>3, <3>1 DEF VolDownReleased
    <3>2. CASE ~isMicTriggered
      <4>1. effect' = "ADJUST_LOWER" /\ ~isMicTriggered' /\ isMicTriggered \in BOOLEAN
            /\ isMicTriggered' = FALSE
        BY <2>5, <3>2 DEF VolDownReleased, LockInv, TypeOK
      <4> QED
        BY <2>3, <3>2, <4>1 DEF Mic
    <3> QED
      BY <3>1, <3>2
  <2>6. CASE PassThrough
    BY <2>6, <2>3 DEF PassThrough, lock, Mic
  <2> QED
    BY <2>1, <2>4, <2>5, <2>6
<1>2. CASE Tick \/ (\E on \in BOOLEAN : SetHijack(on)) \/ OnServiceConnected
  BY <1>2, <1>f DEF Tick, SetHijack, OnServiceConnected, lock, StrayInv, Mic
<1>3. CASE MicRunnable
  BY <1>3, <1>f DEF MicRunnable, StrayInv, Mic
<1>4. CASE StrayRunnable
  BY <1>4, <1>f DEF StrayRunnable, StrayInv, Mic
<1>5. CASE OnDestroy
  <2>1. /\ bound /\ ~bound' /\ effect' = "none" /\ ~isMicTriggered'
        /\ strayCallbacks' = strayCallbacks \o micCallbacks /\ isMicTriggered' \in BOOLEAN
    BY <1>5 DEF OnDestroy
  <2>2. CASE volDownPressTime # 0
    BY <1>f, <2>1, <2>2 DEF StrayInv, Mic
  <2>3. CASE volDownPressTime = 0
    <3>1. micCallbacks = <<>> /\ ~isMicTriggered /\ isMicTriggered \in BOOLEAN
      BY <1>t, <2>3 DEF LockInv, TypeOK
    <3>2. strayCallbacks' = strayCallbacks
      BY <2>1, <3>1 DEF LockInv, TypeOK
    <3> QED
      BY <1>f, <2>1, <3>1, <3>2 DEF StrayInv, Mic
  <2> QED
    BY <2>2, <2>3
<1> QED
  BY <1>1, <1>2, <1>3, <1>4, <1>5 DEF KeyStep

\* A broadcast that is appended is the last.
LEMMA LastAppended ==
    ASSUME NEW S, NEW s \in Seq(S), NEW e \in S
    PROVE  /\ Append(s, e) \in Seq(S) /\ Append(s, e) # <<>>
           /\ Append(s, e)[Len(Append(s, e))] = e
  OBVIOUS

\* What is left of the queue when its head is delivered ends as it did.
LEMMA LastOfTail ==
    ASSUME NEW S, NEW s \in Seq(S), s # <<>>
    PROVE  /\ Tail(s) \in Seq(S)
           /\ Tail(s) # <<>> => Tail(s)[Len(Tail(s))] = s[Len(s)]
           /\ Tail(s) = <<>> => Head(s) = s[Len(s)]
<1>1. /\ Tail(s) \in Seq(S) /\ Len(Tail(s)) = Len(s) - 1 /\ Len(s) \in Nat \ {0}
      /\ \A i \in 1..Len(Tail(s)) : Tail(s)[i] = s[i + 1]
      /\ Head(s) = s[1]
  OBVIOUS
<1>2. Tail(s) # <<>> => Len(Tail(s)) \in 1..Len(Tail(s))
  BY <1>1
<1>3. Tail(s) = <<>> => Len(Tail(s)) = 0
  <2>1. Len(<<>>) = 0
    OBVIOUS
  <2> QED
    BY <2>1
<1> QED
  BY <1>1, <1>2, <1>3

\* Every step of the walkie-talkie keeps the invariant.
LEMMA WStepKeeps == WInv /\ [WNext]_wvars => WInv'
<1> SUFFICES ASSUME WInv, [WNext]_wvars PROVE WInv'
  OBVIOUS
<1>w. LockInv /\ VInv /\ WTypeInv /\ StrayInv /\ ClosedInv
  BY DEF WInv, LockInv
<1>1. CASE KeyStep
  <2>1. LockInv' /\ UNCHANGED <<vvars, opener>>
    BY <1>1, <1>w, KeyLock DEF KeyStep
  <2>2. VInv'
    BY <1>w, <2>1, RecorderFrame
       DEF VInv, DeviceTypes, RecorderInv, RecorderTypes, vvars, shield, engine, recorder
  <2>3. broadcasts' = IF effect' \in Mic THEN Append(broadcasts, effect') ELSE broadcasts
    BY <1>1 DEF KeyStep
  <2>4. forgotten' \in BOOLEAN /\ (forgotten => forgotten')
    BY <1>1, <1>w DEF KeyStep, WTypeInv
  <2>5. WTypeInv'
    BY <1>w, <2>1, <2>3, <2>4, LastAppended DEF WTypeInv
  <2>6. Recording' = Recording
    BY <2>1 DEF vvars, recorder, Recording, Live
  <2>7. StrayInv' /\ ClosedInv'
    <3>1. CASE effect' = "MIC_START" /\ (isMicTriggered' \/ forgotten')
      BY <1>1, <1>w, <3>1, KeyEffect DEF ClosedInv
    <3>2. CASE effect' = "MIC_STOP"
      <4>1. broadcasts' # <<>> /\ broadcasts'[Len(broadcasts')] = "MIC_STOP"
        BY <1>w, <2>3, <3>2, LastAppended DEF WTypeInv, Mic
      <4> QED
        BY <1>1, <1>w, <4>1, KeyEffect DEF ClosedInv
    <3>3. CASE effect' \notin Mic /\ (isMicTriggered' = isMicTriggered \/ forgotten')
      BY <1>1, <1>w, <2>1, <2>3, <2>4, <2>6, <3>3, KeyEffect DEF ClosedInv
    <3> QED
      BY <1>1, <1>w, <3>1, <3>2, <3>3, KeyEffect
  <2> QED
    BY <2>1, <2>2, <2>5, <2>7 DEF WInv, LockInv
<1>2. CASE Deliver
  <2>1. /\ LockInv' /\ isMicTriggered' = isMicTriggered /\ strayCallbacks' = strayCallbacks
        /\ forgotten' = forgotten
    BY <1>2, <1>w, IdleLock DEF Deliver, KeysIdle, lock
  <2>2. /\ broadcasts # <<>> /\ broadcasts' = Tail(broadcasts) /\ broadcasts \in Seq(Mic)
        /\ opener' = IF sessions' # sessions THEN "key" ELSE opener
    BY <1>2, <1>w DEF Deliver, OpenedBy, WTypeInv
  <2>3. CASE activity = 0 /\ UNCHANGED vvars
    <3>1. VInv' /\ threads' = {}
      <4>1. threads = {}
        BY <1>w, <2>3 DEF VInv, RecorderInv, ThreadInv
      <4> QED
        BY <1>w, <2>3, <4>1, RecorderFrame
           DEF VInv, DeviceTypes, RecorderInv, RecorderTypes, vvars, shield, engine, recorder
    <3> QED
      BY <1>w, <2>1, <2>2, <3>1, LastOfTail
         DEF WInv, LockInv, WTypeInv, StrayInv, ClosedInv, Recording, Live
  <2>4. CASE Head(broadcasts) = "MIC_STOP" /\ OnMicStop
    <3>1. VInv' /\ threads' = {}
      BY <1>w, <2>4, OnMicStopKeeps
    <3> QED
      BY <1>w, <2>1, <2>2, <3>1, LastOfTail
         DEF WInv, LockInv, WTypeInv, StrayInv, ClosedInv, Recording, Live
  <2>5. CASE Head(broadcasts) = "MIC_START" /\ OnMicStart
    <3>1. VInv'
      BY <1>w, <2>5, OnMicStartKeeps
    <3>2. WTypeInv' /\ StrayInv'
      BY <1>w, <2>1, <2>2, LastOfTail DEF WTypeInv, StrayInv
    <3>3. ClosedInv'
      BY <1>w, <2>1, <2>2, <2>5, LastOfTail DEF ClosedInv
    <3> QED
      BY <2>1, <3>1, <3>2, <3>3 DEF WInv, LockInv
  <2> QED
    BY <1>2, <2>3, <2>4, <2>5 DEF Deliver
<1>3. CASE TerminalStep
  <2>1. /\ LockInv' /\ isMicTriggered' = isMicTriggered /\ strayCallbacks' = strayCallbacks
        /\ UNCHANGED <<broadcasts, forgotten>>
    BY <1>3, <1>w, IdleLock DEF TerminalStep, KeysIdle, lock
  <2>2. VStep /\ opener' = IF sessions' # sessions THEN "button" ELSE opener
    BY <1>3 DEF TerminalStep, VStep, OpenedBy
  <2>3. VInv'
    BY <1>w, <2>2, VStepKeeps
  <2>4. Recording' /\ opener' = "key" => Recording /\ opener = "key"
    BY <1>w, <2>2, NoNewRecording
  <2> QED
    BY <1>w, <2>1, <2>2, <2>3, <2>4 DEF WInv, LockInv, WTypeInv, StrayInv, ClosedInv
<1>4. CASE Die
  <2>1. LockInv' /\ VInv' /\ threads' = {}
    BY <1>4, <1>w, KeyLock, VKillKeeps DEF Die
  <2>2. /\ broadcasts' = <<>> /\ ~forgotten' /\ forgotten' \in BOOLEAN /\ opener' = opener
        /\ strayCallbacks' = <<>>
    BY <1>4 DEF Die, KillProcess
  <2>3. <<>> \in Seq(Mic)
    OBVIOUS
  <2> QED
    BY <1>w, <2>1, <2>2, <2>3 DEF WInv, LockInv, WTypeInv, StrayInv, ClosedInv, Recording, Live
<1>5. CASE UNCHANGED wvars
  <2>1. TypeOK' /\ HardwareLock'
    BY <1>5, <1>w DEF wvars, vars, LockInv, TypeOK, HardwareLock, finger, switch, lock
  <2>2. VInv'
    BY <1>5, <1>w, RecorderFrame
       DEF wvars, VInv, DeviceTypes, RecorderInv, RecorderTypes, vvars, shield, engine, recorder
  <2> QED
    BY <1>5, <1>w, <2>1, <2>2
       DEF wvars, vars, vvars, lock, recorder, WInv, WTypeInv, StrayInv, ClosedInv, Recording, Live
<1> QED
  BY <1>1, <1>2, <1>3, <1>4, <1>5 DEF WNext

\* The inductive invariant of the walkie-talkie.
THEOREM WalkieInvariant == WSpec => []WInv
<1>1. WInit => WInv
  <2> SUFFICES ASSUME WInit PROVE WInv
    OBVIOUS
  <2>1. TypeOK /\ HardwareLock
    BY InitIInv DEF WInit, IInv
  <2>2. VInv
    BY VoiceStart DEF WInit
  <2>3. <<>> \in Seq(Mic) /\ strayCallbacks = <<>> /\ threads = {}
    BY DEF WInit, Init, VInit
  <2>4. WTypeInv
    BY <2>3 DEF WInit, WTypeInv
  <2> QED
    BY <2>1, <2>2, <2>3, <2>4 DEF WInit, WInv, StrayInv, ClosedInv, Recording, Live
<1> QED
  BY <1>1, WStepKeeps, PTL DEF WSpec

\* The service never loses a microphone it opened: a recording of the key is
\* known to the lock or its MIC_STOP is on its way, unless the service was
\* destroyed in between (DevilkingService.kt:195).
THEOREM HotMicCorrect == WSpec => []HotMicIsKnown
<1>1. WInv => HotMicIsKnown
  <2> SUFFICES ASSUME WInv, Recording, opener = "key", ~forgotten, ~isMicTriggered
               PROVE  "MIC_STOP" \in {broadcasts[i] : i \in 1..Len(broadcasts)}
    BY DEF HotMicIsKnown
  <2>1. broadcasts # <<>> /\ broadcasts[Len(broadcasts)] = "MIC_STOP" /\ broadcasts \in Seq(Mic)
    BY DEF WInv, ClosedInv, WTypeInv
  <2>2. Len(broadcasts) \in 1..Len(broadcasts)
    BY <2>1
  <2> QED
    BY <2>1, <2>2
<1> QED
  BY <1>1, WalkieInvariant, PTL
=============================================================================
