---------------------------- MODULE VoiceTerminal ----------------------------
(***************************************************************************)
(* The voice half of MainActivity: the [ MIC ] button, the Vosk speech     *)
(* service it drives, the hardware MIC_START / MIC_STOP broadcasts, and    *)
(* the listener callbacks that come back later through the main looper.    *)
(*                                                                         *)
(* Handlers run on the main thread, one step each.  What interleaves with  *)
(* them: the recognizer thread of the speech service (external), the IO    *)
(* coroutine that injects an acoustic model, and the life of the activity. *)
(* A recognition session is named by a number so that a callback can be    *)
(* told from one of a later session; the code cannot tell them apart.      *)
(***************************************************************************)
EXTENDS Naturals, Sequences, FiniteSets

CONSTANTS
    MaxActivities,  \* bound: instances of MainActivity
    MaxServices,    \* bound: SpeechService objects
    MaxSessions,    \* bound: recognition sessions
    MaxQueue        \* bound: callbacks posted and not yet run

ASSUME VoiceBoundsAssumption ==
    /\ MaxActivities \in Nat /\ MaxServices \in Nat
    /\ MaxSessions \in Nat /\ MaxQueue \in Nat

VARIABLES
    activity,       \* the live MainActivity, 0 when there is none
    activities,     \* how many have been created
    granted,        \* RECORD_AUDIO
    modelOnDisk,    \* the vosk_model directory holds a loadable model
    isArmed,        \* acousticShield.isArmed (and voskModel # null)
    injection,      \* voskPickerLauncher's coroutine
    micButton,
    speechService,  \* 0 is null
    services,       \* how many SpeechService objects have been created
    threads,        \* external: the recognizer threads the services hold
    sessions,       \* how many sessions have been started
    mainQueue,      \* callbacks posted to the main looper
    overtaken,      \* history: a callback of an earlier session has run
                    \* since the current session started
    unserved        \* history: the last start found no engine to record with

shield   == <<modelOnDisk, isArmed>>
engine   == <<speechService, services>>
recorder == <<threads, sessions, mainQueue, overtaken, unserved>>
vvars    == <<activity, activities, granted, shield, injection, micButton,
              engine, recorder>>

Threads   == [service : 1..MaxServices, session : 1..MaxSessions, live : BOOLEAN]
Callbacks == [cb : {"onResult", "onFinalResult", "onError"},
              activity : 1..MaxActivities, session : 1..MaxSessions]

Held(svc)  == {t \in threads : t.service = svc}
Live       == {t \in threads : t.live}
Recording  == Live # {}

\* How a callback posted now by thread t will look when the looper runs it.
Posted(cb, t) == [cb |-> cb, activity |-> activity, session |-> t.session]

VInit ==
    /\ activity = 0 /\ activities = 0
    /\ granted \in BOOLEAN
    /\ modelOnDisk \in BOOLEAN
    /\ isArmed = FALSE
    /\ injection = "idle"
    /\ micButton = "MIC"
    /\ speechService = 0 /\ services = 0
    /\ threads = {} /\ sessions = 0
    /\ mainQueue = <<>>
    /\ overtaken = FALSE /\ unserved = FALSE
-----------------------------------------------------------------------------
(* The speech service, as MainActivity uses it (external).                 *)

\* startListening: ignored while the service still holds a thread.
StartListening(svc) ==
    IF svc = 0 \/ Held(svc) # {}
    THEN /\ unserved' = (svc = 0)
         /\ UNCHANGED <<threads, sessions, mainQueue, overtaken>>
    ELSE /\ sessions < MaxSessions
         /\ sessions' = sessions + 1
         /\ threads' = threads \union
                {[service |-> svc, session |-> sessions + 1, live |-> TRUE]}
         /\ overtaken' = FALSE /\ unserved' = FALSE
         /\ UNCHANGED mainQueue

\* stop(): interrupts and joins the thread, which posts its last words.
Stop(svc, queue) ==
    /\ threads' = threads \ Held(svc)
    /\ mainQueue' =
         IF \E t \in Held(svc) : t.live
         THEN Append(queue, Posted("onFinalResult", CHOOSE t \in Held(svc) : t.live))
         ELSE queue
    /\ UNCHANGED <<sessions, unserved>>

\* The recognizer thread ends an utterance, or fails and ends itself; the
\* service keeps its handle on a thread that failed.
EndUtterance ==
    \E t \in Live :
        /\ Len(mainQueue) < MaxQueue
        /\ mainQueue' = Append(mainQueue, Posted("onResult", t))
        /\ UNCHANGED <<activity, activities, granted, shield, injection,
                       micButton, engine, threads, sessions, overtaken, unserved>>

RecorderFails ==
    \E t \in Live :
        /\ Len(mainQueue) < MaxQueue
        /\ mainQueue' = Append(mainQueue, Posted("onError", t))
        /\ threads' = (threads \ {t}) \union {[t EXCEPT !.live = FALSE]}
        /\ UNCHANGED <<activity, activities, granted, shield, injection,
                       micButton, engine, sessions, overtaken, unserved>>
-----------------------------------------------------------------------------
(* MainActivity.                                                           *)

\* Mutant: a new engine for every injected model.
InitVoskServiceAlways(armed) ==
    \/ /\ armed /\ services < MaxServices
       /\ services' = services + 1
       /\ speechService' = services + 1
    \/ UNCHANGED engine

\* initVoskService, in the current activity: builds the engine once; building
\* it may throw, which leaves it null.
InitVoskService(armed) ==
    \/ /\ armed /\ speechService = 0 /\ services < MaxServices
       /\ services' = services + 1
       /\ speechService' = services + 1
    \/ UNCHANGED engine

\* onCreate: a new object, whose shield auto-loads what is on disk.
OnCreate ==
    /\ activity = 0 /\ activities < MaxActivities
    /\ activity' = activities + 1
    /\ activities' = activities + 1
    /\ micButton' = "MIC"
    /\ isArmed' = modelOnDisk
    /\ InitVoskService(modelOnDisk)
    /\ UNCHANGED <<granted, modelOnDisk, injection, recorder>>

\* What becomes of an injection whose scope is cancelled.
Cancelled == IF injection \in {"extracting", "orphaned"} THEN "orphaned" ELSE "idle"

\* onDestroy: stop and shutdown, unregister the receiver, cancel uiScope (an
\* extraction goes on, its continuation on the main thread never runs).  The
\* object and its shield are gone.
OnActivityDestroy ==
    /\ activity # 0
    /\ Stop(speechService, mainQueue)
    /\ activity' = 0
    /\ speechService' = 0
    /\ isArmed' = FALSE
    /\ injection' = Cancelled
    /\ UNCHANGED <<activities, granted, modelOnDisk, micButton, services, overtaken>>

\* Mutant: the button is coloured but its text is forgotten.
StartVoskListeningSilently ==
    /\ IF isArmed
       THEN /\ IF speechService = 0 THEN InitVoskService(TRUE) ELSE UNCHANGED engine
            /\ StartListening(speechService')
       ELSE UNCHANGED <<engine, recorder>>
    /\ UNCHANGED micButton

\* startVoskListening: refused without a model; then the button turns to
\* LISTENING whether or not there is an engine to start.
StartVoskListening ==
    IF isArmed
    THEN /\ IF speechService = 0 THEN InitVoskService(TRUE) ELSE UNCHANGED engine
         /\ micButton' = "LISTENING"
         /\ StartListening(speechService')
    ELSE UNCHANGED <<engine, recorder, micButton>>

\* checkAudioPermissionAndStart, for the MIC_START broadcast.
OnMicStart ==
    /\ activity # 0
    /\ IF granted THEN StartVoskListening
                  ELSE UNCHANGED <<engine, recorder, micButton>>
    /\ UNCHANGED <<activity, activities, granted, shield, injection>>

\* Mutant: the recorder is stopped, the button is not reset.
OnMicStopKeepingButton ==
    /\ activity # 0
    /\ Stop(speechService, mainQueue)
    /\ UNCHANGED <<activity, activities, granted, shield, injection, engine,
                   micButton, overtaken>>

\* Mutant: only the button is reset.
OnMicStopButtonOnly ==
    /\ activity # 0
    /\ micButton' = "MIC"
    /\ UNCHANGED <<activity, activities, granted, shield, injection, engine, recorder>>

\* stopVoskListening, for the MIC_STOP broadcast.
OnMicStop ==
    /\ activity # 0
    /\ Stop(speechService, mainQueue)
    /\ micButton' = "MIC"
    /\ UNCHANGED <<activity, activities, granted, shield, injection, engine,
                   overtaken>>

\* checkAudioPermissionAndListen and toggleListening, for a tap on the button.
ClickMic ==
    /\ activity # 0
    /\ IF granted /\ isArmed
       THEN /\ IF speechService = 0 THEN InitVoskService(TRUE) ELSE UNCHANGED engine
            /\ IF micButton = "LISTENING"
               THEN /\ Stop(speechService', mainQueue)
                    /\ micButton' = "MIC"
                    /\ UNCHANGED overtaken
               ELSE /\ micButton' = "LISTENING"
                    /\ StartListening(speechService')
       ELSE UNCHANGED <<engine, recorder, micButton>>
    /\ UNCHANGED <<activity, activities, granted, shield, injection>>

\* The answer to requestPermissions; nothing is retried when it comes.
GrantPermission ==
    /\ activity # 0 /\ ~granted
    /\ granted' = TRUE
    /\ UNCHANGED <<activity, activities, shield, injection, micButton, engine, recorder>>

\* voskListener, when the looper runs the next callback.  One posted for a
\* destroyed activity touches that activity's button, which nobody sees.
RunCallback ==
    /\ mainQueue # <<>>
    /\ LET c == Head(mainQueue)
           current == c.activity = activity
       IN /\ IF c.cb = "onResult" /\ current
             THEN Stop(speechService, Tail(mainQueue))
             ELSE /\ mainQueue' = Tail(mainQueue)
                  /\ UNCHANGED <<threads, sessions, unserved>>
          /\ micButton' = IF current THEN "MIC" ELSE micButton
          /\ overtaken' = (overtaken \/ \E t \in Live : t.session # c.session)
    /\ UNCHANGED <<activity, activities, granted, shield, injection, engine>>

\* voskPickerLauncher: a file that opens is chosen and the old model deleted;
\* the IO coroutine ends with the new model loaded or with an error; either way
\* initVoskService then runs on the main thread.  One injection at a time.
PickModel ==
    /\ activity # 0 /\ injection = "idle"
    /\ injection' = "extracting"
    /\ modelOnDisk' = FALSE
    /\ UNCHANGED <<activity, activities, granted, isArmed, micButton, engine, recorder>>

InjectModel ==
    /\ injection = "extracting"
    /\ injection' = "injected"
    /\ \/ modelOnDisk' = TRUE /\ isArmed' = TRUE
       \/ UNCHANGED shield
    /\ UNCHANGED <<activity, activities, granted, micButton, engine, recorder>>

InjectForNobody ==
    /\ injection = "orphaned"
    /\ injection' = "idle"
    /\ modelOnDisk' \in BOOLEAN
    /\ UNCHANGED <<activity, activities, granted, isArmed, micButton, engine, recorder>>

InjectionDone ==
    /\ injection = "injected"
    /\ injection' = "idle"
    /\ InitVoskService(isArmed)
    /\ UNCHANGED <<activity, activities, granted, shield, micButton, recorder>>

\* The process dies with everything in it.
VKill ==
    /\ activity' = 0
    /\ isArmed' = FALSE
    /\ injection' = "idle"
    /\ micButton' = "MIC"
    /\ speechService' = 0
    /\ threads' = {}
    /\ mainQueue' = <<>>
    /\ overtaken' = FALSE /\ unserved' = FALSE
    /\ UNCHANGED <<activities, granted, modelOnDisk, services, sessions>>

\* Everything but the two broadcasts, which come from the key filter, and the
\* death of the process, which the two share.
VStep ==
    \/ OnCreate \/ OnActivityDestroy
    \/ ClickMic \/ GrantPermission
    \/ EndUtterance \/ RecorderFails \/ RunCallback
    \/ PickModel \/ InjectModel \/ InjectForNobody \/ InjectionDone

VNext == VStep \/ OnMicStart \/ OnMicStop \/ VKill

VSpec == VInit /\ [][VNext]_vvars
-----------------------------------------------------------------------------
(* Properties.                                                             *)

\* The values the variables may have.
VTypeOK ==
    /\ activity \in 0..MaxActivities /\ activities \in 0..MaxActivities
    /\ granted \in BOOLEAN /\ modelOnDisk \in BOOLEAN /\ isArmed \in BOOLEAN
    /\ injection \in {"idle", "extracting", "injected", "orphaned"}
    /\ micButton \in {"MIC", "LISTENING"}
    /\ speechService \in 0..MaxServices /\ services \in 0..MaxServices
    /\ threads \subseteq Threads
    /\ sessions \in 0..MaxSessions
    /\ mainQueue \in Seq(Callbacks)
    /\ overtaken \in BOOLEAN /\ unserved \in BOOLEAN

\* Nothing records out of reach: a live recorder belongs to the engine of the
\* live activity, the one MIC_STOP, the button and onDestroy stop
\* (MainActivity.kt:424, 529), through injections of new models, failed
\* engines and activities that come and go.
EveryRecorderCanBeStopped ==
    \A t \in Live : activity # 0 /\ t.service = speechService

\* While a session records the button says LISTENING, unless a callback of an
\* earlier session has run since it started: the listener does not check whose
\* result it is handed.
RecordingIsShown == Recording /\ ~overtaken => micButton = "LISTENING"

\* The button says LISTENING only over a recorder, or where the engine could
\* not be built or has failed: an ended session never leaves it red.
ListeningIsReal ==
    micButton = "LISTENING" /\ activity # 0
        => Recording \/ unserved \/ Held(speechService) # {}
=============================================================================
