---------------------------- MODULE WalkieTalkie ----------------------------
(***************************************************************************)
(* The walkie-talkie from end to end: the key filter of DevilkingService   *)
(* (VolumeHijack) opens and cuts the microphone of MainActivity            *)
(* (VoiceTerminal) by the broadcasts MIC_START and MIC_STOP, which the     *)
(* system delivers later, in order, to whatever activity is registered     *)
(* then.  Both live in one process and on one main thread.                 *)
(***************************************************************************)
EXTENDS VolumeHijack, VoiceTerminal

CONSTANT MaxBroadcasts  \* bound: broadcasts sent and not yet delivered

ASSUME BroadcastBoundAssumption == MaxBroadcasts \in Nat \ {0}

VARIABLES
    broadcasts, \* external: sent with sendBroadcast, not yet delivered
    opener,     \* history: who opened the recording session, "key" or "button"
    forgotten   \* history: a service was destroyed that had opened the
                \* microphone or was about to

wvars == <<vars, vvars, broadcasts, opener, forgotten>>

Mic == {"MIC_START", "MIC_STOP"}

WInit ==
    /\ Init
    /\ VInit
    /\ broadcasts = <<>>
    /\ opener = "key"
    /\ forgotten = FALSE

\* A step of the key filter; what it broadcasts joins the queue.  VOLUME_UP
\* and the flush of the preferences never touch the microphone: left out.
KeyStep ==
    /\ \/ PressVolDown \/ RepeatVolDown \/ ReleaseVolDown
       \/ Tick \/ MicRunnable \/ StrayRunnable
       \/ \E on \in BOOLEAN : SetHijack(on)
       \/ OnServiceConnected \/ OnDestroy
    /\ broadcasts' = IF effect' \in Mic THEN Append(broadcasts, effect') ELSE broadcasts
    /\ Len(broadcasts') <= MaxBroadcasts
    /\ forgotten' = (forgotten \/ (bound /\ ~bound' /\ volDownPressTime # 0))
    /\ UNCHANGED <<vvars, opener>>

\* A step of which the key filter sees nothing.
KeysIdle ==
    /\ effect' = "none"
    /\ UNCHANGED <<now, finger, bound, switch, lock, volUpPressTime,
                   strayCallbacks, disturbed>>

\* The opener of the session that records after a step: unchanged for a
\* session that was already there.
OpenedBy(who) == opener' = IF sessions' # sessions THEN who ELSE opener

\* hardwareHijackReceiver.onReceive, or nobody if no activity is registered.
Deliver ==
    /\ broadcasts # <<>>
    /\ broadcasts' = Tail(broadcasts)
    /\ \/ activity = 0 /\ UNCHANGED vvars
       \/ Head(broadcasts) = "MIC_START" /\ OnMicStart
       \/ Head(broadcasts) = "MIC_STOP"  /\ OnMicStop
    /\ OpenedBy("key")
    /\ KeysIdle
    /\ UNCHANGED forgotten

\* A step of the terminal; injections and failing recorders, which VoiceTerminal
\* checks and which open no microphone, are left out.
TerminalStep ==
    /\ \/ OnCreate \/ OnActivityDestroy
       \/ ClickMic \/ GrantPermission
       \/ EndUtterance \/ RunCallback
    /\ OpenedBy("button")
    /\ KeysIdle
    /\ UNCHANGED <<broadcasts, forgotten>>

Die ==
    /\ KillProcess
    /\ VKill
    /\ broadcasts' = <<>>
    /\ forgotten' = FALSE
    /\ UNCHANGED opener

WNext == KeyStep \/ Deliver \/ TerminalStep \/ Die

WSpec == WInit /\ [][WNext]_wvars /\ WF_wvars(Deliver)
-----------------------------------------------------------------------------
(* Properties.                                                             *)

\* The service never loses a microphone it opened: while a session opened by
\* the key records, the hardware lock knows it (so the release will cut it), or
\* the MIC_STOP is on its way - unless the service was destroyed in between,
\* which onDestroy (DevilkingService.kt:195) does not handle.
HotMicIsKnown ==
    Recording /\ opener = "key" /\ ~forgotten
        => isMicTriggered \/ "MIC_STOP" \in {broadcasts[i] : i \in 1..Len(broadcasts)}

\* So once the finger is off a key the filter watched all along, the recording
\* it opened ends: it is never left open by a lost, overtaken or repeated
\* broadcast, a late result, or an activity recreated in between.
LettingGoCutsTheMic ==
    (Recording /\ opener = "key" /\ downSince = 0 /\ "VOLUME_DOWN" \notin disturbed)
        ~> (~Recording \/ downSince # 0 \/ forgotten)
=============================================================================
