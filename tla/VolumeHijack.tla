---------------------------- MODULE VolumeHijack ----------------------------
(***************************************************************************)
(* The hardware-key half of DevilkingService: the volume keys the          *)
(* accessibility service filters, the 500 ms countdown that opens the      *)
(* microphone, and the switch ("hijack on" / "hijack off") that turns the  *)
(* filter on and off while keys may be down.                               *)
(*                                                                         *)
(* The key filter, the countdown and the commands all run on the main      *)
(* thread, so each handler is one atomic step; what interleaves is their   *)
(* order, the finger on the key, the clock, and the life of the service    *)
(* and of the process.  Times are in units of the user's clock; 0 is the   *)
(* code's "not pressed".  The wall clock, by which the code times presses, *)
(* and the uptime, by which a Handler times messages, are one clock here:  *)
(* wall clocks that are set while a key is down are left out.              *)
(***************************************************************************)
EXTENDS Integers, Sequences

CONSTANTS
    HoldTime,   \* the 500 ms of postDelayed and of the long-press test
    MaxNow,     \* bound: the clock stops here
    MaxStray    \* bound: runnables left behind by destroyed services

ASSUME HoldTimeAssumption == HoldTime \in Nat \ {0}
ASSUME BoundsAssumption   == MaxNow \in Nat \ {0} /\ MaxStray \in Nat

VARIABLES
    now,                \* System.currentTimeMillis()
    downSince, upSince, \* the finger: when each key was pressed, 0 if it is up
    bound,              \* DevilkingService.instance # null
    isHijackEnabled,    \* the static flag in RAM
    prefs, prefsDisk,   \* vol_hijack_enabled: as the process sees it, on disk
    volDownPressTime, volUpPressTime, isMicTriggered,
    micCallbacks,       \* due times of this service's posted micRunnable
    strayCallbacks,     \* the same, posted by services destroyed since
    effect,             \* what the last step did to the outside
    disturbed           \* history: keys whose press saw the filter change

finger == <<downSince, upSince>>
switch == <<isHijackEnabled, prefs, prefsDisk>>
lock   == <<volDownPressTime, isMicTriggered, micCallbacks>>
vars   == <<now, finger, bound, switch, lock, volUpPressTime,
            strayCallbacks, effect, disturbed>>

Keys    == {"VOLUME_DOWN", "VOLUME_UP"}
Effects == {"none", "system", "MIC_START", "MIC_STOP",
            "ADJUST_LOWER", "ADJUST_RAISE", "PHANTOM_TAP"}

\* The early return of onKeyEvent: without a bound service, or with the
\* hijack off, Android handles the key.
Filtering == bound /\ isHijackEnabled

HeldKeys == {k \in Keys : \/ k = "VOLUME_DOWN" /\ downSince # 0
                          \/ k = "VOLUME_UP"   /\ upSince # 0}

Init ==
    /\ now = 1
    /\ downSince = 0 /\ upSince = 0
    /\ bound = FALSE
    /\ isHijackEnabled = TRUE
    /\ prefs \in BOOLEAN /\ prefsDisk = prefs
    /\ volDownPressTime = 0 /\ volUpPressTime = 0
    /\ isMicTriggered = FALSE
    /\ micCallbacks = <<>> /\ strayCallbacks = <<>>
    /\ effect = "none"
    /\ disturbed = {}
-----------------------------------------------------------------------------
(* onKeyEvent, one operator per branch.                                    *)

PassThrough ==
    /\ ~Filtering
    /\ effect' = "system"
    /\ UNCHANGED <<lock, volUpPressTime, disturbed>>

\* Mutant: a repeated ACTION_DOWN starts another countdown.
VolDownPressedUnlocked ==
    /\ Filtering
    /\ volDownPressTime' = now
    /\ micCallbacks' = Append(micCallbacks, now + HoldTime)
    /\ effect' = "none"
    /\ UNCHANGED <<isMicTriggered, volUpPressTime, disturbed>>

\* ACTION_DOWN of VOLUME_DOWN, sent again while the key repeats: only the
\* first one starts the countdown.
VolDownPressed ==
    /\ Filtering
    /\ IF volDownPressTime = 0
       THEN /\ volDownPressTime' = now
            /\ micCallbacks' = Append(micCallbacks, now + HoldTime)
       ELSE UNCHANGED <<volDownPressTime, micCallbacks>>
    /\ effect' = "none"
    /\ UNCHANGED <<isMicTriggered, volUpPressTime, disturbed>>

\* Mutant: the release resets the lock but forgets removeCallbacks.
VolDownReleasedKeepingCountdown ==
    /\ Filtering
    /\ effect' = IF isMicTriggered THEN "MIC_STOP" ELSE "ADJUST_LOWER"
    /\ isMicTriggered' = FALSE
    /\ volDownPressTime' = 0
    /\ disturbed' = disturbed \ {"VOLUME_DOWN"}
    /\ UNCHANGED <<volUpPressTime, micCallbacks>>

\* Mutant: the lock is reset before the branch that reads it.
VolDownReleasedResetFirst ==
    /\ Filtering
    /\ micCallbacks' = <<>>
    /\ effect' = "ADJUST_LOWER"
    /\ isMicTriggered' = FALSE
    /\ volDownPressTime' = 0
    /\ disturbed' = disturbed \ {"VOLUME_DOWN"}
    /\ UNCHANGED volUpPressTime

\* ACTION_UP of VOLUME_DOWN: removeCallbacks, then cut the mic or lower the
\* volume, then reset the lock.
VolDownReleased ==
    /\ Filtering
    /\ micCallbacks' = <<>>
    /\ effect' = IF isMicTriggered THEN "MIC_STOP" ELSE "ADJUST_LOWER"
    /\ isMicTriggered' = FALSE
    /\ volDownPressTime' = 0
    /\ disturbed' = disturbed \ {"VOLUME_DOWN"}
    /\ UNCHANGED volUpPressTime

\* Mutant: the time of the first ACTION_DOWN is never taken.
VolUpPressedUntimed ==
    /\ Filtering
    /\ effect' = "none"
    /\ UNCHANGED <<volUpPressTime, lock, disturbed>>

VolUpPressed ==
    /\ Filtering
    /\ volUpPressTime' = IF volUpPressTime = 0 THEN now ELSE volUpPressTime
    /\ effect' = "none"
    /\ UNCHANGED <<lock, disturbed>>

\* Mutant: -1 as the "not pressed" value written back.
VolUpReleasedMinusOne ==
    /\ Filtering
    /\ effect' = IF now - volUpPressTime > HoldTime THEN "PHANTOM_TAP"
                                                    ELSE "ADJUST_RAISE"
    /\ volUpPressTime' = -1
    /\ disturbed' = disturbed \ {"VOLUME_UP"}
    /\ UNCHANGED lock

VolUpReleased ==
    /\ Filtering
    /\ effect' = IF now - volUpPressTime > HoldTime THEN "PHANTOM_TAP"
                                                    ELSE "ADJUST_RAISE"
    /\ volUpPressTime' = 0
    /\ disturbed' = disturbed \ {"VOLUME_UP"}
    /\ UNCHANGED lock

\* micRunnable of the bound service, when the main looper reaches it.
MicRunnable ==
    /\ micCallbacks # <<>>
    /\ Head(micCallbacks) <= now
    /\ micCallbacks' = Tail(micCallbacks)
    /\ effect' = "MIC_START"
    /\ isMicTriggered' = TRUE
    /\ UNCHANGED <<now, finger, bound, switch, volDownPressTime,
                   volUpPressTime, strayCallbacks, disturbed>>

\* The same runnable of a destroyed service: onDestroy does not remove it, it
\* still broadcasts, and the flag it sets is one nobody reads again.
StrayRunnable ==
    /\ strayCallbacks # <<>>
    /\ Head(strayCallbacks) <= now
    /\ strayCallbacks' = Tail(strayCallbacks)
    /\ effect' = "MIC_START"
    /\ UNCHANGED <<now, finger, bound, switch, lock, volUpPressTime, disturbed>>
-----------------------------------------------------------------------------
(* The finger and the clock.                                               *)

\* Presses are only enumerated while their countdown can still elapse.
InHorizon == now + HoldTime <= MaxNow

PressVolDown ==
    /\ downSince = 0 /\ InHorizon
    /\ downSince' = now
    /\ VolDownPressed \/ PassThrough
    /\ UNCHANGED <<now, upSince, bound, switch, strayCallbacks>>

RepeatVolDown ==
    /\ downSince # 0 /\ InHorizon
    /\ VolDownPressed \/ PassThrough
    /\ UNCHANGED <<now, finger, bound, switch, strayCallbacks>>

ReleaseVolDown ==
    /\ downSince # 0
    /\ downSince' = 0
    /\ VolDownReleased \/ PassThrough
    /\ UNCHANGED <<now, upSince, bound, switch, strayCallbacks>>

PressVolUp ==
    /\ upSince = 0 /\ InHorizon
    /\ upSince' = now
    /\ VolUpPressed \/ PassThrough
    /\ UNCHANGED <<now, downSince, bound, switch, strayCallbacks>>

RepeatVolUp ==
    /\ upSince # 0
    /\ VolUpPressed \/ PassThrough
    /\ UNCHANGED <<now, finger, bound, switch, strayCallbacks>>

ReleaseVolUp ==
    /\ upSince # 0
    /\ upSince' = 0
    /\ VolUpReleased \/ PassThrough
    /\ UNCHANGED <<now, downSince, bound, switch, strayCallbacks>>

Tick ==
    /\ now < MaxNow
    /\ now' = now + 1
    /\ effect' = "none"
    /\ UNCHANGED <<finger, bound, switch, lock, volUpPressTime,
                   strayCallbacks, disturbed>>
-----------------------------------------------------------------------------
(* The switch, the service and the process.                                *)

\* Mutant: the executor updates the running service only.
SetHijackInRamOnly(on) ==
    /\ isHijackEnabled' = on
    /\ effect' = "none"
    /\ disturbed' = IF on # isHijackEnabled THEN disturbed \union HeldKeys
                                            ELSE disturbed
    /\ UNCHANGED <<now, finger, bound, prefs, prefsDisk, lock, volUpPressTime,
                   strayCallbacks>>

\* "hijack on" / "hijack off" in SystemExecutor: the preference (apply() is
\* visible at once, on disk later) and the static flag.
SetHijack(on) ==
    /\ prefs' = on
    /\ isHijackEnabled' = on
    /\ effect' = "none"
    /\ disturbed' = IF on # isHijackEnabled THEN disturbed \union HeldKeys
                                            ELSE disturbed
    /\ UNCHANGED <<now, finger, bound, prefsDisk, lock, volUpPressTime,
                   strayCallbacks>>

\* The writer thread of SharedPreferences.
FlushPrefs ==
    /\ prefsDisk # prefs
    /\ prefsDisk' = prefs
    /\ effect' = "none"
    /\ UNCHANGED <<now, finger, bound, isHijackEnabled, prefs, lock,
                   volUpPressTime, strayCallbacks, disturbed>>

\* A new service object: its fields have their initial values already.
OnServiceConnected ==
    /\ ~bound
    /\ bound' = TRUE
    /\ isHijackEnabled' = prefs
    /\ effect' = "none"
    /\ disturbed' = disturbed \union HeldKeys
    /\ UNCHANGED <<now, finger, prefs, prefsDisk, lock, volUpPressTime,
                   strayCallbacks>>

\* onDestroy: the object's fields die with it, its posted runnables do not.
OnDestroy ==
    /\ bound
    /\ Len(strayCallbacks) + Len(micCallbacks) <= MaxStray
    /\ bound' = FALSE
    /\ strayCallbacks' = strayCallbacks \o micCallbacks
    /\ micCallbacks' = <<>>
    /\ volDownPressTime' = 0 /\ volUpPressTime' = 0
    /\ isMicTriggered' = FALSE
    /\ effect' = "none"
    /\ disturbed' = HeldKeys
    /\ UNCHANGED <<now, finger, switch>>

\* The process dies: statics and looper are gone, what was flushed remains.
KillProcess ==
    /\ bound' = FALSE
    /\ isHijackEnabled' = TRUE
    /\ prefs' = prefsDisk
    /\ micCallbacks' = <<>> /\ strayCallbacks' = <<>>
    /\ volDownPressTime' = 0 /\ volUpPressTime' = 0
    /\ isMicTriggered' = FALSE
    /\ effect' = "none"
    /\ disturbed' = HeldKeys
    /\ UNCHANGED <<now, finger, prefsDisk>>

FingerStep ==
    \/ PressVolDown \/ RepeatVolDown \/ ReleaseVolDown
    \/ PressVolUp   \/ RepeatVolUp   \/ ReleaseVolUp

Next ==
    \/ FingerStep
    \/ Tick
    \/ MicRunnable
    \/ StrayRunnable
    \/ \E on \in BOOLEAN : SetHijack(on)
    \/ FlushPrefs
    \/ OnServiceConnected
    \/ OnDestroy
    \/ KillProcess

Spec == Init /\ [][Next]_vars
-----------------------------------------------------------------------------
(* Properties.                                                             *)

TypeOK ==
    /\ now \in 1..MaxNow
    /\ downSince \in 0..MaxNow /\ upSince \in 0..MaxNow
    /\ bound \in BOOLEAN /\ isHijackEnabled \in BOOLEAN
    /\ prefs \in BOOLEAN /\ prefsDisk \in BOOLEAN
    /\ volDownPressTime \in 0..MaxNow /\ volUpPressTime \in 0..MaxNow
    /\ isMicTriggered \in BOOLEAN
    /\ micCallbacks \in Seq(Nat) /\ strayCallbacks \in Seq(Nat)
    /\ effect \in Effects
    /\ disturbed \in SUBSET Keys

\* "The True Walkie-Talkie Hardware Lock" (DevilkingService.kt:29): whatever
\* keys, commands and rebinds do, one press is one countdown or one open
\* microphone, never both, never two, and the press time is set exactly then.
\* So MIC_STOP is sent once for each MIC_START of a service.
HardwareLock ==
    /\ Len(micCallbacks) <= 1
    /\ micCallbacks # <<>> => ~isMicTriggered
    /\ volDownPressTime # 0 <=> (micCallbacks # <<>> \/ isMicTriggered)
    /\ micCallbacks # <<>> => Head(micCallbacks) = volDownPressTime + HoldTime

\* A press the filter watched from start to end leaves nothing behind: the
\* countdown runs and the microphone is open only under the finger.
MicNeedsFinger ==
    "VOLUME_DOWN" \notin disturbed /\ (micCallbacks # <<>> \/ isMicTriggered)
        => downSince # 0

\* The switch in RAM, which onKeyEvent reads, and the stored one, which the
\* next onServiceConnected reads, agree whenever a service is bound, through
\* rebinds and process deaths.
HijackInSync == bound => isHijackEnabled = prefs

\* The microphone opens only under a finger that has held the key for the
\* whole countdown: a quick tap never opens it, however taps, repeats and
\* late looper messages interleave.
MicStartNeedsHold ==
    [][ (/\ effect' = "MIC_START" /\ strayCallbacks' = strayCallbacks
         /\ "VOLUME_DOWN" \notin disturbed)
        => downSince # 0 /\ now - downSince >= HoldTime ]_vars

\* The long-press macro on VOLUME_UP (executePhantomTap) is never played by a
\* short press whose whole length the filter saw.
PhantomTapNeedsLongPress ==
    [][ (effect' = "PHANTOM_TAP" /\ "VOLUME_UP" \notin disturbed)
        => now - upSince > HoldTime ]_vars
=============================================================================
