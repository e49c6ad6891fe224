------------------------- MODULE VolumeHijackProofs -------------------------
(***************************************************************************)
(* Proofs about the volume keys, for every hold time and every bound.      *)
(*                                                                         *)
(* The safety invariants are not inductive alone.  PressInv adds what ties *)
(* the recorded press times to the finger for a press whose filter did not *)
(* change: IInv below is inductive and implies each of them.               *)
(***************************************************************************)
EXTENDS VolumeHijack, SequenceTheorems, TLAPS

\* For an undisturbed key, a recorded press is seen by the filter, is the
\* current one and no older than the finger; and while the filter is on, a
\* held VOLUME_UP is recorded.
PressInv ==
    /\ downSince <= now /\ upSince <= now
    /\ "VOLUME_DOWN" \notin disturbed /\ volDownPressTime # 0
         => Filtering /\ downSince # 0 /\ downSince <= volDownPressTime
    /\ "VOLUME_UP" \notin disturbed /\ volUpPressTime # 0
         => Filtering /\ upSince # 0 /\ upSince <= volUpPressTime
    /\ "VOLUME_UP" \notin disturbed /\ Filtering /\ upSince # 0
         => volUpPressTime # 0

IInv == TypeOK /\ HardwareLock /\ HijackInSync /\ PressInv

USE HoldTimeAssumption, BoundsAssumption

\* The state the program starts in satisfies the inductive invariant.
LEMMA InitIInv == Init => IInv
<1> SUFFICES ASSUME Init PROVE IInv
  OBVIOUS
<1>1. TypeOK
  <2>1. micCallbacks \in Seq(Nat) /\ strayCallbacks \in Seq(Nat)
    BY DEF Init
  <2>2. /\ now \in 1..MaxNow
        /\ downSince \in 0..MaxNow /\ upSince \in 0..MaxNow
        /\ volDownPressTime \in 0..MaxNow /\ volUpPressTime \in 0..MaxNow
    BY DEF Init
  <2>3. /\ bound \in BOOLEAN /\ isHijackEnabled \in BOOLEAN
        /\ prefs \in BOOLEAN /\ prefsDisk \in BOOLEAN
        /\ isMicTriggered \in BOOLEAN
    BY Zenon DEF Init
  <2>4. effect \in Effects /\ disturbed \in SUBSET Keys
    BY DEF Init, Effects
  <2> QED
    BY <2>1, <2>2, <2>3, <2>4 DEF TypeOK
<1>2. HardwareLock
  BY DEF Init, HardwareLock
<1>3. HijackInSync
  BY DEF Init, HijackInSync
<1>4. PressInv
  BY DEF Init, PressInv
<1> QED
  BY <1>1, <1>2, <1>3, <1>4 DEF IInv

\* What the looper holds once the only posted runnable is taken from it.
LEMMA SingletonTail ==
    ASSUME NEW s \in Seq(Nat), s # <<>>, Len(s) <= 1
    PROVE  Tail(s) = <<>>
<1>1. Len(s) \in Nat /\ Len(s) # 0
  BY LenProperties, EmptySeq
<1>0. \A n \in Nat : n # 0 /\ n <= 1 => n = 1
  OBVIOUS
<1>2. Len(s) = 1
  BY <1>0, <1>1, Zenon
<1>3. Tail(s) \in Seq(Nat) /\ Len(Tail(s)) = 0
  BY <1>2, HeadTailProperties
<1> QED
  BY <1>3, EmptySeq

\* Every step leaves sequences of due times in the looper.
LEMMA NextCallbacks ==
    TypeOK /\ [Next]_vars
        => micCallbacks' \in Seq(Nat) /\ strayCallbacks' \in Seq(Nat)
<1> SUFFICES ASSUME TypeOK, [Next]_vars
             PROVE  micCallbacks' \in Seq(Nat) /\ strayCallbacks' \in Seq(Nat)
  OBVIOUS
<1> USE DEF TypeOK, lock
<1>1. ASSUME PressVolDown \/ RepeatVolDown
      PROVE  micCallbacks' \in Seq(Nat) /\ strayCallbacks' \in Seq(Nat)
  <2>1. now + HoldTime \in Nat
    OBVIOUS
  <2>2. Append(micCallbacks, now + HoldTime) \in Seq(Nat)
    BY <2>1, AppendProperties
  <2> QED
    BY <1>1, <2>2 DEF PressVolDown, RepeatVolDown, VolDownPressed, PassThrough
<1>2. ASSUME ReleaseVolDown \/ PressVolUp \/ RepeatVolUp \/ ReleaseVolUp
      PROVE  micCallbacks' \in Seq(Nat) /\ strayCallbacks' \in Seq(Nat)
  <2>1. strayCallbacks' = strayCallbacks
    BY <1>2 DEF ReleaseVolDown, PressVolUp, RepeatVolUp, ReleaseVolUp
  <2>2. micCallbacks' = micCallbacks \/ micCallbacks' = <<>>
    BY <1>2 DEF ReleaseVolDown, PressVolUp, RepeatVolUp, ReleaseVolUp,
                VolDownReleased, VolUpPressed, VolUpReleased, PassThrough
  <2>3. <<>> \in Seq(Nat)
    OBVIOUS
  <2> QED
    BY <2>1, <2>2, <2>3
<1>3. CASE MicRunnable
  BY <1>3, HeadTailProperties DEF MicRunnable
<1>4. CASE StrayRunnable
  BY <1>4, HeadTailProperties DEF StrayRunnable
<1>5. CASE OnDestroy
  BY <1>5, ConcatProperties DEF OnDestroy
<1>6. CASE KillProcess
  BY <1>6 DEF KillProcess
<1>7. CASE Tick \/ FlushPrefs \/ OnServiceConnected \/ \E on \in BOOLEAN : SetHijack(on)
  BY <1>7 DEF Tick, FlushPrefs, OnServiceConnected, SetHijack
<1>8. CASE UNCHANGED vars
  BY <1>8 DEF vars
<1> QED
  BY <1>1, <1>2, <1>3, <1>4, <1>5, <1>6, <1>7, <1>8 DEF Next, FingerStep

\* Every step keeps the variables in their types.
LEMMA NextTypeOK == TypeOK /\ [Next]_vars => TypeOK'
<1> SUFFICES ASSUME TypeOK, [Next]_vars PROVE TypeOK'
  OBVIOUS
<1>0. micCallbacks' \in Seq(Nat) /\ strayCallbacks' \in Seq(Nat)
  BY NextCallbacks
<1> USE <1>0 DEF TypeOK, Effects, finger, switch, lock
<1>1. ASSUME PressVolDown \/ RepeatVolDown PROVE TypeOK'
  <2>1. /\ now' \in 1..MaxNow
        /\ downSince' \in 0..MaxNow /\ upSince' \in 0..MaxNow
        /\ volDownPressTime' \in 0..MaxNow /\ volUpPressTime' \in 0..MaxNow
    BY <1>1 DEF PressVolDown, RepeatVolDown, VolDownPressed, PassThrough
  <2>2. /\ bound' \in BOOLEAN /\ isHijackEnabled' \in BOOLEAN
        /\ prefs' \in BOOLEAN /\ prefsDisk' \in BOOLEAN
        /\ isMicTriggered' \in BOOLEAN
    BY <1>1 DEF PressVolDown, RepeatVolDown, VolDownPressed, PassThrough
  <2>3. effect' \in Effects
    BY <1>1 DEF PressVolDown, RepeatVolDown, VolDownPressed, PassThrough
  <2>4. disturbed' \in SUBSET Keys
    BY <1>1 DEF PressVolDown, RepeatVolDown, VolDownPressed, PassThrough
  <2> QED
    BY <2>1, <2>2, <2>3, <2>4
<1>2. ASSUME ReleaseVolDown PROVE TypeOK'
  <2>1. /\ now' \in 1..MaxNow
        /\ downSince' \in 0..MaxNow /\ upSince' \in 0..MaxNow
        /\ volDownPressTime' \in 0..MaxNow /\ volUpPressTime' \in 0..MaxNow
    BY <1>2 DEF ReleaseVolDown, VolDownReleased, PassThrough
  <2>2. /\ bound' \in BOOLEAN /\ isHijackEnabled' \in BOOLEAN
        /\ prefs' \in BOOLEAN /\ prefsDisk' \in BOOLEAN
        /\ isMicTriggered' \in BOOLEAN
    BY <1>2 DEF ReleaseVolDown, VolDownReleased, PassThrough
  <2>3. effect' \in Effects
    BY <1>2 DEF ReleaseVolDown, VolDownReleased, PassThrough
  <2>4. disturbed' \in SUBSET Keys
    BY <1>2 DEF ReleaseVolDown, VolDownReleased, PassThrough
  <2> QED
    BY <2>1, <2>2, <2>3, <2>4
<1>3. CASE PressVolUp \/ RepeatVolUp
  BY <1>3 DEF PressVolUp, RepeatVolUp, VolUpPressed, PassThrough
<1>4. CASE ReleaseVolUp
  BY <1>4 DEF ReleaseVolUp, VolUpReleased, PassThrough
<1>5. CASE Tick
  BY <1>5 DEF Tick
<1>6. CASE MicRunnable
  BY <1>6 DEF MicRunnable
<1>7. CASE StrayRunnable
  BY <1>7 DEF StrayRunnable
<1>8. ASSUME NEW on \in BOOLEAN, SetHijack(on) PROVE TypeOK'
  BY <1>8 DEF SetHijack, HeldKeys
<1>9. CASE FlushPrefs
  BY <1>9 DEF FlushPrefs
<1>10. CASE OnServiceConnected
  BY <1>10 DEF OnServiceConnected, HeldKeys
<1>11. ASSUME OnDestroy PROVE TypeOK'
  <2>1. /\ now' \in 1..MaxNow
        /\ downSince' \in 0..MaxNow /\ upSince' \in 0..MaxNow
        /\ volDownPressTime' \in 0..MaxNow /\ volUpPressTime' \in 0..MaxNow
    BY <1>11 DEF OnDestroy
  <2>2. /\ bound' \in BOOLEAN /\ isHijackEnabled' \in BOOLEAN
        /\ prefs' \in BOOLEAN /\ prefsDisk' \in BOOLEAN
        /\ isMicTriggered' \in BOOLEAN
    BY <1>11 DEF OnDestroy
  <2>3. effect' \in Effects
    BY <1>11 DEF OnDestroy
  <2>4. disturbed' \in SUBSET Keys
    BY <1>11 DEF OnDestroy, HeldKeys
  <2> QED
    BY <2>1, <2>2, <2>3, <2>4
<1>12. ASSUME KillProcess PROVE TypeOK'
  <2>1. /\ now' \in 1..MaxNow
        /\ downSince' \in 0..MaxNow /\ upSince' \in 0..MaxNow
        /\ volDownPressTime' \in 0..MaxNow /\ volUpPressTime' \in 0..MaxNow
    BY <1>12 DEF KillProcess
  <2>2. /\ bound' \in BOOLEAN /\ isHijackEnabled' \in BOOLEAN
        /\ prefs' \in BOOLEAN /\ prefsDisk' \in BOOLEAN
        /\ isMicTriggered' \in BOOLEAN
    BY <1>12 DEF KillProcess
  <2>3. effect' \in Effects
    BY <1>12 DEF KillProcess
  <2>4. disturbed' \in SUBSET Keys
    BY <1>12 DEF KillProcess, HeldKeys
  <2> QED
    BY <2>1, <2>2, <2>3, <2>4
<1>13. CASE UNCHANGED vars
  BY <1>13 DEF vars
<1> QED
  BY <1>1, <1>2, <1>3, <1>4, <1>5, <1>6, <1>7, <1>8, <1>9, <1>10, <1>11,
     <1>12, <1>13 DEF Next, FingerStep

\* Every step keeps the lock: its press time, countdown and flag move together.
LEMMA NextHardwareLock == TypeOK /\ HardwareLock /\ [Next]_vars => HardwareLock'
<1> SUFFICES ASSUME TypeOK, HardwareLock, [Next]_vars PROVE HardwareLock'
  OBVIOUS
<1> USE DEF TypeOK, HardwareLock, finger, switch, lock
<1>1. ASSUME PressVolDown \/ RepeatVolDown PROVE HardwareLock'
  <2>1. CASE PassThrough
    BY <2>1 DEF PassThrough
  <2>2. CASE VolDownPressed /\ volDownPressTime = 0
    <3>1. micCallbacks = <<>> /\ ~isMicTriggered
      BY <2>2
    <3>2. micCallbacks' = <<now + HoldTime>>
      BY <2>2, <3>1 DEF VolDownPressed
    <3>3. volDownPressTime' = now /\ isMicTriggered' = isMicTriggered
      BY <2>2 DEF VolDownPressed
    <3> QED
      BY <3>1, <3>2, <3>3
  <2>3. CASE VolDownPressed /\ volDownPressTime # 0
    BY <2>3 DEF VolDownPressed
  <2> QED
    BY <1>1, <2>1, <2>2, <2>3 DEF PressVolDown, RepeatVolDown
<1>2. CASE ReleaseVolDown
  BY <1>2 DEF ReleaseVolDown, VolDownReleased, PassThrough
<1>3. CASE PressVolUp \/ RepeatVolUp \/ ReleaseVolUp
  BY <1>3 DEF PressVolUp, RepeatVolUp, ReleaseVolUp, VolUpPressed, VolUpReleased,
              PassThrough
<1>4. CASE MicRunnable
  <2>3. micCallbacks' = <<>>
    BY <1>4, SingletonTail DEF MicRunnable
  <2>4. isMicTriggered' /\ volDownPressTime' # 0
    BY <1>4 DEF MicRunnable
  <2>5. Len(micCallbacks') <= 1
    BY <2>3
  <2> QED
    BY <2>3, <2>4, <2>5
<1>5. CASE OnDestroy \/ KillProcess
  BY <1>5 DEF OnDestroy, KillProcess
<1>6. CASE Tick \/ StrayRunnable \/ FlushPrefs \/ OnServiceConnected
  BY <1>6 DEF Tick, StrayRunnable, FlushPrefs, OnServiceConnected
<1>7. ASSUME NEW on \in BOOLEAN, SetHijack(on) PROVE HardwareLock'
  BY <1>7 DEF SetHijack
<1>8. CASE UNCHANGED vars
  BY <1>8 DEF vars
<1> QED
  BY <1>1, <1>2, <1>3, <1>4, <1>5, <1>6, <1>7, <1>8 DEF Next, FingerStep

\* Every step keeps the flag in RAM and the stored preference equal.
LEMMA NextHijackInSync == HijackInSync /\ [Next]_vars => HijackInSync'
<1> SUFFICES ASSUME HijackInSync, [Next]_vars PROVE HijackInSync'
  OBVIOUS
<1> USE DEF HijackInSync, switch
<1>1. CASE FingerStep
  BY <1>1 DEF FingerStep, PressVolDown, RepeatVolDown, ReleaseVolDown, PressVolUp,
              RepeatVolUp, ReleaseVolUp
<1>2. CASE Tick \/ MicRunnable \/ StrayRunnable \/ FlushPrefs
  BY <1>2 DEF Tick, MicRunnable, StrayRunnable, FlushPrefs
<1>3. CASE \E on \in BOOLEAN : SetHijack(on)
  BY <1>3 DEF SetHijack
<1>4. CASE OnServiceConnected \/ OnDestroy \/ KillProcess
  BY <1>4 DEF OnServiceConnected, OnDestroy, KillProcess
<1>5. CASE UNCHANGED vars
  BY <1>5 DEF vars
<1> QED
  BY <1>1, <1>2, <1>3, <1>4, <1>5 DEF Next

\* Every step keeps undisturbed presses tied to the finger.
LEMMA NextPressInv == TypeOK /\ PressInv /\ [Next]_vars => PressInv'
<1> SUFFICES ASSUME TypeOK, PressInv, [Next]_vars PROVE PressInv'
  OBVIOUS
<1> USE DEF TypeOK, PressInv, Filtering, finger, switch, lock
<1>1. CASE PressVolDown
  BY <1>1 DEF PressVolDown, VolDownPressed, PassThrough
<1>2. CASE RepeatVolDown
  BY <1>2 DEF RepeatVolDown, VolDownPressed, PassThrough
<1>3. ASSUME ReleaseVolDown PROVE PressInv'
  <2>1. CASE VolDownReleased
    BY <1>3, <2>1 DEF ReleaseVolDown, VolDownReleased
  <2>2. CASE PassThrough
    BY <1>3, <2>2 DEF ReleaseVolDown, PassThrough
  <2> QED
    BY <1>3, <2>1, <2>2 DEF ReleaseVolDown
<1>4. CASE PressVolUp
  BY <1>4 DEF PressVolUp, VolUpPressed, PassThrough
<1>5. CASE RepeatVolUp
  BY <1>5 DEF RepeatVolUp, VolUpPressed, PassThrough
<1>6. ASSUME ReleaseVolUp PROVE PressInv'
  <2>1. CASE VolUpReleased
    BY <1>6, <2>1 DEF ReleaseVolUp, VolUpReleased
  <2>2. CASE PassThrough
    BY <1>6, <2>2 DEF ReleaseVolUp, PassThrough
  <2> QED
    BY <1>6, <2>1, <2>2 DEF ReleaseVolUp
<1>7. CASE Tick
  BY <1>7 DEF Tick
<1>8. CASE MicRunnable \/ StrayRunnable \/ FlushPrefs
  BY <1>8 DEF MicRunnable, StrayRunnable, FlushPrefs
<1>9. ASSUME NEW on \in BOOLEAN, SetHijack(on) PROVE PressInv'
  BY <1>9 DEF SetHijack, HeldKeys, Keys
<1>10. CASE OnServiceConnected
  BY <1>10 DEF OnServiceConnected, HeldKeys, Keys
<1>11. CASE OnDestroy \/ KillProcess
  BY <1>11 DEF OnDestroy, KillProcess
<1>12. CASE UNCHANGED vars
  BY <1>12 DEF vars
<1> QED
  BY <1>1, <1>2, <1>3, <1>4, <1>5, <1>6, <1>7, <1>8, <1>9, <1>10, <1>11, <1>12
     DEF Next, FingerStep

\* IInv is an invariant of the volume keys.
THEOREM IInvInvariant == Spec => []IInv
<1>1. IInv /\ [Next]_vars => IInv'
  BY NextTypeOK, NextHardwareLock, NextHijackInSync, NextPressInv DEF IInv
<1> QED
  BY InitIInv, <1>1, PTL DEF Spec

\* Type correctness.
THEOREM TypeCorrect == Spec => []TypeOK
<1>1. IInv => TypeOK
  BY DEF IInv
<1> QED
  BY IInvInvariant, <1>1, PTL

\* One press is one countdown or one open microphone (DevilkingService.kt:29),
\* for every hold time, whatever the switch, the service and the process do.
THEOREM LockCorrect == Spec => []HardwareLock
<1>1. IInv => HardwareLock
  BY DEF IInv
<1> QED
  BY IInvInvariant, <1>1, PTL

\* The switch in RAM and the stored one agree while a service is bound.
THEOREM SwitchCorrect == Spec => []HijackInSync
<1>1. IInv => HijackInSync
  BY DEF IInv
<1> QED
  BY IInvInvariant, <1>1, PTL

\* The microphone is open, or about to be, only under the finger.
THEOREM FingerCorrect == Spec => []MicNeedsFinger
<1>1. IInv => MicNeedsFinger
  BY DEF IInv, HardwareLock, PressInv, MicNeedsFinger
<1> QED
  BY IInvInvariant, <1>1, PTL

\* No step of an undisturbed press opens the microphone before the key was
\* held for the whole countdown (micRunnable, DevilkingService.kt:34).
THEOREM HoldCorrect == Spec => MicStartNeedsHold
<1> DEFINE A == (/\ effect' = "MIC_START" /\ strayCallbacks' = strayCallbacks
                 /\ "VOLUME_DOWN" \notin disturbed)
                => downSince # 0 /\ now - downSince >= HoldTime
<1>1. IInv /\ [Next]_vars => [A]_vars
  <2> SUFFICES ASSUME IInv, Next, effect' = "MIC_START",
                      strayCallbacks' = strayCallbacks,
                      "VOLUME_DOWN" \notin disturbed
               PROVE  downSince # 0 /\ now - downSince >= HoldTime
    OBVIOUS
  <2> USE DEF IInv, TypeOK
  <2>1. CASE MicRunnable
    <3>1. Head(micCallbacks) <= now /\ Head(micCallbacks) = volDownPressTime + HoldTime
      BY <2>1 DEF MicRunnable, HardwareLock
    <3>2. volDownPressTime # 0
      BY <2>1 DEF MicRunnable, HardwareLock
    <3>3. downSince # 0 /\ downSince <= volDownPressTime
      BY <3>2 DEF PressInv
    <3> QED
      BY <3>1, <3>3
  <2>2. CASE StrayRunnable
    <3>1. Len(Tail(strayCallbacks)) = Len(strayCallbacks) - 1
      BY <2>2, HeadTailProperties DEF StrayRunnable
    <3>2. Len(strayCallbacks) \in Nat
      BY LenProperties
    <3> QED
      BY <2>2, <3>1, <3>2 DEF StrayRunnable
  <2>3. CASE FingerStep
    BY <2>3 DEF FingerStep, PressVolDown, RepeatVolDown, ReleaseVolDown, PressVolUp,
       RepeatVolUp, ReleaseVolUp, VolDownPressed, VolDownReleased, VolUpPressed,
       VolUpReleased, PassThrough
  <2>4. CASE Tick \/ FlushPrefs \/ OnServiceConnected \/ OnDestroy \/ KillProcess
             \/ \E on \in BOOLEAN : SetHijack(on)
    BY <2>4 DEF Tick, FlushPrefs, OnServiceConnected, OnDestroy, KillProcess, SetHijack
  <2> QED
    BY <2>1, <2>2, <2>3, <2>4 DEF Next
<1> QED
  BY IInvInvariant, <1>1, PTL DEF Spec, MicStartNeedsHold

\* A short press whose length the filter saw never plays the long-press macro
\* (DevilkingService.kt:113).
THEOREM PhantomTapCorrect == Spec => PhantomTapNeedsLongPress
<1> DEFINE A == (effect' = "PHANTOM_TAP" /\ "VOLUME_UP" \notin disturbed)
                => now - upSince > HoldTime
<1>1. IInv /\ [Next]_vars => [A]_vars
  <2> SUFFICES ASSUME IInv, Next, effect' = "PHANTOM_TAP", "VOLUME_UP" \notin disturbed
               PROVE  now - upSince > HoldTime
    OBVIOUS
  <2> USE DEF IInv, TypeOK
  <2>1. CASE ReleaseVolUp
    <3>1. VolUpReleased /\ upSince # 0
      BY <2>1 DEF ReleaseVolUp, PassThrough
    <3>2. volUpPressTime # 0 /\ upSince <= volUpPressTime
      BY <3>1 DEF VolUpReleased, PressInv
    <3>3. now - volUpPressTime > HoldTime
      BY <3>1 DEF VolUpReleased
    <3> QED
      BY <3>2, <3>3
  <2>2. CASE PressVolDown \/ RepeatVolDown \/ ReleaseVolDown \/ PressVolUp \/ RepeatVolUp
    BY <2>2 DEF PressVolDown, RepeatVolDown, ReleaseVolDown, PressVolUp, RepeatVolUp,
       VolDownPressed, VolDownReleased, VolUpPressed, PassThrough
  <2>3. CASE MicRunnable \/ StrayRunnable
    BY <2>3 DEF MicRunnable, StrayRunnable
  <2>4. CASE Tick \/ FlushPrefs \/ OnServiceConnected \/ OnDestroy \/ KillProcess
             \/ \E on \in BOOLEAN : SetHijack(on)
    BY <2>4 DEF Tick, FlushPrefs, OnServiceConnected, OnDestroy, KillProcess, SetHijack
  <2> QED
    BY <2>1, <2>2, <2>3, <2>4 DEF Next, FingerStep
<1> QED
  BY IInvInvariant, <1>1, PTL DEF Spec, PhantomTapNeedsLongPress
=============================================================================
