--------------------------- MODULE VoiceActivity ----------------------------
(***************************************************************************)
(* Voice activity detection of a session (service/rtc/vad, stat, and their *)
(* use in sfu.go, session.go and server.go): an OnTrack goroutine for each *)
(* audio track, voice and screen, pushes the audio levels of its packets   *)
(* to the one monitor of the session, under a read lock only.  Muting      *)
(* resets the monitor.  The monitor reports changes over receiveCh.        *)
(***************************************************************************)
EXTENDS Integers, Sequences, Functions

CONSTANTS
  VoiceLevelsSampleSize,        \* size of the window (50 in the code)
  AudioLevels                   \* levels packets carry

VoiceActivationThreshold == 10
VoiceDeactivationThreshold == 4

AudioTracks == {"voice", "screen"}

ASSUME VoiceAssumption ==
  VoiceLevelsSampleSize \in Nat \ {0, 1} /\ AudioLevels \subseteq 0..127

VARIABLES
  sample,       \* voiceLevelsSample
  samplePtr,    \* voiceLevelsSamplePtr
  voiceState,
  activation,   \* lastActivationTime: "recent" or "old", as ActivationDuration has it
  pushing,      \* place of PushAudioLevel in each OnTrack goroutine
  told,         \* the voice message sent last says on
  vadPanic,     \* an index was out of range
  \* histories
  unheard,      \* receiveCh was full
  replaced      \* a monitor took the place of another

voiceVars == <<sample, samplePtr, voiceState, activation, pushing, told, vadPanic,
               unheard, replaced>>

VoiceInit ==
  /\ sample = <<>> /\ samplePtr = 0 /\ voiceState = FALSE /\ activation = "old"
  /\ pushing = [t \in AudioTracks |-> "none"]
  /\ told = FALSE
  /\ vadPanic = FALSE
  /\ unheard = FALSE /\ replaced = FALSE

-----------------------------------------------------------------------------
(* stat *)

Sum(samples) == SumFunction(samples)

\* The quotient rounded to the nearest integer, halves up.
roundDiv(a, b) == (2 * a + b) \div (2 * b)

Avg(samples) == roundDiv(Sum(samples), Len(samples))

\* The square root of a / b, rounded likewise.
roundSqrt(a, b) == CHOOSE r \in 0..128 : /\ (2 * r - 1) * (2 * r - 1) * b <= 4 * a \/ r = 0
                                         /\ (2 * r + 1) * (2 * r + 1) * b > 4 * a

\* With Bessel's correction.
StdDev(samples, avg) ==
  LET total == SumFunction([i \in DOMAIN samples |-> (samples[i] - avg) * (samples[i] - avg)])
  IN  roundSqrt(total, Len(samples) - 1)

-----------------------------------------------------------------------------
(* The monitor *)

\* The callback of InitVAD.
send(voice) ==
  \/ told' = voice /\ UNCHANGED unheard
  \/ unheard' = TRUE /\ UNCHANGED told

inPush(t) == pushing[t] \notin {"none", "idle"}

\* The write lock of the session, which no reader holds a part of.
locked == \A t \in AudioTracks : ~inPush(t)

\* OnTrack of an audio track: InitVAD makes a new monitor.
InitVAD(t) ==
  /\ pushing[t] = "none"
  /\ locked
  /\ pushing' = [pushing EXCEPT ![t] = "idle"]
  /\ replaced' = (replaced \/ \E u \in AudioTracks : pushing[u] # "none")
  /\ sample' = <<>> /\ samplePtr' = 0 /\ voiceState' = FALSE /\ activation' = "old"
  /\ UNCHANGED <<told, vadPanic, unheard>>

\* PushAudioLevel while the window fills: the length is compared ...
Fill(t) ==
  /\ pushing[t] = "idle"
  /\ Len(sample) < VoiceLevelsSampleSize
  /\ pushing' = [pushing EXCEPT ![t] = "fills"]
  /\ UNCHANGED <<sample, samplePtr, voiceState, activation, told, vadPanic, unheard, replaced>>

\* ... and the level appended.  Of two that append at a time one may be lost.
AppendLevel(t, level) ==
  /\ pushing[t] = "fills"
  /\ \/ sample' = Append(sample, level)
     \/ UNCHANGED sample /\ \E u \in AudioTracks \ {t} : pushing[u] = "fills"
  /\ pushing' = [pushing EXCEPT ![t] = "idle"]
  /\ UNCHANGED <<samplePtr, voiceState, activation, told, vadPanic, unheard, replaced>>

atEnd == samplePtr = VoiceLevelsSampleSize - 1

\* Then: the level is put in its place and the pointer compared ...
Put(t, level) ==
  /\ pushing[t] = "idle"
  /\ Len(sample) >= VoiceLevelsSampleSize
  /\ IF samplePtr < Len(sample)
     THEN /\ sample' = [sample EXCEPT ![samplePtr + 1] = level]
          /\ pushing' = [pushing EXCEPT ![t] = IF atEnd THEN "last" ELSE "inner"]
          /\ UNCHANGED vadPanic
     ELSE vadPanic' = TRUE /\ UNCHANGED <<sample, pushing>>
  /\ UNCHANGED <<samplePtr, voiceState, activation, told, unheard, replaced>>

\* ... the pointer moves ...
Advance(t) ==
  /\ pushing[t] \in {"last", "inner"}
  /\ samplePtr' = IF pushing[t] = "last" THEN 0 ELSE samplePtr + 1
  /\ pushing' = [pushing EXCEPT ![t] = "decides"]
  /\ UNCHANGED <<sample, voiceState, activation, told, vadPanic, unheard, replaced>>

deviation == StdDev(sample, Avg(sample))

activates == ~voiceState /\ deviation > VoiceActivationThreshold

mayDeactivate == activation = "old"

deactivates == voiceState /\ deviation < VoiceDeactivationThreshold /\ mayDeactivate

\* ... and the window decides.
Decide(t) ==
  /\ pushing[t] = "decides"
  /\ pushing' = [pushing EXCEPT ![t] = "idle"]
  /\ IF activates \/ deactivates
     THEN /\ voiceState' = activates
          /\ activation' = IF activates THEN "recent" ELSE activation
          /\ send(activates)
     ELSE UNCHANGED <<voiceState, activation, told, unheard>>
  /\ UNCHANGED <<sample, samplePtr, vadPanic, replaced>>

\* A plausible slip: Reset does not report.
Reset_silent ==
  /\ sample' = <<>> /\ samplePtr' = 0 /\ voiceState' = FALSE /\ activation' = "old"
  /\ UNCHANGED <<told, unheard>>

Reset ==
  /\ sample' = <<>> /\ samplePtr' = 0 /\ voiceState' = FALSE /\ activation' = "old"
  /\ send(FALSE)

\* A mute message resets the monitor.  It needs a voice track.
Mute ==
  /\ pushing["voice"] # "none"
  /\ locked
  /\ Reset
  /\ UNCHANGED <<pushing, vadPanic, replaced>>

\* ActivationDuration goes by (external).
ActivationEnds ==
  /\ activation = "recent"
  /\ activation' = "old"
  /\ UNCHANGED <<sample, samplePtr, voiceState, pushing, told, vadPanic, unheard, replaced>>

VoiceNext ==
  /\ ~vadPanic
  /\ \/ \E t \in AudioTracks :
          \/ InitVAD(t) \/ Fill(t) \/ Advance(t) \/ Decide(t)
          \/ \E level \in AudioLevels : AppendLevel(t, level) \/ Put(t, level)
     \/ Mute \/ ActivationEnds

VoiceSpec == VoiceInit /\ [][VoiceNext]_voiceVars

-----------------------------------------------------------------------------
(* Properties. *)

\* What was reported last is the state of the monitor.  (Unless a report found
\* the channel full, or a second track brought a monitor of its own.)
VoiceAgrees == unheard \/ replaced \/ told = voiceState

\* As long as one track alone pushes to a monitor the pointer stays in the
\* window, wherever a mute resets it.
PointerInWindow == vadPanic => replaced

=============================================================================
