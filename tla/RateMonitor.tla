---------------------------- MODULE RateMonitor -----------------------------
(***************************************************************************)
(* The rate monitor of a screen track (service/rtc/rate.go): a list of     *)
(* packet sizes and times that grows until it spans twice the sampling     *)
(* size, and is a ring from then on.  GetRate goes through it backwards.   *)
(***************************************************************************)
EXTENDS Integers, Sequences, FiniteSets, FiniteSetsExt

CONSTANTS
  SamplingSize,   \* samplingSize
  PacketSizes,    \* sizes of packets
  MaxClock,       \* bounds the time
  MaxPushes       \* bounds the packets

ASSUME RateAssumption ==
  /\ SamplingSize \in Nat \ {0} /\ {MaxClock, MaxPushes} \subseteq Nat
  /\ PacketSizes \subseteq Nat \ {0}

VARIABLES
  samples, samplesPtr, filled,
  clock,
  pushed        \* history: all packets, in order, with the bytes before each

rateVars == <<samples, samplesPtr, filled, clock, pushed>>

RateInit ==
  /\ samples = <<>> /\ samplesPtr = 0 /\ filled = FALSE
  /\ clock = 0
  /\ pushed = <<>>

\* Sequences start at 1, slices at 0.
at(s, i) == s[(i % Len(s)) + 1]

\* getSamplesDuration of a list and its pointer.
getSamplesDuration(s, ptr) ==
  IF s = <<>> THEN 0 ELSE at(s, ptr - 1).ts - at(s, ptr).ts

\* A plausible slip: the pointer is moved before the sample is put in place.
place_next == ((samplesPtr + 1) % Len(samples)) + 1

place == (samplesPtr % Len(samples)) + 1

\* Bytes of all packets pushed.
pushedBytes == IF pushed = <<>> THEN 0 ELSE pushed[Len(pushed)].before + pushed[Len(pushed)].size

PushSample(size) ==
  LET packet == [ts |-> clock, size |-> size] IN
  /\ Len(pushed) < MaxPushes
  /\ pushed' = Append(pushed, [ts |-> clock, size |-> size, before |-> pushedBytes])
  /\ samplesPtr' = samplesPtr + 1
  /\ IF filled
     THEN samples' = [samples EXCEPT ![place] = packet] /\ UNCHANGED filled
     ELSE /\ samples' = Append(samples, packet)
          /\ filled' = (getSamplesDuration(samples', samplesPtr') >= 2 * SamplingSize)
  /\ UNCHANGED clock

Tick ==
  /\ clock < MaxClock
  /\ clock' = clock + 1
  /\ UNCHANGED <<samples, samplesPtr, filled, pushed>>

RateNext == Tick \/ \E size \in PacketSizes : PushSample(size)

RateSpec == RateInit /\ [][RateNext]_rateVars

\* The loop of GetRate from index i down: the bytes it adds up and the last
\* duration.
gather[i \in (samplesPtr - Len(samples))..(samplesPtr - 1)] ==
  LET s == at(samples, i)
      duration == clock - s.ts
  IN  IF duration >= SamplingSize \/ i = samplesPtr - Len(samples)
      THEN [bytes |-> s.size, duration |-> duration]
      ELSE [bytes |-> s.size + gather[i - 1].bytes, duration |-> gather[i - 1].duration]

\* What GetRate divides: bytes by duration.
GetRate == gather[samplesPtr - 1]

-----------------------------------------------------------------------------
(* Properties. *)

\* The packets the rate should be taken of are the latest ones, from this one
\* on: the first, going back, that is as old as the sampling size, or the last
\* that the ring holds.
oldest ==
  LET held == (Len(pushed) - Len(samples) + 1)..Len(pushed)
      old == {i \in held : clock - pushed[i].ts >= SamplingSize}
  IN  IF old = {} THEN Min(held) ELSE Max(old)

\* A filled monitor takes the rate of those packets and no others, wherever
\* the ring begins.
RateOfWindow ==
  filled => GetRate = [bytes |-> pushedBytes - pushed[oldest].before,
                       duration |-> clock - pushed[oldest].ts]
=============================================================================
