-------------------------- MODULE SensorSimulator --------------------------
(***************************************************************************)
(* The source of the samples (sensor_simulator.cpp): a flight profile of   *)
(* six phases that starts again at the cruise, three anomalies whose start *)
(* the seed decides, and the status bits of each sample.                   *)
(*                                                                         *)
(* Of the measured values the status depends on two, the engine's          *)
(* temperature and its speed.  Both are kept as the range of the values    *)
(* that some noise and some argument of the sine terms give, in hundredths *)
(* and rounded outwards, so that a status bit is certain, possible or      *)
(* excluded for every seed.  Altitude, speeds and heading are left out.    *)
(***************************************************************************)
EXTENDS Integers, Sequences, FiniteSetsExt

CONSTANTS
  SpikeStarts, DropStarts, GlitchStarts  \* bound: the starts that are drawn

ASSUME SimulatorAssumption ==
  /\ SpikeStarts \subseteq 110 .. 150
  /\ DropStarts \subseteq 220 .. 250
  /\ GlitchStarts \subseteq 155 .. 205

VARIABLES
  sampleIndex,      \* sample_index_
  lastPhase,        \* last_phase_
  temperature, rpm, \* the ranges of engine_temperature_c_ and engine_rpm_
  start,            \* engine_spike_start_, altitude_drop_start_, sensor_glitch_start_
  status            \* of the sample returned: the bits it has, and may have

vars == <<sampleIndex, lastPhase, temperature, rpm, start, status>>

Startup == 25
Takeoff == 20
Climb   == 70
Cruise  == 120
Descent == 65
Landing == 35
TotalProfile == Startup + Takeoff + Climb + Cruise + Descent + Landing

CruiseStart == Startup + Takeoff + Climb

(* Restart of a profile that goes back to the descent.                     *)
RestartsAtDescent == CruiseStart + Cruise

(* The sample that follows the last one of the profile.                    *)
Restart == CruiseStart

CurrentPhase(i) ==
  CASE i < Startup -> "Startup"
    [] i \in Startup .. Startup + Takeoff - 1 -> "Takeoff"
    [] i \in Startup + Takeoff .. CruiseStart - 1 -> "Climb"
    [] i \in CruiseStart .. CruiseStart + Cruise - 1 -> "Cruise"
    [] i \in CruiseStart + Cruise .. CruiseStart + Cruise + Descent - 1 -> "Descent"
    [] OTHER -> "Landing"

Duration == [Startup |-> Startup, Takeoff |-> Takeoff, Climb |-> Climb,
             Cruise |-> Cruise, Descent |-> Descent, Landing |-> Landing]

PhaseStart ==
  [Startup |-> 0, Takeoff |-> Startup, Climb |-> Startup + Takeoff,
   Cruise |-> CruiseStart, Descent |-> CruiseStart + Cruise,
   Landing |-> CruiseStart + Cruise + Descent]

-----------------------------------------------------------------------------
(* Ranges, <<lowest, highest>> in hundredths                               *)

RoundUp(n, d) == -((-n) \div d)
Plus(r, low, high) == <<r[1] + low, r[2] + high>>

Samples == 0 .. TotalProfile - 1

(* smoothstep(phase_progress()) in thousandths, rounded down and up, of    *)
(* each sample of the profile.                                             *)
Progress ==
  [s \in Samples |->
     LET phase == CurrentPhase(s)
         n == Max({Duration[phase] - 1, 1})
         i == Min({n, s - PhaseStart[phase]})
         cubic == i * i * (3 * n - 2 * i)
     IN <<(1000 * cubic) \div (n * n * n), RoundUp(1000 * cubic, n * n * n)>>]

(* lerp(from, to, phase_progress()) of two numbers.                        *)
Along(s, from, to) ==
  LET ends == {(to - from) * Progress[s][1], (to - from) * Progress[s][2]}
  IN <<100 * from + Min(ends) \div 10, 100 * from + RoundUp(Max(ends), 10)>>

(* lerp(value, target, percent / 100) of two ranges.                       *)
Approach(r, target, percent) ==
  <<r[1] + ((target[1] - r[1]) * percent) \div 100,
    r[2] + RoundUp((target[2] - r[2]) * percent, 100)>>

AtLeast(r, floor) == <<Max({r[1], floor}), Max({r[2], floor})>>

TargetTemperature ==
  [s \in Samples |-> LET phase == CurrentPhase(s) IN
     CASE phase = "Startup" -> Along(s, 35, 245)
       [] phase = "Takeoff" -> Along(s, 250, 645)
       [] phase = "Climb"   -> Along(s, 640, 690)
       [] phase = "Cruise"  -> <<65400, 67000>>
       [] phase = "Descent" -> Along(s, 645, 555)
       [] phase = "Landing" -> Along(s, 520, 180)]

TargetRpm ==
  [s \in Samples |-> LET phase == CurrentPhase(s) IN
     CASE phase = "Startup" -> Along(s, 650, 1000)
       [] phase = "Takeoff" -> Along(s, 1800, 2550)
       [] phase = "Climb"   -> Along(s, 2500, 2350)
       [] phase = "Cruise"  -> <<219200, 224800>>
       [] phase = "Descent" -> Along(s, 2050, 1680)
       [] phase = "Landing" -> Along(s, 1550, 760)]

-----------------------------------------------------------------------------
(* Active of an anomaly that does not end.                                 *)
ActiveFrom(first, duration) == sampleIndex >= first

Active(first, duration) == sampleIndex \in first .. first + duration - 1

(* What the spike adds to the temperature, which keeps it.                 *)
Spike ==
  LET k == sampleIndex - start.spike
  IN IF Active(start.spike, 9) THEN 2800 - 420 * (IF k < 4 THEN 4 - k ELSE k - 4)
     ELSE 0

AnomalyBits ==
  (IF Active(start.spike, 9) THEN {"EngineWarning"} ELSE {})
  \union (IF Active(start.drop, 4) THEN {"AltitudeDeviation"} ELSE {})
  \union (IF Active(start.glitch, 3) THEN {"SensorGlitch", "PitotDisagree"} ELSE {})

LowOil(phase, cold, fast) == phase = "Startup" /\ fast > 85000 /\ cold < 8000

(* The bits of a sample, where the temperature is taken for "hot" when a   *)
(* warning asks whether it is high and for "cold" when one asks whether it *)
(* is low, and the engine's speed for "fast".                              *)
Bits(phase, hot, cold, fast) ==
  AnomalyBits
  \union (IF phase # lastPhase THEN {"FlightPhaseTransition"} ELSE {})
  \union (IF hot > 67500 THEN {"EngineWarning"} ELSE {})
  \union (IF LowOil(phase, cold, fast) THEN {"LowOilPressure"} ELSE {})

Init ==
  /\ sampleIndex = 0
  /\ lastPhase = "Startup"
  /\ temperature = <<3000, 3000>>
  /\ rpm = <<0, 0>>
  /\ start \in [spike : SpikeStarts, drop : DropStarts, glitch : GlitchStarts]
  /\ status = [has |-> {}, may |-> {}]

(* next_sample(); "overrun" is the bits that buffer_overrun adds.          *)
NextSample(overrun) ==
  LET phase == CurrentPhase(sampleIndex)
      warmed == Approach(temperature, TargetTemperature[sampleIndex], 16)
      heat == Plus(AtLeast(Plus(warmed, -80, 80), 2000), Spike, Spike)
      speed == AtLeast(Plus(Approach(rpm, TargetRpm[sampleIndex], 20), -400, 400), 0)
  IN /\ temperature' = heat
     /\ rpm' = speed
     /\ status' = [has |-> Bits(phase, heat[1], heat[2], speed[1]) \union overrun,
                   may |-> Bits(phase, heat[2], heat[1], speed[2]) \union overrun]
     /\ lastPhase' = phase
     /\ sampleIndex' = IF sampleIndex + 1 >= TotalProfile THEN Restart
                       ELSE sampleIndex + 1
     /\ UNCHANGED start

Next == \E overrun \in SUBSET {"RecorderBufferOverrun"} : NextSample(overrun)

(* The sensor thread asks for one sample after the other.                  *)
Spec == Init /\ [][Next]_vars /\ WF_vars(Next)

-----------------------------------------------------------------------------
(* Properties                                                              *)

(* The engine warns only where it is meant to be hot: on the ground and in *)
(* the landing no seed gives an EngineWarning, however often the profile   *)
(* was flown and whatever heat the spikes left; the end of the climb gives *)
(* one with every seed.  LowOilPressure, for a cold engine at speed during *)
(* startup, never appears: the targets heat the engine before they speed   *)
(* it up.                                                                  *)
WarningsWhereHot ==
  /\ "LowOilPressure" \notin status.may
  /\ "EngineWarning" \in status.may => lastPhase \in {"Climb", "Cruise", "Descent"}
  /\ lastPhase = "Climb" /\ sampleIndex = CruiseStart => "EngineWarning" \in status.has

(* Every anomaly comes back lap after lap, also one that starts before the *)
(* sample the profile returns to.                                          *)
AnomaliesRecur ==
  \A bit \in {"EngineWarning", "AltitudeDeviation", "SensorGlitch"} :
    []<>(lastPhase # "Climb" /\ bit \in status.has)

=============================================================================
