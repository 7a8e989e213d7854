----------------------- MODULE SensorSimulatorProofs -----------------------
(***************************************************************************)
(* The simulator (SensorSimulator) warns of its engine only where it is    *)
(* meant to be hot, whatever starts of the anomalies the seed draws and    *)
(* however many laps it flies.                                             *)
(*                                                                         *)
(* The warnings of a sample follow from the temperature and the speed that *)
(* the samples before it left, so the invariant bounds both along the      *)
(* profile: from above by a line that falls through the descent faster     *)
(* than the heat of the spikes could last, and from below by how far the   *)
(* temperature can lag behind its target while the aircraft climbs.        *)
(***************************************************************************)
EXTENDS SensorSimulator, TLAPS

-----------------------------------------------------------------------------
(* The inductive invariant                                                 *)

Phases == {"Startup", "Takeoff", "Climb", "Cruise", "Descent", "Landing"}

Types ==
  /\ sampleIndex \in Samples
  /\ temperature[1] \in Int /\ temperature[1] >= 2000
  /\ temperature[2] \in Int
  /\ start \in [spike : SpikeStarts, drop : DropStarts, glitch : GlitchStarts]

(* The most the temperature is when a sample is asked for.                 *)
Hottest(s) ==
  IF s < Startup + Takeoff THEN 65200
  ELSE IF s < PhaseStart["Descent"] THEN 96000
  ELSE IF s < PhaseStart["Landing"] THEN 70000 + 400 * (PhaseStart["Landing"] - s)
  ELSE 70000

NotTooHot == temperature[2] <= Hottest(sampleIndex)

(* During startup the engine is warm before it is fast.                    *)
WarmedUp ==
  /\ sampleIndex \in 9 .. 14 => temperature[1] >= 3000 + 1020 * (sampleIndex - 9)
  /\ sampleIndex \in 14 .. 25 => temperature[1] >= 8000

SlowAtFirst == sampleIndex <= 13 => rpm[2] \in Int /\ rpm[2] <= 85000

(* How far the temperature may be behind the target of the climb when its  *)
(* sample s is asked for. It closes in on the target faster than the       *)
(* target moves, and the end of the climb finds it within 15 degrees.      *)
Lag(s) == 1490 + 11 * (CruiseStart - s) * (CruiseStart - s)

FollowsTheTarget ==
  sampleIndex \in Startup + Takeoff + 1 .. CruiseStart - 1
    => temperature[1] >= TargetTemperature[sampleIndex - 1][1] - Lag(sampleIndex)

IInv ==
  /\ Types /\ NotTooHot /\ WarmedUp /\ SlowAtFirst /\ FollowsTheTarget
  /\ WarningsWhereHot

-----------------------------------------------------------------------------
(* Arithmetic                                                              *)

(* The extremes of two numbers.                                            *)
LEMMA ExtremesOfTwo ==
  ASSUME NEW a \in Int, NEW b \in Int
  PROVE  /\ Max({a, b}) = IF a >= b THEN a ELSE b
         /\ Min({a, b}) = IF a <= b THEN a ELSE b
<1>1. Max({a, b}) = IF a >= b THEN a ELSE b
  <2>1. CASE a >= b
    <3>1. \A x \in {a, b} : a >= x
      BY <2>1
    <3>2. \A x \in {a, b} : (\A y \in {a, b} : x >= y) => x = a
      BY <2>1
    <3> QED BY <2>1, <3>1, <3>2 DEF Max
  <2>2. CASE ~(a >= b)
    <3>1. \A x \in {a, b} : b >= x
      BY <2>2
    <3>2. \A x \in {a, b} : (\A y \in {a, b} : x >= y) => x = b
      BY <2>2
    <3> QED BY <2>2, <3>1, <3>2 DEF Max
  <2> QED BY <2>1, <2>2
<1>2. Min({a, b}) = IF a <= b THEN a ELSE b
  <2>1. CASE a <= b
    <3>1. \A x \in {a, b} : a <= x
      BY <2>1
    <3>2. \A x \in {a, b} : (\A y \in {a, b} : x <= y) => x = a
      BY <2>1
    <3> QED BY <2>1, <3>1, <3>2 DEF Min
  <2>2. CASE ~(a <= b)
    <3>1. \A x \in {a, b} : b <= x
      BY <2>2
    <3>2. \A x \in {a, b} : (\A y \in {a, b} : x <= y) => x = b
      BY <2>2
    <3> QED BY <2>2, <3>1, <3>2 DEF Min
  <2> QED BY <2>1, <2>2
<1> QED BY <1>1, <1>2

(* A quotient rounded down, and one rounded up, by 10 and by 100.          *)
LEMMA Rounding ==
  ASSUME NEW n \in Int
  PROVE  /\ n \div 100 \in Int /\ 100 * (n \div 100) <= n /\ n <= 100 * (n \div 100) + 99
         /\ RoundUp(n, 100) \in Int /\ n <= 100 * RoundUp(n, 100)
         /\ 100 * RoundUp(n, 100) <= n + 99
         /\ n \div 10 \in Int /\ 10 * (n \div 10) <= n /\ n <= 10 * (n \div 10) + 9
         /\ RoundUp(n, 10) \in Int /\ n <= 10 * RoundUp(n, 10)
         /\ 10 * RoundUp(n, 10) <= n + 9
BY DEF RoundUp

(* The progress of step i of n, smoothed, is Cubic(n, i) of Cube(n).       *)
Cube(n) == n * n * n
Cubic(n, i) == i * i * (3 * n - 2 * i)

(* The smoothed progress stays between its values at both ends.            *)
LEMMA CubicBounds ==
  ASSUME NEW n \in Nat \ {0}, NEW i \in 0 .. n
  PROVE  /\ Cubic(n, i) \in Nat
         /\ Cube(n) \in Nat /\ Cube(n) > 0
         /\ Cubic(n, i) <= Cube(n)
<1> DEFINE j == n - i
<1>1. j \in Nat /\ i \in Nat /\ n = i + j
  OBVIOUS
<1>2. 3 * n - 2 * i = i + 3 * j
  BY <1>1
<1> HIDE DEF j
<1>3. i * i \in Nat /\ i * i * (i + 3 * j) \in Nat
  BY <1>1
<1>4. (i + j) * (i + j) * (i + j) = i * i * (i + 3 * j) + j * j * (3 * i + j)
  BY <1>1
<1>5. j * j * (3 * i + j) \in Nat
  BY <1>1
<1>6. n * n \in Nat /\ n * n > 0 /\ n * n * n \in Nat /\ n * n * n > 0
  OBVIOUS
<1> QED BY <1>1, <1>2, <1>3, <1>4, <1>5, <1>6 DEF Cubic, Cube

(* A part of a whole in thousandths, rounded down and up.                  *)
Share == 0 .. 1000
Down(a, d) == (1000 * a) \div d
Up(a, d) == RoundUp(1000 * a, d)

(* What the two roundings of a part guarantee.                             *)
LEMMA PartsOfWhole ==
  ASSUME NEW d \in Nat, NEW a \in Nat, d > 0
  PROVE  /\ Down(a, d) \in Int /\ d * Down(a, d) <= 1000 * a /\ 1000 * a < d * Down(a, d) + d
         /\ Up(a, d) \in Int /\ d * Up(a, d) >= 1000 * a /\ 1000 * a > d * Up(a, d) - d
<1>1. \A x \in Int : x \div d \in Int /\ d * (x \div d) <= x /\ x < d * (x \div d) + d
  OBVIOUS
<1> DEFINE low == (1000 * a) \div d
           high == RoundUp(1000 * a, d)
<1>2. low \in Int /\ d * low <= 1000 * a /\ 1000 * a < d * low + d
  BY <1>1
<1>3. high \in Int /\ d * high >= 1000 * a /\ 1000 * a > d * high - d
  <2> DEFINE q == (-(1000 * a)) \div d
  <2>1. q \in Int /\ d * q <= -(1000 * a) /\ -(1000 * a) < d * q + d
    BY <1>1
  <2>2. high = -q
    BY Zenon DEF RoundUp
  <2> HIDE DEF q, high
  <2>3. d * (-q) = -(d * q)
    BY ONLY <2>1, d \in Nat
  <2> QED BY ONLY <2>1, <2>2, <2>3, d \in Nat, a \in Nat
<1>4. Down(a, d) = low /\ Up(a, d) = high
  BY Zenon DEF Down, Up, low, high
<1> HIDE DEF low, high
<1> QED BY ONLY <1>2, <1>3, <1>4

(* A part is compared with a number of thousandths.                        *)
LEMMA PartsAgainst ==
  ASSUME NEW d \in Nat, NEW a \in Nat, NEW q \in Int, d > 0
  PROVE  /\ d * q <= 1000 * a => q <= Down(a, d)
         /\ 1000 * a <= d * q => Up(a, d) <= q
<1>1. PICK low \in Int : low = Down(a, d) /\ 1000 * a < d * low + d
  <2>1. Down(a, d) \in Int /\ 1000 * a < d * Down(a, d) + d
    BY PartsOfWhole
  <2> QED BY ONLY <2>1, Zenon
<1>2. PICK high \in Int : high = Up(a, d) /\ 1000 * a > d * high - d
  <2>1. Up(a, d) \in Int /\ 1000 * a > d * Up(a, d) - d
    BY PartsOfWhole
  <2> QED BY ONLY <2>1
<1>3. ASSUME d * q <= 1000 * a, low < q PROVE FALSE
  <2>1. d * (q - low - 1) \in Nat
    BY <1>3
  <2> QED BY <1>1, <1>3, <2>1
<1>4. ASSUME 1000 * a <= d * q, q < high PROVE FALSE
  <2>1. d * (high - q - 1) \in Nat
    BY <1>4
  <2> QED BY <1>2, <1>4, <2>1
<1> QED BY <1>1, <1>2, <1>3, <1>4

(* A part of a whole is between none and 1000 thousandths of it.           *)
LEMMA Thousandths ==
  ASSUME NEW d \in Nat, NEW a \in Nat, d > 0, a <= d
  PROVE  /\ Down(a, d) \in Share /\ Up(a, d) \in Share
         /\ Down(a, d) <= Up(a, d)
<1>1. PICK low \in Int : low = Down(a, d) /\ d * low <= 1000 * a
  BY PartsOfWhole
<1>2. PICK high \in Int : high = Up(a, d) /\ d * high >= 1000 * a
  BY PartsOfWhole
<1>3. 0 <= low
  BY <1>1, PartsAgainst
<1>4. high <= 1000
  BY <1>2, PartsAgainst
<1>5. low <= high
  <2> SUFFICES ASSUME low - high \in Nat \ {0} PROVE FALSE
    OBVIOUS
  <2>1. d * (low - high) > 0
    OBVIOUS
  <2> QED BY <1>1, <1>2, <2>1
<1>6. low \in Share /\ high \in Share
  BY ONLY <1>3, <1>4, <1>5, low \in Int, high \in Int DEF Share
<1>7. low = Down(a, d) /\ high = Up(a, d)
  BY ONLY <1>1, <1>2, Zenon
<1> QED BY ONLY <1>5, <1>6, <1>7

-----------------------------------------------------------------------------
(* The targets                                                             *)

(* The profile's samples by their phases.                                  *)
LEMMA PhaseOfSample ==
  ASSUME NEW s \in Samples
  PROVE  /\ CurrentPhase(s) \in Phases
         /\ CurrentPhase(s) = "Startup" <=> s \in 0 .. 24
         /\ CurrentPhase(s) = "Takeoff" <=> s \in 25 .. 44
         /\ CurrentPhase(s) = "Climb"   <=> s \in 45 .. 114
         /\ CurrentPhase(s) = "Cruise"  <=> s \in 115 .. 234
         /\ CurrentPhase(s) = "Descent" <=> s \in 235 .. 299
         /\ CurrentPhase(s) = "Landing" <=> s \in 300 .. 334
<1>1. s \in 0 .. 334
  BY DEF Samples, TotalProfile, Startup, Takeoff, Climb, Cruise, Descent, Landing
<1>2. CASE s \in 0 .. 24
  <2>1. CurrentPhase(s) = "Startup"
    BY ONLY <1>2 DEF CurrentPhase, CruiseStart, Startup, Takeoff, Climb, Cruise, Descent
  <2> QED BY ONLY <1>1, <1>2, <2>1 DEF Phases
<1>3. CASE s \in 25 .. 44
  <2>1. CurrentPhase(s) = "Takeoff"
    BY ONLY <1>3 DEF CurrentPhase, CruiseStart, Startup, Takeoff, Climb, Cruise, Descent
  <2> QED BY ONLY <1>1, <1>3, <2>1 DEF Phases
<1>4. CASE s \in 45 .. 114
  <2>1. CurrentPhase(s) = "Climb"
    BY ONLY <1>4 DEF CurrentPhase, CruiseStart, Startup, Takeoff, Climb, Cruise, Descent
  <2> QED BY ONLY <1>1, <1>4, <2>1 DEF Phases
<1>5. CASE s \in 115 .. 234
  <2>1. CurrentPhase(s) = "Cruise"
    BY ONLY <1>5 DEF CurrentPhase, CruiseStart, Startup, Takeoff, Climb, Cruise, Descent
  <2> QED BY ONLY <1>1, <1>5, <2>1 DEF Phases
<1>6. CASE s \in 235 .. 299
  <2>1. CurrentPhase(s) = "Descent"
    BY ONLY <1>6 DEF CurrentPhase, CruiseStart, Startup, Takeoff, Climb, Cruise, Descent
  <2> QED BY ONLY <1>1, <1>6, <2>1 DEF Phases
<1>7. CASE s \in 300 .. 334
  <2>1. CurrentPhase(s) = "Landing"
    BY ONLY <1>7 DEF CurrentPhase, CruiseStart, Startup, Takeoff, Climb, Cruise, Descent
  <2> QED BY ONLY <1>1, <1>7, <2>1 DEF Phases
<1> QED BY ONLY <1>1, <1>2, <1>3, <1>4, <1>5, <1>6, <1>7

(* The progress of a sample, without the limits that the profile keeps.    *)
LEMMA ProgressOfSample ==
  ASSUME NEW s \in Samples, NEW n \in Nat \ {0}, NEW i \in 0 .. n,
         n = Duration[CurrentPhase(s)] - 1, i = s - PhaseStart[CurrentPhase(s)]
  PROVE  /\ Progress[s][1] = Down(Cubic(n, i), Cube(n))
         /\ Progress[s][2] = Up(Cubic(n, i), Cube(n))
<1>1. n \in Int /\ i \in Int /\ 1 \in Int /\ n >= 1 /\ i <= n
  BY ONLY n \in Nat \ {0}, i \in 0 .. n
<1>2. Max({n, 1}) = n
  BY ONLY <1>1, ExtremesOfTwo
<1>3. Min({n, i}) = i
  <2>1. Min({i, n}) = i
    BY ONLY <1>1, ExtremesOfTwo
  <2>2. {n, i} = {i, n}
    OBVIOUS
  <2> QED BY ONLY <2>1, <2>2
<1> DEFINE k == Max({Duration[CurrentPhase(s)] - 1, 1})
           j == Min({k, s - PhaseStart[CurrentPhase(s)]})
<1>4. k = n
  BY <1>2, Zenon
<1>5. j = i
  BY <1>3, <1>4, Zenon
<1>6. Progress[s] = <<Down(Cubic(k, j), Cube(k)), Up(Cubic(k, j), Cube(k))>>
  BY Zenon DEF Progress, Down, Up, Cubic, Cube
<1> HIDE DEF k, j
<1> QED BY ONLY <1>4, <1>5, <1>6

(* The step of its phase that a sample is.                                 *)
LEMMA StepOfSample ==
  ASSUME NEW s \in Samples
  PROVE  /\ Duration[CurrentPhase(s)] - 1 \in Nat \ {0}
         /\ s - PhaseStart[CurrentPhase(s)] \in 0 .. Duration[CurrentPhase(s)] - 1
BY PhaseOfSample DEF Phases, Duration, PhaseStart, CruiseStart,
   Startup, Takeoff, Climb, Cruise, Descent, Landing

(* The progress of a sample is a share of its phase.                       *)
LEMMA ProgressBounds ==
  ASSUME NEW s \in Samples
  PROVE  /\ Progress[s][1] \in Share /\ Progress[s][2] \in Share
         /\ Progress[s][1] <= Progress[s][2]
<1>1. PICK n \in Nat \ {0} : n = Duration[CurrentPhase(s)] - 1
  BY StepOfSample, Zenon
<1>2. PICK i \in 0 .. n : i = s - PhaseStart[CurrentPhase(s)]
  BY <1>1, StepOfSample, Zenon
<1>3. /\ Progress[s][1] = Down(Cubic(n, i), Cube(n))
      /\ Progress[s][2] = Up(Cubic(n, i), Cube(n))
  BY <1>1, <1>2, ProgressOfSample
<1>4. /\ Cubic(n, i) \in Nat
      /\ Cube(n) \in Nat /\ Cube(n) > 0
      /\ Cubic(n, i) <= Cube(n)
  BY CubicBounds, Zenon
<1>5. /\ Down(Cubic(n, i), Cube(n)) \in Share /\ Up(Cubic(n, i), Cube(n)) \in Share
      /\ Down(Cubic(n, i), Cube(n)) <= Up(Cubic(n, i), Cube(n))
  <2>1. PICK a \in Nat, d \in Nat : a = Cubic(n, i) /\ d = Cube(n) /\ d > 0 /\ a <= d
    BY ONLY <1>4
  <2>2. d > 0 /\ a <= d
    BY ONLY <2>1, Zenon
  <2>3. Down(a, d) \in Share /\ Up(a, d) \in Share /\ Down(a, d) <= Up(a, d)
    BY ONLY <2>2, Thousandths
  <2> QED BY ONLY <2>1, <2>3
<1> QED BY ONLY <1>3, <1>5

(* The way from one number to another, rounded down and up.                *)
Below(way, part) == (way * part) \div 10
Above(way, part) == RoundUp(way * part, 10)

(* What the two roundings of a part of the way guarantee.                  *)
LEMMA WayRounded ==
  ASSUME NEW way \in Int, NEW part \in Int
  PROVE  /\ Below(way, part) \in Int
         /\ 10 * Below(way, part) <= way * part /\ way * part <= 10 * Below(way, part) + 9
         /\ Above(way, part) \in Int /\ 10 * Above(way, part) <= way * part + 9
<1> DEFINE m == way * part
<1>1. m \in Int
  OBVIOUS
<1> HIDE DEF m
<1>2. m \div 10 \in Int /\ 10 * (m \div 10) <= m /\ m <= 10 * (m \div 10) + 9
  BY <1>1, Rounding
<1>3. RoundUp(m, 10) \in Int /\ 10 * RoundUp(m, 10) <= m + 9
  BY <1>1, Rounding
<1> QED BY ONLY <1>2, <1>3 DEF Below, Above, m

(* A target lies between the two numbers it leads from and to.             *)
LEMMA AlongBounds ==
  ASSUME NEW s \in Samples, NEW from \in Int, NEW to \in Int
  PROVE  /\ Along(s, from, to)[1] \in Int /\ Along(s, from, to)[2] \in Int
         /\ from <= to => Along(s, from, to)[2] <= 100 * to
         /\ to <= from => Along(s, from, to)[2] <= 100 * from
         /\ from <= to =>
              /\ Along(s, from, to)[1] = 100 * from + Below(to - from, Progress[s][1])
              /\ Along(s, from, to)[2] = 100 * from + Above(to - from, Progress[s][2])
<1>1. PICK low \in Share, high \in Share :
        low = Progress[s][1] /\ high = Progress[s][2] /\ low <= high
  <2>1. /\ Progress[s][1] \in Share /\ Progress[s][2] \in Share
        /\ Progress[s][1] <= Progress[s][2]
    BY ProgressBounds
  <2> QED BY ONLY <2>1, Zenon
<1>0. low \in 0 .. 1000 /\ high \in 0 .. 1000
  BY DEF Share
<1> DEFINE x == (to - from) * low
           y == (to - from) * high
<1>2. x \in Int /\ y \in Int
  BY <1>0
<1>3. ASSUME from <= to PROVE x <= y /\ y <= 1000 * (to - from)
  <2>1. low <= high
    BY ONLY <1>1, Zenon
  <2>2. to - from \in Nat /\ high - low \in Nat /\ 1000 - high \in Nat
    BY <1>0, <1>3, <2>1
  <2>3. (to - from) * (high - low) \in Nat /\ (to - from) * (1000 - high) \in Nat
    BY <2>2
  <2> QED BY <1>0, <2>3
<1>4. ASSUME to <= from PROVE x <= 0 /\ y <= 0
  <2>1. (from - to) * low >= 0 /\ (from - to) * high >= 0
    BY <1>0, <1>4
  <2> QED BY <1>0, <2>1
<1>5. Along(s, from, to) = <<100 * from + Min({x, y}) \div 10,
                             100 * from + RoundUp(Max({x, y}), 10)>>
  BY <1>1, Zenon DEF Along
<1> HIDE DEF x, y
<1>6. PICK k \in Int, m \in Int :
        k = Min({x, y}) \div 10 /\ m = RoundUp(Max({x, y}), 10)
  <2>1. Min({x, y}) \in Int /\ Max({x, y}) \in Int
    BY <1>2, ExtremesOfTwo
  <2>2. Min({x, y}) \div 10 \in Int /\ RoundUp(Max({x, y}), 10) \in Int
    BY ONLY <2>1, Rounding
  <2> QED BY <2>2, Zenon
<1>7. Along(s, from, to)[1] = 100 * from + k /\ Along(s, from, to)[2] = 100 * from + m
  BY ONLY <1>5, <1>6
<1>8. CASE from <= to
  <2>1. Min({x, y}) = x /\ Max({x, y}) = y
    BY <1>2, <1>3, <1>8, ExtremesOfTwo
  <2>2. k = x \div 10 /\ m = RoundUp(y, 10)
    BY ONLY <1>6, <2>1, Zenon
  <2>3. 10 * m <= y + 9
    BY ONLY <1>2, <2>2, Rounding
  <2>4. 10 * m <= 1000 * (to - from) + 9
    BY <1>2, <1>3, <1>8, <2>3
  <2>5. m <= 100 * (to - from)
    BY ONLY <2>4, m \in Int, to \in Int, from \in Int
  <2>6. 100 * from + m <= 100 * to
    BY <2>5
  <2>7. /\ k = Below(to - from, Progress[s][1])
        /\ m = Above(to - from, Progress[s][2])
    BY ONLY <1>1, <2>2, Zenon DEF x, y, Below, Above
  <2>8. to <= from => 100 * from + m <= 100 * from
    BY <1>8, <2>6
  <2> QED BY ONLY <1>7, <1>8, <2>6, <2>7, <2>8, k \in Int, m \in Int, from \in Int
<1>9. CASE ~(from <= to)
  <2>1. Max({x, y}) <= 0 /\ Max({x, y}) \in Int
    BY <1>2, <1>4, <1>9, ExtremesOfTwo
  <2>2. 10 * m <= 9
    BY ONLY <1>6, <2>1, Rounding
  <2> QED BY ONLY <1>7, <1>9, <2>2, k \in Int, m \in Int, from \in Int, to \in Int
<1> QED BY <1>8, <1>9

(* The bounds alone.                                                       *)
LEMMA AlongWithin ==
  ASSUME NEW s \in Samples, NEW from \in Int, NEW to \in Int
  PROVE  /\ Along(s, from, to)[1] \in Int /\ Along(s, from, to)[2] \in Int
         /\ from <= to => Along(s, from, to)[2] <= 100 * to
         /\ to <= from => Along(s, from, to)[2] <= 100 * from
BY AlongBounds

(* The ends of the range of a target that rises.                           *)
LEMMA AlongRising ==
  ASSUME NEW s \in Samples, NEW from \in Int, NEW to \in Int, from <= to
  PROVE  /\ Along(s, from, to)[1] = 100 * from + Below(to - from, Progress[s][1])
         /\ Along(s, from, to)[2] = 100 * from + Above(to - from, Progress[s][2])
BY AlongBounds

(* The rising targets that the bounds from below need.                     *)
LEMMA RisingTargets ==
  ASSUME NEW s \in Samples
  PROVE  /\ Along(s, 650, 1000)[2] = 65000 + Above(350, Progress[s][2])
         /\ Along(s, 35, 245)[1] = 3500 + Below(210, Progress[s][1])
         /\ Along(s, 640, 690)[1] = 64000 + Below(50, Progress[s][1])
<1>1. Along(s, 650, 1000)[2] = 100 * 650 + Above(1000 - 650, Progress[s][2])
  BY AlongRising
<1>2. Along(s, 35, 245)[1] = 100 * 35 + Below(245 - 35, Progress[s][1])
  BY AlongRising
<1>3. Along(s, 640, 690)[1] = 100 * 640 + Below(690 - 640, Progress[s][1])
  BY AlongRising
<1> QED BY ONLY <1>1, <1>2, <1>3

(* What the temperature is led to, phase by phase.                         *)
LEMMA TargetsByPhase ==
  ASSUME NEW s \in Samples
  PROVE  /\ s \in 0 .. 24    => /\ TargetTemperature[s] = Along(s, 35, 245)
                                /\ TargetRpm[s] = Along(s, 650, 1000)
         /\ s \in 25 .. 44   => TargetTemperature[s] = Along(s, 250, 645)
         /\ s \in 45 .. 114  => TargetTemperature[s] = Along(s, 640, 690)
         /\ s \in 115 .. 234 => TargetTemperature[s] = <<65400, 67000>>
         /\ s \in 235 .. 299 => TargetTemperature[s] = Along(s, 645, 555)
         /\ s \in 300 .. 334 => TargetTemperature[s] = Along(s, 520, 180)
<1>1. /\ CurrentPhase(s) = "Startup" => /\ TargetTemperature[s] = Along(s, 35, 245)
                                        /\ TargetRpm[s] = Along(s, 650, 1000)
      /\ CurrentPhase(s) = "Takeoff" => TargetTemperature[s] = Along(s, 250, 645)
      /\ CurrentPhase(s) = "Climb" => TargetTemperature[s] = Along(s, 640, 690)
      /\ CurrentPhase(s) = "Cruise" => TargetTemperature[s] = <<65400, 67000>>
      /\ CurrentPhase(s) = "Descent" => TargetTemperature[s] = Along(s, 645, 555)
      /\ CurrentPhase(s) = "Landing" => TargetTemperature[s] = Along(s, 520, 180)
  BY DEF TargetTemperature, TargetRpm
<1> QED BY <1>1, PhaseOfSample

(* The targets are bounded phase by phase.                                 *)
LEMMA TargetBounds ==
  ASSUME NEW s \in Samples
  PROVE  /\ TargetTemperature[s][1] \in Int /\ TargetTemperature[s][2] \in Int
         /\ TargetTemperature[s][2] <= 69000
         /\ s \in 0 .. 44 \union 235 .. 299 => TargetTemperature[s][2] <= 64500
         /\ s \in 300 .. 334 => TargetTemperature[s][2] <= 52000
<1> DEFINE Within(r, most) == r[1] \in Int /\ r[2] \in Int /\ r[2] <= most
<1>1. s \in Int /\ s \in 0 .. 334
  BY DEF Samples, TotalProfile, Startup, Takeoff, Climb, Cruise, Descent, Landing
<1>2. /\ Within(Along(s, 35, 245), 64500)
      /\ Within(Along(s, 250, 645), 64500)
      /\ Within(Along(s, 640, 690), 69000)
      /\ Within(Along(s, 645, 555), 64500)
      /\ Within(Along(s, 520, 180), 52000)
  BY AlongWithin
<1>3. Within(<<65400, 67000>>, 67000)
  OBVIOUS
<1>4. CASE s \in 0 .. 24
  BY <1>1, <1>2, <1>4, TargetsByPhase
<1>5. CASE s \in 25 .. 44
  BY <1>1, <1>2, <1>5, TargetsByPhase
<1>6. CASE s \in 45 .. 114
  BY <1>1, <1>2, <1>6, TargetsByPhase
<1>7. CASE s \in 115 .. 234
  BY <1>1, <1>3, <1>7, TargetsByPhase
<1>8. CASE s \in 235 .. 299
  BY <1>1, <1>2, <1>8, TargetsByPhase
<1>9. CASE s \in 300 .. 334
  BY <1>1, <1>2, <1>9, TargetsByPhase
<1> QED BY <1>1, <1>4, <1>5, <1>6, <1>7, <1>8, <1>9

(* The startup's targets: the speed's stays low while the temperature's    *)
(* rises.                                                                  *)
LEMMA StartupProgress ==
  ASSUME NEW s \in 0 .. 24
  PROVE  /\ s <= 12 => Progress[s][2] <= 500
         /\ s \in 8 .. 13 => Progress[s][1] >= 258 + 58 * (s - 8)
         /\ s >= 13 => Progress[s][1] >= 548
<1> DEFINE a == Cubic(24, s)
<1>1. s \in Samples /\ 24 \in Nat \ {0} /\ s \in 0 .. 24
  BY DEF Samples, TotalProfile, Startup, Takeoff, Climb, Cruise, Descent, Landing
<1>2. 24 = Duration[CurrentPhase(s)] - 1 /\ s = s - PhaseStart[CurrentPhase(s)]
  BY <1>1, PhaseOfSample DEF Duration, PhaseStart, Startup
<1>3. Cube(24) = 13824
  BY DEF Cube
<1>4. Progress[s][1] = Down(a, 13824) /\ Progress[s][2] = Up(a, 13824)
  BY <1>1, <1>2, <1>3, ProgressOfSample
<1>5. a \in Nat
  BY <1>1, CubicBounds
<1>6. a = s * s * (72 - 2 * s)
  BY DEF Cubic
<1>7. s <= 12 => 1000 * a <= 13824 * 500
  BY <1>6
<1>8. s \in 8 .. 13 => 13824 * (258 + 58 * (s - 8)) <= 1000 * a
  BY <1>6
<1>9. s >= 13 => 13824 * 548 <= 1000 * a
  BY <1>6
<1> HIDE DEF a
<1> QED BY <1>4, <1>5, <1>7, <1>8, <1>9, PartsAgainst

(* The temperature's target of the startup is above what a warning for a   *)
(* cold engine asks for long before the speed's target is near it.         *)
LEMMA StartupTargets ==
  ASSUME NEW s \in Samples
  PROVE  /\ s \in 0 .. 12  => TargetRpm[s][2] \in Int /\ TargetRpm[s][2] <= 82500
         /\ s \in 8 .. 13  => TargetTemperature[s][1] >= 8900 + 1200 * (s - 8)
         /\ s \in 13 .. 24 => TargetTemperature[s][1] >= 15000
<1>1. /\ Along(s, 650, 1000)[2] = 65000 + Above(350, Progress[s][2])
      /\ Along(s, 35, 245)[1] = 3500 + Below(210, Progress[s][1])
  BY RisingTargets
<1>2. PICK low \in Int, high \in Int : low = Progress[s][1] /\ high = Progress[s][2]
  <2>1. Progress[s][1] \in Share /\ Progress[s][2] \in Share
    BY ProgressBounds
  <2>2. \A x \in Share : x \in Int
    BY DEF Share
  <2> QED BY ONLY <2>1, <2>2, Zenon
<1>3. Above(350, high) \in Int /\ 10 * Above(350, high) <= 350 * high + 9
  BY ONLY WayRounded
<1>4. Below(210, low) \in Int /\ 210 * low <= 10 * Below(210, low) + 9
  BY ONLY WayRounded
<1>5. s \in 0 .. 24 => TargetRpm[s][2] = 65000 + Above(350, high)
                       /\ TargetTemperature[s][1] = 3500 + Below(210, low)
  BY ONLY <1>1, <1>2, TargetsByPhase
<1>6. /\ s \in 0 .. 12 => high <= 500
      /\ s \in 8 .. 13 => low >= 258 + 58 * (s - 8)
      /\ s \in 13 .. 24 => low >= 548
  BY ONLY <1>2, StartupProgress
<1>7. s \in Int
  BY DEF Samples
<1> QED BY ONLY <1>3, <1>4, <1>5, <1>6, <1>7

(* The progress of a sample of the climb, between the roundings.           *)
LEMMA ClimbProgress ==
  ASSUME NEW s \in Samples, NEW i \in 0 .. 69, i = s - 45
  PROVE  /\ Progress[s][1] \in Int
         /\ 328509 * Progress[s][1] <= 1000 * (i * i * (207 - 2 * i))
         /\ 1000 * (i * i * (207 - 2 * i)) < 328509 * Progress[s][1] + 328509
<1> DEFINE a == Cubic(69, i)
<1>1. s \in 45 .. 114
  BY DEF Samples
<1>2. 69 = Duration[CurrentPhase(s)] - 1 /\ i = s - PhaseStart[CurrentPhase(s)]
  BY <1>1, PhaseOfSample DEF Duration, PhaseStart, Startup, Takeoff, Climb
<1>3. Cube(69) = 328509
  BY DEF Cube
<1>4. Progress[s][1] = Down(a, 328509)
  BY <1>2, <1>3, ProgressOfSample
<1>5. a \in Nat
  <2>1. 69 \in Nat \ {0} /\ i \in 0 .. 69
    OBVIOUS
  <2> QED BY ONLY <2>1, CubicBounds
<1>6. a = i * i * (207 - 2 * i)
  BY DEF Cubic
<1> HIDE DEF a
<1>7. /\ Down(a, 328509) \in Int /\ 328509 * Down(a, 328509) <= 1000 * a
      /\ 1000 * a < 328509 * Down(a, 328509) + 328509
  BY ONLY <1>5, PartsOfWhole
<1> QED BY ONLY <1>4, <1>6, <1>7

(* The target of a sample of the climb.                                    *)
LEMMA ClimbTarget ==
  ASSUME NEW s \in Samples
  PROVE  s \in 45 .. 114 => TargetTemperature[s][1] = 64000 + 5 * Progress[s][1]
<1>1. PICK low \in Int : low = Progress[s][1]
  <2>1. Progress[s][1] \in Share
    BY ProgressBounds
  <2>2. \A x \in Share : x \in Int
    BY DEF Share
  <2> QED BY ONLY <2>1, <2>2, Zenon
<1>2. Along(s, 640, 690)[1] = 64000 + Below(50, low)
  BY <1>1, RisingTargets
<1>3. /\ Below(50, low) \in Int
      /\ 10 * Below(50, low) <= 50 * low /\ 50 * low <= 10 * Below(50, low) + 9
  BY ONLY WayRounded
<1>4. Below(50, low) = 5 * low
  BY ONLY <1>3, low \in Int
<1>5. s \in 45 .. 114 => TargetTemperature[s] = Along(s, 640, 690)
  BY TargetsByPhase
<1> QED BY ONLY <1>1, <1>2, <1>4, <1>5

(* The climb leads the temperature up slowly, to 690 degrees.              *)
LEMMA ClimbTargets ==
  ASSUME NEW s \in 45 .. 114
  PROVE  /\ s = 45 => TargetTemperature[s][1] = 64000
         /\ s = 114 => TargetTemperature[s][1] = 69000
         /\ s > 45 => TargetTemperature[s][1] <= TargetTemperature[s - 1][1] + 110
<1>1. s \in Samples /\ s - 45 \in 0 .. 69
  BY DEF Samples, TotalProfile, Startup, Takeoff, Climb, Cruise, Descent, Landing
<1> DEFINE p == Progress[s][1]
           q == Progress[s - 1][1]
           i == s - 45
           j == i - 1
<1>2. /\ p \in Int
      /\ 328509 * p <= 1000 * (i * i * (207 - 2 * i))
      /\ 1000 * (i * i * (207 - 2 * i)) < 328509 * p + 328509
  BY ONLY <1>1, ClimbProgress
<1>3. TargetTemperature[s][1] = 64000 + 5 * p
  BY <1>1, ClimbTarget
<1>4. s > 45 =>
        /\ q \in Int
        /\ 1000 * (j * j * (207 - 2 * j)) < 328509 * q + 328509
        /\ TargetTemperature[s - 1][1] = 64000 + 5 * q
  <2> SUFFICES ASSUME s > 45
               PROVE  /\ q \in Int
                      /\ 1000 * (j * j * (207 - 2 * j)) < 328509 * q + 328509
                      /\ TargetTemperature[s - 1][1] = 64000 + 5 * q
    OBVIOUS
  <2>1. s - 1 \in Samples /\ s - 1 \in 45 .. 114 /\ j \in 0 .. 69 /\ j = (s - 1) - 45
    BY DEF Samples, TotalProfile, Startup, Takeoff, Climb, Cruise, Descent, Landing
  <2>2. /\ q \in Int
        /\ 1000 * (j * j * (207 - 2 * j)) < 328509 * q + 328509
    BY ONLY <2>1, ClimbProgress
  <2>3. TargetTemperature[s - 1][1] = 64000 + 5 * q
    BY ONLY <2>1, ClimbTarget
  <2> QED BY ONLY <2>2, <2>3
<1>5. i \in 0 .. 69
  BY <1>1
<1>6. i >= 1 => i * i * (207 - 2 * i) <= j * j * (207 - 2 * j) + 7141
  BY ONLY <1>5
<1> HIDE DEF p, q
<1>7. s = 45 => p = 0
  BY ONLY <1>2, s \in 45 .. 114
<1>8. s = 114 => p = 1000
  BY ONLY <1>2, s \in 45 .. 114
<1>9. s > 45 => p <= q + 22
  BY ONLY <1>2, <1>4, <1>5, <1>6, s \in 45 .. 114
<1> QED BY ONLY <1>2, <1>3, <1>4, <1>7, <1>8, <1>9, s \in 45 .. 114

-----------------------------------------------------------------------------
(* One sample                                                              *)

(* The lower end of a range that is led to a target, a part of the way.    *)
LEMMA ApproachLow ==
  ASSUME NEW r, NEW g, NEW percent \in 0 .. 100, r[1] \in Int, g[1] \in Int
  PROVE  LET a == Approach(r, g, percent)
         IN  /\ a[1] \in Int
             /\ 100 * r[1] + percent * (g[1] - r[1]) <= 100 * a[1] + 99
<1> DEFINE x == (g[1] - r[1]) * percent
           a == Approach(r, g, percent)
<1>1. x \in Int /\ x = percent * (g[1] - r[1])
  OBVIOUS
<1>2. a[1] = r[1] + x \div 100
  BY DEF Approach
<1> HIDE DEF x, a
<1>3. x \div 100 \in Int /\ x <= 100 * (x \div 100) + 99
  BY ONLY <1>1, Rounding
<1>4. /\ a[1] \in Int
      /\ 100 * r[1] + x <= 100 * a[1] + 99
  BY ONLY <1>1, <1>2, <1>3, r[1] \in Int
<1> QED BY ONLY <1>1, <1>4 DEF a

(* The upper end of a range that is led to a target, a part of the way.    *)
LEMMA ApproachHigh ==
  ASSUME NEW r, NEW g, NEW percent \in 0 .. 100, r[2] \in Int, g[2] \in Int
  PROVE  LET a == Approach(r, g, percent)
         IN  /\ a[2] \in Int
             /\ 100 * a[2] <= 100 * r[2] + percent * (g[2] - r[2]) + 99
<1> DEFINE y == (g[2] - r[2]) * percent
           a == Approach(r, g, percent)
<1>1. y \in Int /\ y = percent * (g[2] - r[2])
  OBVIOUS
<1>2. a[2] = r[2] + RoundUp(y, 100)
  BY DEF Approach
<1> HIDE DEF y, a
<1>3. RoundUp(y, 100) \in Int /\ 100 * RoundUp(y, 100) <= y + 99
  BY ONLY <1>1, Rounding
<1>4. /\ a[2] \in Int
      /\ 100 * a[2] <= 100 * r[2] + y + 99
  BY ONLY <1>1, <1>2, <1>3, r[2] \in Int
<1> QED BY ONLY <1>1, <1>4 DEF a

(* The temperature of the sample.                                          *)
Heat == Plus(AtLeast(Plus(Approach(temperature, TargetTemperature[sampleIndex], 16),
                          -80, 80), 2000), Spike, Spike)

(* The engine's speed in the sample.                                       *)
Speed == AtLeast(Plus(Approach(rpm, TargetRpm[sampleIndex], 20), -400, 400), 0)

(* The spike heats, and only from sample 110 to sample 158.                *)
LEMMA SpikeBounds ==
  ASSUME SimulatorAssumption, Types
  PROVE  /\ Spike \in 0 .. 2800
         /\ sampleIndex \notin 110 .. 158 =>
              Spike = 0 /\ "EngineWarning" \notin AnomalyBits
         /\ "LowOilPressure" \notin AnomalyBits
<1>1. start.spike \in 110 .. 150 /\ sampleIndex \in Int
  <2>1. start.spike \in SpikeStarts /\ SpikeStarts \subseteq 110 .. 150
    BY DEF Types, SimulatorAssumption
  <2>2. sampleIndex \in Int
    BY DEF Types, Samples
  <2> QED BY ONLY <2>1, <2>2
<1>2. Spike \in 0 .. 2800
  <2> DEFINE k == sampleIndex - start.spike
             far == IF k < 4 THEN 4 - k ELSE k - 4
  <2>1. Spike = IF Active(start.spike, 9) THEN 2800 - 420 * far ELSE 0
    BY DEF Spike
  <2>2. k \in Int /\ (Active(start.spike, 9) => k \in 0 .. 8)
    BY <1>1 DEF Active
  <2> HIDE DEF k
  <2>3. far \in Int /\ (Active(start.spike, 9) => far \in 0 .. 4)
    BY <2>2
  <2> HIDE DEF far
  <2> QED BY ONLY <2>1, <2>3
<1>3. sampleIndex \notin 110 .. 158 => ~Active(start.spike, 9)
  BY <1>1 DEF Active
<1>4. sampleIndex \notin 110 .. 158 => Spike = 0
  BY ONLY <1>3 DEF Spike
<1>5. /\ ~Active(start.spike, 9) => "EngineWarning" \notin AnomalyBits
      /\ "LowOilPressure" \notin AnomalyBits
  BY DEF AnomalyBits
<1> QED BY ONLY <1>2, <1>3, <1>4, <1>5

(* The temperature of the sample against the one before it and its target. *)
LEMMA HeatBounds ==
  ASSUME SimulatorAssumption, Types
  PROVE  LET low == TargetTemperature[sampleIndex][1]
             high == TargetTemperature[sampleIndex][2]
         IN  /\ Heat[1] \in Int /\ Heat[2] \in Int /\ Heat[1] >= 2000
             /\ 84 * temperature[1] + 16 * low <= 100 * Heat[1] + 8099
             /\ \/ 100 * (Heat[2] - Spike) <= 84 * temperature[2] + 16 * high + 8099
                \/ Heat[2] - Spike <= 2000
<1> DEFINE g == TargetTemperature[sampleIndex]
           a == Approach(temperature, g, 16)
           low == a[1] - 80
           high == a[2] + 80
<1>1. g[1] \in Int /\ g[2] \in Int /\ temperature[1] \in Int /\ temperature[2] \in Int
  BY TargetBounds DEF Types
<1>2. /\ a[1] \in Int /\ a[2] \in Int
      /\ 100 * temperature[1] + 16 * (g[1] - temperature[1]) <= 100 * a[1] + 99
      /\ 100 * a[2] <= 100 * temperature[2] + 16 * (g[2] - temperature[2]) + 99
  <2> HIDE DEF g
  <2>1. 16 \in 0 .. 100
    OBVIOUS
  <2>2. /\ a[1] \in Int
        /\ 100 * temperature[1] + 16 * (g[1] - temperature[1]) <= 100 * a[1] + 99
    BY ONLY <1>1, <2>1, ApproachLow
  <2>3. /\ a[2] \in Int
        /\ 100 * a[2] <= 100 * temperature[2] + 16 * (g[2] - temperature[2]) + 99
    BY ONLY <1>1, <2>1, ApproachHigh
  <2> QED BY ONLY <2>2, <2>3
<1>3. Spike \in Int /\ Spike >= 0
  <2>1. Spike \in 0 .. 2800
    BY SpikeBounds
  <2> QED BY ONLY <2>1
<1>4. Heat = <<Max({low, 2000}) + Spike, Max({high, 2000}) + Spike>>
  <2> HIDE DEF a
  <2>1. Plus(a, -80, 80) = <<a[1] - 80, a[2] + 80>>
    BY ONLY <1>2 DEF Plus
  <2>2. AtLeast(Plus(a, -80, 80), 2000) = <<Max({low, 2000}), Max({high, 2000})>>
    BY ONLY <2>1 DEF AtLeast
  <2>3. Plus(AtLeast(Plus(a, -80, 80), 2000), Spike, Spike)
          = <<Max({low, 2000}) + Spike, Max({high, 2000}) + Spike>>
    BY ONLY <2>2 DEF Plus
  <2> QED BY ONLY <2>3 DEF Heat, a
<1>5. low \in Int /\ high \in Int
  BY <1>2
<1>6. /\ Max({low, 2000}) = IF low >= 2000 THEN low ELSE 2000
      /\ Max({high, 2000}) = IF high >= 2000 THEN high ELSE 2000
  <2> HIDE DEF low, high
  <2> QED BY ONLY <1>5, ExtremesOfTwo
<1>7. /\ Heat[1] = (IF low >= 2000 THEN low ELSE 2000) + Spike
      /\ Heat[2] = (IF high >= 2000 THEN high ELSE 2000) + Spike
  BY ONLY <1>4, <1>6
<1> HIDE DEF g, a
<1>8. /\ Heat[1] \in Int /\ Heat[2] \in Int /\ Heat[1] >= 2000
      /\ 84 * temperature[1] + 16 * g[1] <= 100 * Heat[1] + 8099
      /\ \/ 100 * (Heat[2] - Spike) <= 84 * temperature[2] + 16 * g[2] + 8099
         \/ Heat[2] - Spike <= 2000
  BY ONLY <1>1, <1>2, <1>3, <1>7
<1> QED BY ONLY <1>8 DEF g

(* The engine stays below 850 rpm for the first 13 samples.                *)
LEMMA SpeedBounds ==
  ASSUME Types, SlowAtFirst
  PROVE  sampleIndex <= 12 => Speed[2] \in Int /\ Speed[2] <= 85000
<1> SUFFICES ASSUME sampleIndex <= 12 PROVE Speed[2] \in Int /\ Speed[2] <= 85000
  OBVIOUS
<1> DEFINE g == TargetRpm[sampleIndex]
           a == Approach(rpm, g, 20)
<1>1. sampleIndex \in Samples /\ sampleIndex \in 0 .. 12
  BY DEF Types, Samples
<1>2. g[2] \in Int /\ g[2] <= 82500 /\ rpm[2] \in Int /\ rpm[2] <= 85000
  BY <1>1, StartupTargets DEF SlowAtFirst
<1> HIDE DEF g
<1>3. 20 \in 0 .. 100
  OBVIOUS
<1>4. /\ a[2] \in Int
      /\ 100 * a[2] <= 100 * rpm[2] + 20 * (g[2] - rpm[2]) + 99
  BY ONLY <1>2, <1>3, ApproachHigh
<1> HIDE DEF a
<1>5. Plus(a, -400, 400)[2] = a[2] + 400 /\ a[2] + 400 \in Int
  BY ONLY <1>4 DEF Plus
<1>6. AtLeast(Plus(a, -400, 400), 0)[2] = Max({a[2] + 400, 0})
  BY ONLY <1>5 DEF AtLeast
<1>7. Speed[2] = Max({a[2] + 400, 0})
  BY ONLY <1>6 DEF Speed, a, g
<1>8. Max({a[2] + 400, 0}) = IF a[2] + 400 >= 0 THEN a[2] + 400 ELSE 0
  BY ONLY <1>5, ExtremesOfTwo
<1> QED BY ONLY <1>2, <1>4, <1>7, <1>8

(* What a sample's status may and must have, from the ranges.              *)
LEMMA StatusOfSample ==
  ASSUME SimulatorAssumption, Types,
         NEW overrun \in SUBSET {"RecorderBufferOverrun"}, NextSample(overrun)
  PROVE  /\ temperature' = Heat /\ rpm' = Speed /\ start' = start
         /\ lastPhase' = CurrentPhase(sampleIndex)
         /\ sampleIndex' = IF sampleIndex = 334 THEN 115 ELSE sampleIndex + 1
         /\ "LowOilPressure" \in status'.may =>
              sampleIndex \in 0 .. 24 /\ Speed[2] > 85000 /\ Heat[1] < 8000
         /\ "EngineWarning" \in status'.may =>
              Heat[2] > 67500 \/ sampleIndex \in 110 .. 158
         /\ Heat[1] > 67500 => "EngineWarning" \in status'.has
<1> DEFINE phase == CurrentPhase(sampleIndex)
<1>1. sampleIndex \in Samples
  BY DEF Types
<1>2. sampleIndex \in 0 .. 334
  BY <1>1 DEF Samples, TotalProfile, Startup, Takeoff, Climb, Cruise, Descent, Landing
<1>3. /\ temperature' = Heat /\ rpm' = Speed /\ start' = start
      /\ lastPhase' = phase
      /\ sampleIndex' = IF sampleIndex + 1 >= TotalProfile THEN Restart ELSE sampleIndex + 1
  BY DEF NextSample, Heat, Speed
<1>4. status' = [has |-> Bits(phase, Heat[1], Heat[2], Speed[1]) \union overrun,
                 may |-> Bits(phase, Heat[2], Heat[1], Speed[2]) \union overrun]
  BY DEF NextSample, Heat, Speed
<1>5. sampleIndex' = IF sampleIndex = 334 THEN 115 ELSE sampleIndex + 1
  BY <1>2, <1>3 DEF TotalProfile, Restart, CruiseStart,
     Startup, Takeoff, Climb, Cruise, Descent, Landing
<1>6. "LowOilPressure" \notin overrun /\ "EngineWarning" \notin overrun
  OBVIOUS
<1>7. "LowOilPressure" \in status'.may => LowOil(phase, Heat[1], Speed[2])
  <2>1. "LowOilPressure" \notin AnomalyBits
    BY SpikeBounds
  <2> QED BY ONLY <1>4, <1>6, <2>1 DEF Bits
<1>8. "EngineWarning" \in status'.may => Heat[2] > 67500 \/ sampleIndex \in 110 .. 158
  <2>1. sampleIndex \notin 110 .. 158 => "EngineWarning" \notin AnomalyBits
    BY SpikeBounds
  <2> QED BY ONLY <1>4, <1>6, <2>1 DEF Bits
<1>9. Heat[1] > 67500 => "EngineWarning" \in status'.has
  BY ONLY <1>4 DEF Bits
<1>10. phase = "Startup" <=> sampleIndex \in 0 .. 24
  BY <1>1, PhaseOfSample
<1> QED BY ONLY <1>3, <1>5, <1>7, <1>8, <1>9, <1>10 DEF LowOil

-----------------------------------------------------------------------------
(* The invariant holds                                                     *)

(* The simulator starts with the invariant.                                *)
LEMMA InitIInv == ASSUME SimulatorAssumption PROVE Init => IInv
<1> SUFFICES ASSUME Init PROVE IInv
  OBVIOUS
<1>1. Types
  BY DEF Init, Types, Samples, TotalProfile, Startup, Takeoff, Climb, Cruise, Descent, Landing
<1>2. NotTooHot
  BY DEF Init, NotTooHot, Hottest, Startup, Takeoff
<1>3. WarmedUp /\ SlowAtFirst
  BY DEF Init, WarmedUp, SlowAtFirst
<1>4. FollowsTheTarget
  BY DEF Init, FollowsTheTarget, Startup, Takeoff
<1>5. WarningsWhereHot
  BY DEF Init, WarningsWhereHot
<1> QED BY <1>1, <1>2, <1>3, <1>4, <1>5 DEF IInv

(* Every sample keeps the invariant.                                       *)
LEMMA SampleKeepsIInv ==
  ASSUME SimulatorAssumption, IInv,
         NEW overrun \in SUBSET {"RecorderBufferOverrun"}, NextSample(overrun)
  PROVE  IInv'
<1> DEFINE low == TargetTemperature[sampleIndex][1]
           high == TargetTemperature[sampleIndex][2]
<1>1. /\ sampleIndex \in Samples /\ sampleIndex \in 0 .. 334
      /\ temperature[1] \in Int /\ temperature[1] >= 2000 /\ temperature[2] \in Int
  BY DEF IInv, Types, Samples, TotalProfile, Startup, Takeoff, Climb, Cruise, Descent, Landing
<1>2. /\ temperature' = Heat /\ rpm' = Speed /\ start' = start
      /\ lastPhase' = CurrentPhase(sampleIndex)
      /\ sampleIndex' = IF sampleIndex = 334 THEN 115 ELSE sampleIndex + 1
  BY StatusOfSample DEF IInv
<1>3. /\ "LowOilPressure" \in status'.may =>
           sampleIndex \in 0 .. 24 /\ Speed[2] > 85000 /\ Heat[1] < 8000
      /\ "EngineWarning" \in status'.may => Heat[2] > 67500 \/ sampleIndex \in 110 .. 158
      /\ Heat[1] > 67500 => "EngineWarning" \in status'.has
  BY StatusOfSample DEF IInv
<1>4. /\ Heat[1] \in Int /\ Heat[2] \in Int /\ Heat[1] >= 2000
      /\ 84 * temperature[1] + 16 * low <= 100 * Heat[1] + 8099
      /\ \/ 100 * (Heat[2] - Spike) <= 84 * temperature[2] + 16 * high + 8099
         \/ Heat[2] - Spike <= 2000
  BY HeatBounds DEF IInv
<1>5. Spike \in 0 .. 2800 /\ (sampleIndex \notin 110 .. 158 => Spike = 0)
  BY SpikeBounds DEF IInv
<1>6. /\ low \in Int /\ high \in Int /\ high <= 69000
      /\ sampleIndex \in 0 .. 44 \union 235 .. 299 => high <= 64500
      /\ sampleIndex \in 300 .. 334 => high <= 52000
  BY <1>1, TargetBounds
<1>7. /\ sampleIndex \in 8 .. 13 => low >= 8900 + 1200 * (sampleIndex - 8)
      /\ sampleIndex \in 13 .. 24 => low >= 15000
  BY <1>1, StartupTargets
<1>8. temperature[2] <= IF sampleIndex < 45 THEN 65200
                        ELSE IF sampleIndex < 235 THEN 96000
                        ELSE IF sampleIndex < 300 THEN 70000 + 400 * (300 - sampleIndex)
                        ELSE 70000
  BY DEF IInv, NotTooHot, Hottest, PhaseStart, CruiseStart,
     Startup, Takeoff, Climb, Cruise, Descent, Landing
<1> HIDE DEF low, high
<1>9. Types'
  <2>1. sampleIndex' \in Samples
    BY <1>1, <1>2 DEF Samples, TotalProfile, Startup, Takeoff, Climb, Cruise, Descent, Landing
  <2>2. temperature'[1] \in Int /\ temperature'[1] >= 2000 /\ temperature'[2] \in Int
    BY ONLY <1>2, <1>4
  <2> QED BY <1>2, <2>1, <2>2 DEF IInv, Types
<1>10. /\ sampleIndex < 45 => Heat[2] <= 65200
       /\ sampleIndex \in 45 .. 234 => Heat[2] <= 96000
       /\ sampleIndex \in 235 .. 299 => Heat[2] <= 70000 + 400 * (299 - sampleIndex)
       /\ sampleIndex \in 300 .. 334 => Heat[2] <= 67500
  <2>1. CASE sampleIndex \in 0 .. 44
    BY ONLY <1>1, <1>4, <1>5, <1>6, <1>8, <2>1
  <2>2. CASE sampleIndex \in 45 .. 234
    <3>1. temperature[2] <= 96000 /\ high <= 69000 /\ Spike <= 2800
      BY ONLY <1>1, <1>5, <1>6, <1>8, <2>2
    <3>2. Heat[2] <= 96000
      BY ONLY <1>1, <1>4, <1>5, <1>6, <3>1
    <3> QED BY ONLY <2>2, <3>2
  <2>3. CASE sampleIndex \in 235 .. 299
    BY ONLY <1>1, <1>4, <1>5, <1>6, <1>8, <2>3
  <2>4. CASE sampleIndex \in 300 .. 334
    BY ONLY <1>1, <1>4, <1>5, <1>6, <1>8, <2>4
  <2> QED BY ONLY <1>1, <2>1, <2>2, <2>3, <2>4
<1>11. NotTooHot'
  BY ONLY <1>1, <1>2, <1>4, <1>10
  DEF NotTooHot, Hottest, PhaseStart, CruiseStart,
      Startup, Takeoff, Climb, Cruise, Descent, Landing
<1>12. /\ sampleIndex \in 8 .. 13 => Heat[1] >= 3000 + 1020 * (sampleIndex - 8)
       /\ sampleIndex \in 13 .. 24 => Heat[1] >= 8000
  <2>1. /\ sampleIndex \in 9 .. 14 => temperature[1] >= 3000 + 1020 * (sampleIndex - 9)
        /\ sampleIndex \in 14 .. 25 => temperature[1] >= 8000
    BY DEF IInv, WarmedUp
  <2> QED BY ONLY <1>1, <1>4, <1>6, <1>7, <2>1
<1>13. WarmedUp'
  BY ONLY <1>1, <1>2, <1>4, <1>12 DEF WarmedUp
<1>14. sampleIndex <= 12 => Speed[2] \in Int /\ Speed[2] <= 85000
  BY SpeedBounds DEF IInv
<1>15. SlowAtFirst'
  BY ONLY <1>1, <1>2, <1>14 DEF SlowAtFirst
<1>16. sampleIndex \in 45 .. 114 =>
         Heat[1] >= low - (1490 + 11 * (114 - sampleIndex) * (114 - sampleIndex))
  <2> DEFINE before == TargetTemperature[sampleIndex - 1][1]
             m == 114 - sampleIndex
  <2>1. CASE sampleIndex = 45
    <3>1. low = 64000
      BY <2>1, ClimbTargets DEF low
    <3> QED BY ONLY <1>1, <1>4, <2>1, <3>1
  <2>2. CASE sampleIndex \in 46 .. 114
    <3>1. low <= before + 110
      BY <2>2, ClimbTargets DEF low
    <3>2. before \in Int
      <4>1. sampleIndex - 1 \in Samples
        BY <2>2 DEF Samples, TotalProfile, Startup, Takeoff, Climb, Cruise, Descent, Landing
      <4> QED BY ONLY <4>1, TargetBounds
    <3>3. temperature[1] >= before - (1490 + 11 * (m + 1) * (m + 1))
      <4>1. Lag(sampleIndex) = 1490 + 11 * (m + 1) * (m + 1)
        BY <2>2 DEF Lag, CruiseStart, Startup, Takeoff, Climb
      <4>2. temperature[1] >= before - Lag(sampleIndex)
        BY <2>2 DEF IInv, FollowsTheTarget, CruiseStart, Startup, Takeoff, Climb
      <4> QED BY ONLY <4>1, <4>2
    <3>4. m \in 0 .. 68
      BY <2>2
    <3> HIDE DEF before, m
    <3>5. 17339 + 924 * (m + 1) * (m + 1) <= 23840 + 1100 * m * m
      BY ONLY <3>4
    <3>6. Heat[1] >= low - (1490 + 11 * m * m)
      BY ONLY <1>1, <1>4, <1>6, <3>1, <3>2, <3>3, <3>4, <3>5
    <3> QED BY ONLY <3>6 DEF m
  <2> QED BY ONLY <1>1, <2>1, <2>2
<1>17. FollowsTheTarget'
  BY ONLY <1>1, <1>2, <1>4, <1>6, <1>16
  DEF FollowsTheTarget, Lag, CruiseStart, Startup, Takeoff, Climb, low
<1>18. WarningsWhereHot'
  <2>1. "LowOilPressure" \notin status'.may
    BY ONLY <1>1, <1>3, <1>4, <1>12, <1>14
  <2>2. "EngineWarning" \in status'.may => lastPhase' \in {"Climb", "Cruise", "Descent"}
    <3>1. "EngineWarning" \in status'.may => sampleIndex \in 45 .. 299
      BY ONLY <1>1, <1>3, <1>4, <1>10
    <3> QED BY <1>1, <1>2, <3>1, PhaseOfSample DEF Phases
  <2>3. lastPhase' = "Climb" /\ sampleIndex' = CruiseStart => "EngineWarning" \in status'.has
    <3>1. lastPhase' = "Climb" /\ sampleIndex' = CruiseStart => sampleIndex = 114
      <4>1. lastPhase' = "Climb" => sampleIndex \in 45 .. 114
        <5>1. CurrentPhase(sampleIndex) = "Climb" <=> sampleIndex \in 45 .. 114
          BY <1>1, PhaseOfSample
        <5> QED BY ONLY <1>2, <5>1
      <4>2. CruiseStart = 115
        BY DEF CruiseStart, Startup, Takeoff, Climb
      <4> QED BY ONLY <1>1, <1>2, <4>1, <4>2
    <3>2. sampleIndex = 114 => low = 69000
      BY ClimbTargets DEF low
    <3>3. sampleIndex = 114 => Heat[1] > 67500
      BY ONLY <1>1, <1>4, <1>16, <3>2
    <3> QED BY ONLY <1>3, <3>1, <3>3
  <2> QED BY ONLY <2>1, <2>2, <2>3 DEF WarningsWhereHot
<1> QED BY <1>9, <1>11, <1>13, <1>15, <1>17, <1>18 DEF IInv

(* On the ground and in the landing no seed warns of the engine, the end   *)
(* of the climb always does, and the oil pressure is never low.            *)
THEOREM SimulatorWarnsWhereHot == Spec => []WarningsWhereHot
<1>1. SimulatorAssumption
  BY SimulatorAssumption
<1>2. Init => IInv
  BY <1>1, InitIInv
<1>3. IInv /\ [Next]_vars => IInv'
  <2> SUFFICES ASSUME IInv, [Next]_vars PROVE IInv'
    OBVIOUS
  <2>1. CASE Next
    BY <1>1, <2>1, SampleKeepsIInv DEF Next
  <2>2. CASE UNCHANGED vars
    BY <2>2 DEF vars, IInv, Types, NotTooHot, WarmedUp, SlowAtFirst, FollowsTheTarget,
       WarningsWhereHot
  <2> QED BY <2>1, <2>2
<1>4. IInv => WarningsWhereHot
  BY DEF IInv
<1> QED BY <1>2, <1>3, <1>4, PTL DEF Spec
=============================================================================
