-------------------------- MODULE SleepBetweenProofs --------------------------
(***************************************************************************)
(* What sleep_between returns, for every interval, perturb and list of     *)
(* steps.                                                                  *)
(***************************************************************************)
EXTENDS SleepBetween, TLAPS

LEMMA FirstIsMember ==
  ASSUME NEW S, S \subseteq 1..4, S # {}
  PROVE  First(S) \in S /\ \A j \in S : First(S) <= j
<1>1. \E i \in S : \A j \in S : i <= j
  <2>1. CASE 1 \in S
    BY <2>1
  <2>2. CASE 1 \notin S /\ 2 \in S
    BY <2>2
  <2>3. CASE 1 \notin S /\ 2 \notin S /\ 3 \in S
    BY <2>3
  <2>4. CASE 1 \notin S /\ 2 \notin S /\ 3 \notin S
    <3>1. \A j \in S : j = 4
      BY <2>4
    <3>2. 4 \in S
      BY <3>1
    <3>3. QED
      BY <3>1, <3>2
  <2>5. QED
    BY <2>1, <2>2, <2>3, <2>4
<1>2. QED
  BY <1>1 DEF First

(* The sum that gives a spot may wrap around, but never exceeds what it    *)
(* would be without.                                                       *)
LEMMA SpotBounds ==
  ASSUME NEW b \in 0..Infinity, NEW perturb \in Nat, NEW step \in 1..Infinity
  PROVE  /\ Spot(b, perturb, step) \in Nat
         /\ Spot(b, perturb, step) < b + step
<1> DEFINE base == (b \div step) * step
           sum  == base + (perturb % step)
<1>1. base \in Nat /\ base <= b
  OBVIOUS
<1>2. perturb % step \in 0..step-1
  BY StepsAssumption
<1>3. sum \in Nat /\ sum < b + step
  BY <1>1, <1>2
<1>4. sum % (Infinity + 1) \in Nat /\ sum % (Infinity + 1) <= sum
  <2> HIDE DEF sum
  <2> QED BY <1>3, StepsAssumption
<1>5. QED
  BY <1>3, <1>4 DEF Spot

(* The spot that ends the search is a time in the interval.                *)
LEMMA LastSpotInInterval ==
  ASSUME NEW a \in 0..Infinity, NEW b \in 0..Infinity, NEW perturb \in Nat,
         NEW step \in 1..Infinity,
         ~GivesUp(b, perturb, step), LastSpot(b, perturb, step) >= a
  PROVE  LastSpot(b, perturb, step) \in a..b
<1>1. Spot(b, perturb, step) \in Nat /\ Spot(b, perturb, step) < b + step
  BY SpotBounds
<1>2. QED
  BY <1>1 DEF LastSpot, GivesUp

(* sleep_between returns a time between its arguments, whatever the        *)
(* perturb value and the steps, the overflow of the sums included: a timer *)
(* never elapses before its time because of it nor after its accuracy.     *)
THEOREM SleepsInInterval ==
  ASSUME NEW a \in 0..Infinity, NEW b \in a..Infinity, NEW perturb \in Nat
  PROVE  SleepBetween(a, b, perturb) \in a..b
<1> DEFINE ends == Ends(a, b, perturb)
           step == Steps[First(ends)]
<1>1. CASE a = 0 \/ a = Infinity \/ b <= a + 1
  BY <1>1, StepsAssumption DEF SleepBetween
<1>2. CASE a > 0 /\ a < Infinity /\ b > a + 1
  <2>1. CASE ends = {} \/ GivesUp(b, perturb, step)
    BY <1>2, <2>1 DEF SleepBetween
  <2>2. CASE ends # {} /\ ~GivesUp(b, perturb, step)
    <3>1. First(ends) \in ends
      BY <2>2, FirstIsMember DEF Ends
    <3>2. step \in 1..Infinity /\ LastSpot(b, perturb, step) >= a
      BY <2>2, <3>1, StepsAssumption DEF Ends
    <3>3. LastSpot(b, perturb, step) \in a..b
      BY <2>2, <3>2, StepsAssumption, LastSpotInInterval
    <3>4. QED
      BY <1>2, <2>2, <3>3 DEF SleepBetween
  <2>3. QED
    BY <2>1, <2>2
<1>3. QED
  BY <1>1, <1>2, StepsAssumption

(* Division by a positive number, as the provers need it.                  *)
LEMMA MultiplesApart ==
  ASSUME NEW step \in Nat \ {0}, NEW k \in Int, NEW q \in Int, q * step < k * step
  PROVE  q * step + step <= k * step
<1>1. (k - q) * step > 0
  OBVIOUS
<1>2. k - q >= 1
  BY <1>1
<1>3. (k - q) * step >= step
  BY <1>2
<1>4. QED
  BY <1>3

LEMMA RestOfSpot ==
  ASSUME NEW step \in Nat \ {0}, NEW k \in Int, NEW r \in 0..step-1
  PROVE  (k * step + r) % step = r
OBVIOUS

LEMMA Division ==
  ASSUME NEW n \in Nat, NEW step \in Nat \ {0}
  PROVE  \E k \in Nat : /\ n \div step = k
                        /\ n = k * step + (n % step)
                        /\ n % step \in 0..step-1
OBVIOUS

(* When nothing overflows the last spot before b is no earlier than any    *)
(* other time before b in the same place of a step.                        *)
LEMMA LastSpotIsLast ==
  ASSUME NEW step \in 1..Infinity, Infinity \in Nat,
         NEW b \in step..Infinity, b + step <= Infinity,
         NEW perturb \in 0..step-1,
         NEW t \in 0..b-1, t % step = perturb
  PROVE  /\ ~GivesUp(b, perturb, step)
         /\ LastSpot(b, perturb, step) % step = perturb
         /\ t <= LastSpot(b, perturb, step)
<1> DEFINE spot == Spot(b, perturb, step)
<1>1. PICK k \in Nat : b \div step = k /\ k * step <= b /\ b < k * step + step
  BY Division
<1>2. PICK q \in Nat : t = q * step + perturb
  <2>1. t \in Nat /\ step \in Nat \ {0}
    OBVIOUS
  <2>2. PICK q \in Nat : t = q * step + (t % step)
    BY <2>1, Division
  <2>3. QED
    BY <2>2
<1>3. spot = k * step + perturb
  <2>1. perturb % step = perturb
    OBVIOUS
  <2>2. k * step + perturb \in 0..Infinity
    BY <1>1
  <2>3. (k * step + perturb) % (Infinity + 1) = k * step + perturb
    <3> DEFINE n == k * step + perturb
    <3> HIDE DEF n
    <3> QED BY <2>2 DEF n
  <2>4. QED
    BY <1>1, <2>1, <2>3 DEF Spot
<1>4. spot \in Nat
  BY <1>3
<1>5. ~GivesUp(b, perturb, step)
  BY <1>4 DEF GivesUp
<1>6. CASE spot >= b
  <2>1. q * step < k * step
    BY <1>2, <1>3, <1>6
  <2>2. q * step + step <= k * step
    BY <2>1, MultiplesApart
  <2>3. LastSpot(b, perturb, step) = (k - 1) * step + perturb
    BY <1>3, <1>6 DEF LastSpot
  <2>4. LastSpot(b, perturb, step) % step = perturb
    BY <2>3, RestOfSpot
  <2>5. (k - 1) * step = k * step - step
    OBVIOUS
  <2>6. t <= LastSpot(b, perturb, step)
    BY <1>2, <2>2, <2>3, <2>5
  <2>7. QED
    BY <1>5, <2>4, <2>6
<1>7. CASE spot < b
  <2>1. q * step <= k * step
    <3>1. ~(k * step < q * step)
      BY <1>1, <1>2, MultiplesApart
    <3>2. QED
      BY <3>1
  <2>2. LastSpot(b, perturb, step) = k * step + perturb
    BY <1>3, <1>7 DEF LastSpot
  <2>3. LastSpot(b, perturb, step) % step = perturb
    BY <2>2, RestOfSpot
  <2>4. QED
    BY <1>2, <1>5, <2>1, <2>2, <2>3
<1>8. QED
  BY <1>4, <1>6, <1>7

(* "We implement this by waking up everywhere at the same time within any  *)
(* given minute if we can" (sleep_between): if the interval holds a time   *)
(* in the spot of the coarsest step, the loop wakes up in that spot, at    *)
(* the last such time - provided the clock is at least one step old and a  *)
(* step away from overflow.                                                *)
THEOREM Synchronised ==
  ASSUME NEW a \in 1..Infinity, NEW b \in a+2..Infinity,
         NEW perturb \in 0..Steps[1]-1,
         Steps[1] <= b, b + Steps[1] <= Infinity,
         NEW t \in a..b-1, t % Steps[1] = perturb
  PROVE  /\ SleepBetween(a, b, perturb) % Steps[1] = perturb
         /\ t <= SleepBetween(a, b, perturb)
<1>1. Infinity \in Nat /\ Steps[1] \in 1..Infinity
  BY StepsAssumption
<1>2. b \in Steps[1]..Infinity /\ t \in 0..b-1 /\ t >= a
  BY <1>1
<1>3. /\ ~GivesUp(b, perturb, Steps[1])
      /\ LastSpot(b, perturb, Steps[1]) % Steps[1] = perturb
      /\ t <= LastSpot(b, perturb, Steps[1])
  BY <1>1, <1>2, LastSpotIsLast
<1>4. LastSpot(b, perturb, Steps[1]) \in Int
  <2>1. Spot(b, perturb, Steps[1]) \in Nat
    <3>1. b \in 0..Infinity /\ perturb \in Nat
      BY <1>1
    <3>2. QED
      BY <1>1, <3>1, SpotBounds
  <2>2. QED
    BY <1>1, <2>1 DEF LastSpot
<1>5. 1 \in Ends(a, b, perturb)
  BY <1>1, <1>2, <1>3, <1>4 DEF Ends
<1>6. First(Ends(a, b, perturb)) = 1
  BY <1>5, FirstIsMember DEF Ends
<1>7. a \notin {0, Infinity} /\ ~(b <= a + 1)
  BY <1>1
<1>8. SleepBetween(a, b, perturb) = LastSpot(b, perturb, Steps[1])
  BY <1>3, <1>5, <1>6, <1>7 DEF SleepBetween
<1>9. QED
  BY <1>3, <1>8
=============================================================================
