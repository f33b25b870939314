----------------------------- MODULE SleepBetween -----------------------------
(***************************************************************************)
(* sleep_between of src/src/libsystemd/sd-event/sd-event.c: the time       *)
(* between a and b at which an event loop wakes up.  Steps are the code's  *)
(* minute, 10 seconds, second and 250 milliseconds, coarsest first; every  *)
(* loop of the machine has the same perturb, so that they wake up in the   *)
(* same spot of every step.                                                *)
(***************************************************************************)
EXTENDS Integers

CONSTANTS
    Steps,     \* the distances of the spots, coarsest first
    Infinity   \* USEC_INFINITY, the largest usec_t

ASSUME StepsAssumption == Infinity \in Nat /\ Steps \in [1..4 -> 1..Infinity]

(* The spot of the step that b lies in; the sum wraps around.              *)
Spot(b, perturb, step) == ((b \div step) * step + (perturb % step)) % (Infinity + 1)

(* Less than a step since the clock was zero: the code gives up the search. *)
GivesUp(b, perturb, step) == Spot(b, perturb, step) >= b /\ Spot(b, perturb, step) < step

(* The last spot before b.                                                 *)
LastSpot(b, perturb, step) ==
    IF Spot(b, perturb, step) >= b
    THEN Spot(b, perturb, step) - step
    ELSE Spot(b, perturb, step)

Ends(a, b, perturb) ==
    {i \in 1..4 : GivesUp(b, perturb, Steps[i]) \/ LastSpot(b, perturb, Steps[i]) >= a}

First(S) == CHOOSE i \in S : \A j \in S : i <= j

SleepBetween(a, b, perturb) ==
    LET ends == Ends(a, b, perturb)
        step == Steps[First(ends)]
    IN  IF a \in {0, Infinity} \/ b <= a + 1 THEN a
        ELSE IF ends = {} \/ GivesUp(b, perturb, step) THEN b
        ELSE LastSpot(b, perturb, step)
=============================================================================
