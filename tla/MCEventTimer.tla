---------------------------- MODULE MCEventTimer -----------------------------
(* Instances of EventTimer for TLC: a monotonic and a boottime timer of     *)
(* different accuracy, another monotonic timer, and a busy IO source.       *)
EXTENDS EventTimer

CONSTANTS mono1, mono2, boot1, io1, io2

MCClockOf  == [s \in Sources |-> CASE s \in {mono1, mono2} -> "monotonic"
                                   [] s = boot1 -> "boottime"
                                   [] OTHER -> "none"]
MCAccuracy == [s \in Sources |-> IF s = mono1 THEN 2 ELSE 1]

(* An IO source and the first timer get one callback in two ticks.          *)
MCInterval == [s \in Sources |-> IF s \in {mono1, io1, io2} THEN 1 ELSE 0]
MCBurst    == [s \in Sources |-> IF s \in {mono1, io1, io2} THEN 1 ELSE 0]

(* Steps of four, two, two and one tick.                                    *)
MCSteps == <<4, 2, 2, 1>>
=============================================================================
