---------------------------- MODULE LoopProtocol -----------------------------
(***************************************************************************)
(* What an sd_event loop promises the program that drives it, with no      *)
(* source, queue or reference count in sight: in which states callbacks of *)
(* which class run, one at a time; that an exit request is never withdrawn *)
(* and admits exit callbacks only; that a finished loop stays finished;    *)
(* and that the loop's memory goes away only between its steps.            *)
(***************************************************************************)
VARIABLES
    state,          \* sd_event_get_state
    exitRequested,  \* sd_event_exit was called, or a callback's failure stood in for it
    callback,       \* "none", "prepare", "event" or "exit"
    freed

vars == <<state, exitRequested, callback, freed>>

Init ==
    /\ state = "initial"
    /\ ~exitRequested
    /\ callback = "none"
    /\ ~freed

Idle == callback = "none" /\ ~freed

Prepare ==
    /\ Idle /\ state = "initial"
    /\ \/ ~exitRequested /\ state' = "preparing" /\ UNCHANGED exitRequested
       \/ exitRequested' /\ state' = "pending"
    /\ UNCHANGED <<callback, freed>>

PrepareDone ==
    /\ Idle /\ state = "preparing"
    /\ state' \in {"armed", "pending"}
    /\ freed' \in BOOLEAN
    /\ UNCHANGED <<exitRequested, callback>>

Wait ==
    /\ Idle /\ state = "armed"
    /\ state' = "pending" \/ (state' = "initial" /\ ~exitRequested)
    /\ UNCHANGED <<exitRequested, callback, freed>>

DispatchNone ==
    /\ Idle /\ state = "pending"
    /\ state' = IF exitRequested THEN "finished" ELSE "initial"
    /\ UNCHANGED <<exitRequested, callback, freed>>

CallbackStarts ==
    /\ Idle
    /\ \/ state = "preparing" /\ callback' = "prepare" /\ UNCHANGED state
       \/ state = "pending" /\ ~exitRequested /\ callback' = "event" /\ state' = "running"
       \/ state = "pending" /\ exitRequested /\ callback' = "exit" /\ state' = "exiting"
    /\ UNCHANGED <<exitRequested, freed>>

CallbackReturns ==
    /\ callback # "none"
    /\ callback' = "none"
    /\ exitRequested => exitRequested'
    /\ IF callback = "prepare"
       THEN UNCHANGED <<state, freed>>
       ELSE state' = "initial" /\ freed' \in BOOLEAN

RequestExit ==
    /\ state # "finished" /\ ~freed
    /\ exitRequested'
    /\ UNCHANGED <<state, callback, freed>>

(* The last reference goes, between the loop's steps.                      *)
Free ==
    /\ Idle /\ state # "preparing"
    /\ freed'
    /\ UNCHANGED <<state, exitRequested, callback>>

Next ==
    \/ Prepare \/ PrepareDone \/ Wait \/ DispatchNone
    \/ CallbackStarts \/ CallbackReturns \/ RequestExit \/ Free

Spec == Init /\ [][Next]_vars
=============================================================================
