------------------------------ MODULE EventLoop ------------------------------
(***************************************************************************)
(* The core of src/src/libsystemd/sd-event/sd-event.c: one sd_event object *)
(* with IO, defer, post and exit sources, driven through sd_event_prepare, *)
(* sd_event_wait and sd_event_dispatch, and the program that calls into it *)
(* from callbacks and between the loop's steps.                            *)
(*                                                                         *)
(* ev is the sd_event object and the fields of its sources, as sets and    *)
(* functions over Sources.  The queues (pendingQ, prepareQ, exitQ, posts,  *)
(* the source list and the epoll set) are kept apart from the flags of the *)
(* sources that say which queues they are on: that the two agree is the    *)
(* code's obligation.  The operators below take such an object and return  *)
(* the object after the call; every action assigns ev once.                *)
(*                                                                         *)
(* Iteration numbers are only ever compared: fresh is the set of pending   *)
(* sources stamped in the current iteration, <<s, t>> \in older says that  *)
(* s's pending_iteration is smaller than t's.  The two prioqs are sets of  *)
(* which an operator picks a first element: PrioqUser shows the heap does. *)
(***************************************************************************)
EXTENDS Naturals, FiniteSets

CONSTANTS
    Sources,         \* names for sd_event_source objects; a freed one may be reused
    TypeOf,          \* the type of each: "io", "defer", "post" or "exit"
    Priorities,      \* the priorities the program uses
    NormalPriority,  \* SD_EVENT_PRIORITY_NORMAL
    ExitOnIdle,      \* e->exit_on_idle
    ExitOnFailure,   \* the sources with s->exit_on_failure
    Calls,           \* the API calls the program makes
    UserStates,      \* loop states in which it makes them outside of callbacks
    MaxRef,          \* bound: references the program takes on one object
    NoSource         \* no callback on the stack

Types == {"io", "defer", "post", "exit"}
Modes == {"off", "on", "oneshot"}

ASSUME TypeOfAssumption == TypeOf \in [Sources -> Types]
ASSUME PrioritiesAssumption == Priorities \subseteq Nat /\ NormalPriority \in Priorities
ASSUME NoSourceAssumption == NoSource \notin Sources
ASSUME FiniteSourcesAssumption == IsFiniteSet(Sources)
ASSUME OptionsAssumption == ExitOnIdle \in BOOLEAN /\ ExitOnFailure \subseteq Sources

VARIABLES
    ev,      \* the loop and its sources
    active,  \* the source whose callback is running (s->dispatching)
    held,    \* the references the program owns on each source
    evHeld,  \* the references the program owns on the loop
    ready    \* the IO sources whose fd the kernel would report

vars == <<ev, active, held, evHeld, ready>>

LoopStates == {"initial", "preparing", "armed", "pending", "running", "exiting", "finished"}

Online(e, s)   == e.enabled[s] # "off"
Io(s)          == TypeOf[s] = "io"
AlwaysPends(s) == TypeOf[s] \in {"defer", "exit"}

-----------------------------------------------------------------------------
(* The pending queue.                                                      *)

(* source_set_pending(s, true) for every s \in S that is not pending yet.  *)
MarkPending(e, S) ==
    LET new == S \ e.pending
    IN  [e EXCEPT !.pending  = @ \union new,
                  !.pendingQ = @ \union new,
                  !.fresh    = @ \union new,
                  !.older    = @ \union ((e.pendingQ \ e.fresh) \X new)]

Unqueue(e, s) ==
    [e EXCEPT !.pendingQ = @ \ {s},
              !.fresh    = @ \ {s},
              !.older    = {p \in @ : p[1] # s /\ p[2] # s}]

(* source_set_pending(s, false).                                           *)
ClearPending(e, s) ==
    IF s \in e.pending
    THEN [Unqueue(e, s) EXCEPT !.pending = @ \ {s}]
    ELSE e

(* Faulty: a defer source keeps the place it was first queued at.          *)
RestampMissing(e, s) == e

(* s->pending_iteration = e->iteration on a source that stays pending.     *)
Restamp(e, s) ==
    IF s \in e.pendingQ
    THEN [e EXCEPT !.fresh = @ \union {s},
                   !.older = {p \in @ : p[1] # s /\ p[2] # s}
                                 \union ((e.pendingQ \ (e.fresh \union {s})) \X {s})]
    ELSE e

(* pending_prioq_compare(a, b) < 0                                         *)
PendsBefore(e, a, b) ==
    \/ Online(e, a) /\ ~Online(e, b)
    \/ /\ Online(e, a) <=> Online(e, b)
       /\ \/ e.prio[a] < e.prio[b]
          \/ e.prio[a] = e.prio[b] /\ <<a, b>> \in e.older

(* The sources event_next_pending may return: the head, unless offline.    *)
NextPending(e) ==
    {s \in e.pendingQ : Online(e, s) /\ \A t \in e.pendingQ : ~PendsBefore(e, t, s)}

(* Faulty: the head of the exit queue, enabled or not.                     *)
NextExitIgnoresEnabled(e) == {s \in e.exitQ : \A t \in e.exitQ : e.prio[s] <= e.prio[t]}

(* The head of the exit queue, unless offline (exit_prioq_compare).        *)
NextExit(e) ==
    {s \in e.exitQ : Online(e, s)
                     /\ \A t \in e.exitQ : Online(e, t) => e.prio[s] <= e.prio[t]}

(* The prepare queue's head if its callback has yet to run this iteration. *)
Unprepared(e) == {s \in e.prepareQ : Online(e, s) /\ s \notin e.prepared}

(* maybe_mark_post_sources_pending after a dispatch of type t.             *)
MarkPosts(e, t) ==
    IF t = "post" THEN e ELSE MarkPending(e, {z \in e.posts : Online(e, z)})

-----------------------------------------------------------------------------
(* Life of a source and of the loop.                                       *)

(* Faulty: a source is left in the prepare queue.                          *)
DetachKeepsPrepare(e, S) ==
    LET queued == S \intersect e.pending
    IN  [e EXCEPT !.sources  = @ \ S,
                  !.epoll    = [s \in Sources |-> IF s \in S /\ Io(s) THEN "none" ELSE @[s]],
                  !.posts    = @ \ S,
                  !.exitQ    = @ \ S,
                  !.pendingQ = @ \ queued,
                  !.fresh    = @ \ queued,
                  !.older    = {p \in @ : p[1] \notin queued /\ p[2] \notin queued}]

(* What source_disconnect takes off the loop for the sources in S.         *)
Detach(e, S) ==
    LET queued == S \intersect e.pending
    IN  [e EXCEPT !.sources  = @ \ S,
                  !.epoll    = [s \in Sources |-> IF s \in S /\ Io(s) THEN "none" ELSE @[s]],
                  !.posts    = @ \ S,
                  !.exitQ    = @ \ S,
                  !.prepareQ = @ \ (S \intersect e.prepare),
                  !.pendingQ = @ \ queued,
                  !.fresh    = @ \ queued,
                  !.older    = {p \in @ : p[1] \notin queued /\ p[2] \notin queued}]

(* The memory of the sources in S goes back to the allocator.              *)
Release(e, S) ==
    [e EXCEPT !.alloc    = @ \ S,
              !.floating = @ \ S,
              !.pending  = @ \ S,
              !.prepare  = @ \ S,
              !.prepared = @ \ S,
              !.enabled  = [s \in Sources |-> IF s \in S THEN "off" ELSE @[s]],
              !.prio     = [s \in Sources |-> IF s \in S THEN NormalPriority ELSE @[s]]]

(* event_free: the sources still connected are disconnected and lose the   *)
(* reference the loop had on them.                                         *)
EventFree(e) ==
    LET d == [Detach(e, e.sources) EXCEPT
                 !.srcRef = [s \in Sources |-> IF s \in e.sources THEN @[s] - 1 ELSE @[s]],
                 !.freed  = TRUE]
    IN  Release(d, {s \in e.sources : d.srcRef[s] = 0})

EventUnref(e) ==
    LET d == [e EXCEPT !.nRef = @ - 1]
    IN  IF d.nRef = 0 THEN EventFree(d) ELSE d

(* source_disconnect: a floating source does not pin the loop.             *)
SourceDisconnect(e, s) ==
    CASE s \notin e.sources -> e
      [] s \in e.sources /\ s \in e.floating -> Detach(e, {s})
      [] OTHER -> EventUnref(Detach(e, {s}))

SourceFree(e, s) == Release(SourceDisconnect(e, s), {s})

(* Faulty: the source is freed under its own callback.                     *)
SourceUnrefFreesRunning(e, s, dispatching) ==
    LET d == [e EXCEPT !.srcRef[s] = @ - 1]
    IN  IF d.srcRef[s] > 0 THEN d ELSE SourceFree(d, s)

(* sd_event_source_unref and event_source_free; a source whose callback is *)
(* running is only disconnected.                                           *)
SourceUnref(e, s, dispatching) ==
    LET d == [e EXCEPT !.srcRef[s] = @ - 1]
    IN  CASE d.srcRef[s] > 0 -> d
          [] d.srcRef[s] = 0 /\ s = dispatching -> SourceDisconnect(d, s)
          [] OTHER -> SourceFree(d, s)

(* source_new and the add_* function of the source's type.                 *)
SourceAdd(e, s, float) ==
    LET new == [e EXCEPT
                   !.alloc    = @ \union {s},
                   !.sources  = @ \union {s},
                   !.srcRef[s] = 1,
                   !.floating = IF float THEN @ \union {s} ELSE @,
                   !.nRef     = IF float THEN @ ELSE @ + 1,
                   !.enabled[s] = IF AlwaysPends(s) THEN "oneshot" ELSE "on",
                   !.epoll[s] = IF Io(s) THEN "armed" ELSE @,
                   !.posts    = IF TypeOf[s] = "post" THEN @ \union {s} ELSE @,
                   !.exitQ    = IF TypeOf[s] = "exit" THEN @ \union {s} ELSE @]
    IN  IF TypeOf[s] = "defer" THEN MarkPending(new, {s}) ELSE new

-----------------------------------------------------------------------------
(* Enabling and disabling.  A registration that fails leaves everything as *)
(* it was, and so is a call that changes nothing here.                     *)

(* Faulty: what was pending stays pending.                                 *)
OfflineKeepsPending(e, s) ==
    [e EXCEPT !.enabled[s] = "off",
              !.epoll[s]   = IF Io(s) THEN "none" ELSE @]

EventSourceOffline(e, s) ==
    LET c == IF Online(e, s) /\ ~AlwaysPends(s) THEN ClearPending(e, s) ELSE e
    IN  [c EXCEPT !.enabled[s] = "off",
                  !.epoll[s]   = IF Io(s) THEN "none" ELSE @]

EventSourceOnline(e, s, m) ==
    LET c == IF ~Online(e, s) /\ ~AlwaysPends(s) THEN ClearPending(e, s) ELSE e
    IN  [c EXCEPT !.enabled[s] = m,
                  !.epoll[s]   = IF Io(s) THEN "armed" ELSE @]

(* Faulty: sources can be enabled on a finished loop.                      *)
SetEnabledWhenFinished(e, s, m) ==
    CASE e.enabled[s] = m -> e
      [] e.enabled[s] # m /\ m = "off" -> EventSourceOffline(e, s)
      [] OTHER -> EventSourceOnline(e, s, m)

(* sd_event_source_set_enabled.                                            *)
SourceSetEnabled(e, s, m) ==
    CASE e.state = "finished" \/ e.enabled[s] = m -> e
      [] e.state # "finished" /\ e.enabled[s] # m /\ m = "off" -> EventSourceOffline(e, s)
      [] OTHER -> EventSourceOnline(e, s, m)

-----------------------------------------------------------------------------
(* The loop.                                                               *)

(* event_loop_idle.                                                        *)
LoopIdle(e) ==
    \A s \in e.sources :
        \/ TypeOf[s] = "exit"
        \/ ~Online(e, s)
        \/ TypeOf[s] = "post" /\ s \notin e.pending

Reported(e) == {s \in ready : e.epoll[s] = "armed"}

(* Faulty: every reported registration is taken for a oneshot one.         *)
ProcessEpollSpendsAll(e) ==
    [MarkPending(e, Reported(e)) EXCEPT
        !.epoll = [s \in Sources |-> IF s \in Reported(e) THEN "spent" ELSE @[s]]]

(* process_epoll and process_io: what the kernel reports becomes pending,  *)
(* and EPOLLONESHOT disarms a oneshot source's registration.               *)
ProcessEpoll(e) ==
    [MarkPending(e, Reported(e)) EXCEPT
        !.epoll = [s \in Sources |->
                     IF s \in Reported(e) /\ e.enabled[s] = "oneshot" THEN "spent" ELSE @[s]]]

(* Faulty: without PROTECT_EVENT.                                          *)
DispatchUnprotected(e, s) ==
    LET taken  == IF AlwaysPends(s) THEN Restamp(e, s) ELSE ClearPending(e, s)
        marked == MarkPosts(taken, TypeOf[s])
    IN  IF marked.enabled[s] = "oneshot" THEN SourceSetEnabled(marked, s, "off") ELSE marked

(* source_dispatch up to the callback; the loop protects itself with a     *)
(* reference (PROTECT_EVENT).                                              *)
SourceDispatchBegin(e, s) ==
    LET taken  == IF AlwaysPends(s) THEN Restamp(e, s) ELSE ClearPending(e, s)
        marked == MarkPosts(taken, TypeOf[s])
        once   == IF marked.enabled[s] = "oneshot" THEN SourceSetEnabled(marked, s, "off") ELSE marked
    IN  [once EXCEPT !.nRef = @ + 1]

(* After any callback: an error exits the loop or turns the source off, and *)
(* a source that lost its last reference meanwhile is freed.               *)
CallbackDone(e, s, failed) ==
    LET x == IF failed /\ s \in ExitOnFailure THEN [e EXCEPT !.exitRequested = TRUE] ELSE e
    IN  CASE x.srcRef[s] = 0 -> SourceFree(x, s)
          [] x.srcRef[s] # 0 /\ failed -> SourceSetEnabled(x, s, "off")
          [] OTHER -> x

-----------------------------------------------------------------------------
Init ==
    /\ ev = [state |-> "initial", exitRequested |-> FALSE, freed |-> FALSE, nRef |-> 1,
             sources |-> {}, pendingQ |-> {}, prepareQ |-> {}, exitQ |-> {}, posts |-> {},
             epoll |-> [s \in Sources |-> "none"], fresh |-> {}, older |-> {},
             alloc |-> {}, srcRef |-> [s \in Sources |-> 0], floating |-> {},
             enabled |-> [s \in Sources |-> "off"], prio |-> [s \in Sources |-> NormalPriority],
             pending |-> {}, prepare |-> {}, prepared |-> {}]
    /\ active = NoSource
    /\ held = [s \in Sources |-> 0]
    /\ evHeld = 1
    /\ ready = {}

(* The loop's own steps run while no callback is on the stack.             *)
LoopTurn(state) == active = NoSource /\ ~ev.freed /\ ev.state = state

-----------------------------------------------------------------------------
(* sd_event_prepare.                                                       *)

ExitDue(e) == e.exitRequested \/ (ExitOnIdle /\ LoopIdle(e))

(* With an exit requested nothing is prepared: straight to PENDING.        *)
PrepareExit ==
    /\ LoopTurn("initial")
    /\ ExitDue(ev)
    /\ ev' = [ev EXCEPT !.exitRequested = TRUE, !.state = "pending"]
    /\ UNCHANGED <<active, held, evHeld, ready>>

PrepareBegin ==
    /\ LoopTurn("initial")
    /\ ~ExitDue(ev)
    /\ ev' = [ev EXCEPT !.fresh = {}, !.prepared = {}, !.state = "preparing", !.nRef = @ + 1]
    /\ UNCHANGED <<active, held, evHeld, ready>>

(* event_prepare takes the next prepare callback ...                       *)
PrepareCallback(s) ==
    /\ LoopTurn("preparing")
    /\ s \in Unprepared(ev)
    /\ ev' = [ev EXCEPT !.prepared = @ \union {s}]
    /\ active' = s
    /\ UNCHANGED <<held, evHeld, ready>>

(* ... and picks up after it.                                              *)
PrepareReturn(failed) ==
    /\ ev.state = "preparing"
    /\ active # NoSource
    /\ ev' = CallbackDone(ev, active, failed)
    /\ active' = NoSource
    /\ UNCHANGED <<held, evHeld, ready>>

(* The rest of sd_event_prepare: with something pending already, it polls  *)
(* without blocking in the same call (sd_event_wait(e, 0)).                *)
PrepareEnd ==
    /\ LoopTurn("preparing")
    /\ Unprepared(ev) = {}
    /\ ev' = LET polled == IF ev.exitRequested THEN ev ELSE ProcessEpoll(ev)
             IN  IF NextPending(ev) = {}
                 THEN EventUnref([ev EXCEPT !.state = "armed"])
                 ELSE EventUnref([polled EXCEPT !.state = "pending"])
    /\ UNCHANGED <<active, held, evHeld, ready>>

-----------------------------------------------------------------------------
(* sd_event_wait.                                                          *)

WaitExit ==
    /\ LoopTurn("armed")
    /\ ev.exitRequested
    /\ ev' = [ev EXCEPT !.state = "pending"]
    /\ UNCHANGED <<active, held, evHeld, ready>>

WaitReported ==
    /\ LoopTurn("armed")
    /\ ~ev.exitRequested
    /\ Reported(ev) # {}
    /\ ev' = LET polled == ProcessEpoll(ev)
             IN  [polled EXCEPT !.state = IF NextPending(polled) # {} THEN "pending" ELSE "initial"]
    /\ UNCHANGED <<active, held, evHeld, ready>>

(* The timeout passes with nothing reported.                               *)
WaitTimeout ==
    /\ "timeout" \in Calls
    /\ LoopTurn("armed")
    /\ ~ev.exitRequested
    /\ Reported(ev) = {}
    /\ ev' = [ev EXCEPT !.state = IF NextPending(ev) # {} THEN "pending" ELSE "initial"]
    /\ UNCHANGED <<active, held, evHeld, ready>>

(* epoll_wait is interrupted by a signal handler: -EINTR.                  *)
WaitInterrupted ==
    /\ "timeout" \in Calls
    /\ LoopTurn("armed")
    /\ ~ev.exitRequested
    /\ ev' = [ev EXCEPT !.state = "pending"]
    /\ UNCHANGED <<active, held, evHeld, ready>>

-----------------------------------------------------------------------------
(* sd_event_dispatch.                                                      *)

Dispatch(s) ==
    /\ LoopTurn("pending")
    /\ ~ev.exitRequested
    /\ s \in NextPending(ev)
    /\ ev' = [SourceDispatchBegin(ev, s) EXCEPT !.state = "running"]
    /\ active' = s
    /\ UNCHANGED <<held, evHeld, ready>>

DispatchNothing ==
    /\ LoopTurn("pending")
    /\ ~ev.exitRequested
    /\ NextPending(ev) = {}
    /\ ev' = [ev EXCEPT !.state = "initial"]
    /\ UNCHANGED <<active, held, evHeld, ready>>

(* dispatch_exit, which starts an iteration of its own.                    *)
DispatchExit(s) ==
    /\ LoopTurn("pending")
    /\ ev.exitRequested
    /\ s \in NextExit(ev)
    /\ ev' = SourceDispatchBegin([ev EXCEPT !.fresh = {}, !.prepared = {}, !.state = "exiting"], s)
    /\ active' = s
    /\ UNCHANGED <<held, evHeld, ready>>

Finish ==
    /\ LoopTurn("pending")
    /\ ev.exitRequested
    /\ NextExit(ev) = {}
    /\ ev' = [ev EXCEPT !.state = "finished"]
    /\ UNCHANGED <<active, held, evHeld, ready>>

(* Faulty: post sources are only marked before the callback.               *)
DispatchReturnForgetsPosts(failed) ==
    /\ ev.state \in {"running", "exiting"}
    /\ active # NoSource
    /\ ev' = EventUnref([CallbackDone(ev, active, failed) EXCEPT !.state = "initial"])
    /\ active' = NoSource
    /\ UNCHANGED <<held, evHeld, ready>>

(* source_dispatch after the callback, and the end of sd_event_dispatch.   *)
DispatchReturn(failed) ==
    /\ ev.state \in {"running", "exiting"}
    /\ active # NoSource
    /\ ev' = LET done == MarkPosts(CallbackDone(ev, active, failed), TypeOf[active])
             IN  EventUnref([done EXCEPT !.state = "initial"])
    /\ active' = NoSource
    /\ UNCHANGED <<held, evHeld, ready>>

-----------------------------------------------------------------------------
(* The program: calls it makes from a callback, or between two steps of    *)
(* the loop.  It passes pointers it holds a reference on, or the one its   *)
(* callback was handed.                                                    *)

MayCall(call) ==
    /\ call \in Calls
    /\ active # NoSource \/ ev.freed \/ ev.state \in UserStates

Usable(s) == s \in ev.sources /\ (held[s] > 0 \/ active = s)

LoopUsable == ~ev.freed /\ (evHeld > 0 \/ active # NoSource)

(* sd_event_add_io, _defer, _post, _exit; without a return pointer the     *)
(* source is floating and the program gets no reference.                   *)
Add(s, float) ==
    /\ MayCall("add")
    /\ LoopUsable
    /\ ev.state # "finished"
    /\ s \notin ev.alloc
    /\ ev' = SourceAdd(ev, s, float)
    /\ held' = [held EXCEPT ![s] = IF float THEN 0 ELSE 1]
    /\ UNCHANGED <<active, evHeld, ready>>

Ref(s) ==
    /\ MayCall("ref")
    /\ held[s] > 0 \/ (active = s /\ ev.srcRef[s] > 0)
    /\ held[s] < MaxRef
    /\ ev' = [ev EXCEPT !.srcRef[s] = @ + 1]
    /\ held' = [held EXCEPT ![s] = @ + 1]
    /\ UNCHANGED <<active, evHeld, ready>>

Unref(s) ==
    /\ MayCall("unref")
    /\ held[s] > 0
    /\ ev' = SourceUnref(ev, s, active)
    /\ held' = [held EXCEPT ![s] = @ - 1]
    /\ UNCHANGED <<active, evHeld, ready>>

(* "enable exits" stands for enabling exit sources, over and over.         *)
SetEnabled(s, m) ==
    /\ MayCall("enable")
    /\ Usable(s)
    /\ TypeOf[s] = "exit" /\ m # "off" => "enable exits" \in Calls
    /\ ev' = SourceSetEnabled(ev, s, m)
    /\ UNCHANGED <<active, held, evHeld, ready>>

SetPriority(s, p) ==
    /\ MayCall("priority")
    /\ Usable(s)
    /\ ev.state # "finished"
    /\ ev' = [ev EXCEPT !.prio[s] = p]
    /\ UNCHANGED <<active, held, evHeld, ready>>

(* sd_event_source_set_io_events to a different mask: what was pending is  *)
(* forgotten and the registration armed anew.                              *)
SetIoEvents(s) ==
    /\ MayCall("ioevents")
    /\ Usable(s)
    /\ Io(s)
    /\ ev.state # "finished"
    /\ ev' = [ClearPending(ev, s) EXCEPT !.epoll[s] = IF Online(ev, s) THEN "armed" ELSE @]
    /\ UNCHANGED <<active, held, evHeld, ready>>

SetPrepare(s, on) ==
    /\ MayCall("prepare")
    /\ Usable(s)
    /\ TypeOf[s] # "exit"
    /\ ev.state # "finished"
    /\ ev' = IF on THEN [ev EXCEPT !.prepare = @ \union {s}, !.prepareQ = @ \union {s}]
                   ELSE [ev EXCEPT !.prepare = @ \ {s}, !.prepareQ = @ \ {s}]
    /\ UNCHANGED <<active, held, evHeld, ready>>

(* Faulty: a source that stops floating takes no reference on the loop.    *)
SetFloatingPinsNothing(s, on) ==
    /\ MayCall("floating")
    /\ Usable(s)
    /\ on # (s \in ev.floating)
    /\ ev' = IF on
             THEN EventUnref([ev EXCEPT !.floating = @ \union {s}, !.srcRef[s] = @ + 1])
             ELSE SourceUnref([ev EXCEPT !.floating = @ \ {s}], s, active)
    /\ UNCHANGED <<active, held, evHeld, ready>>

(* The loop's reference on a floating source replaces the source's on the  *)
(* loop; the old reference goes last.                                      *)
SetFloating(s, on) ==
    /\ MayCall("floating")
    /\ Usable(s)
    /\ on # (s \in ev.floating)
    /\ ev' = IF on
             THEN EventUnref([ev EXCEPT !.floating = @ \union {s}, !.srcRef[s] = @ + 1])
             ELSE SourceUnref([ev EXCEPT !.floating = @ \ {s}, !.nRef = @ + 1], s, active)
    /\ UNCHANGED <<active, held, evHeld, ready>>

(* sd_event_exit.                                                          *)
Exit ==
    /\ MayCall("exit")
    /\ LoopUsable
    /\ ev.state # "finished"
    /\ ev' = [ev EXCEPT !.exitRequested = TRUE]
    /\ UNCHANGED <<active, held, evHeld, ready>>

EventRef ==
    /\ MayCall("eventref")
    /\ LoopUsable
    /\ evHeld < MaxRef
    /\ ev' = [ev EXCEPT !.nRef = @ + 1]
    /\ evHeld' = evHeld + 1
    /\ UNCHANGED <<active, held, ready>>

EventUnrefUser ==
    /\ MayCall("eventref")
    /\ evHeld > 0
    /\ ev' = EventUnref(ev)
    /\ evHeld' = evHeld - 1
    /\ UNCHANGED <<active, held, ready>>

(* The peer makes a fd readable; the program reads it empty.               *)
FdReady(s) ==
    /\ Io(s)
    /\ s \in ev.sources \ ready
    /\ ready' = ready \union {s}
    /\ UNCHANGED <<ev, active, held, evHeld>>

FdDrain(s) ==
    /\ MayCall("drain")
    /\ s \in ready
    /\ ready' = ready \ {s}
    /\ UNCHANGED <<ev, active, held, evHeld>>

-----------------------------------------------------------------------------
LoopStep ==
    \/ PrepareExit \/ PrepareBegin \/ PrepareEnd
    \/ WaitExit \/ WaitReported \/ WaitTimeout \/ WaitInterrupted
    \/ DispatchNothing \/ Finish
    \/ \E s \in Sources : PrepareCallback(s) \/ Dispatch(s) \/ DispatchExit(s)

CallbackReturn == \E failed \in BOOLEAN : PrepareReturn(failed) \/ DispatchReturn(failed)

ProgramCall ==
    \/ Exit \/ EventRef \/ EventUnrefUser
    \/ \E s \in Sources :
         \/ Ref(s) \/ Unref(s) \/ SetIoEvents(s) \/ FdDrain(s)
         \/ \E b \in BOOLEAN : Add(s, b) \/ SetPrepare(s, b) \/ SetFloating(s, b)
         \/ \E m \in Modes : SetEnabled(s, m)
         \/ \E p \in Priorities : SetPriority(s, p)

Next ==
    \/ LoopStep
    \/ CallbackReturn
    \/ ProgramCall
    \/ \E s \in Sources : FdReady(s)

Spec == Init /\ [][Next]_vars

(* sd_event_loop calls the loop's steps one after the other, and callbacks *)
(* return.  Nothing is assumed of the program's calls, of its fds or of    *)
(* the success of its callbacks.                                           *)
FairSpec == Spec /\ WF_vars(LoopStep) /\ WF_vars(CallbackReturn)

-----------------------------------------------------------------------------
(* Properties.                                                             *)

EvType ==
    [state : LoopStates, exitRequested : BOOLEAN, freed : BOOLEAN, nRef : Nat,
     sources : SUBSET Sources, pendingQ : SUBSET Sources, prepareQ : SUBSET Sources,
     exitQ : SUBSET Sources, posts : SUBSET Sources,
     epoll : [Sources -> {"none", "armed", "spent"}],
     fresh : SUBSET Sources, older : SUBSET (Sources \X Sources),
     alloc : SUBSET Sources, srcRef : [Sources -> Nat], floating : SUBSET Sources,
     enabled : [Sources -> Modes], prio : [Sources -> Priorities],
     pending : SUBSET Sources, prepare : SUBSET Sources, prepared : SUBSET Sources]

(* Every field keeps its type; in particular no reference count of a       *)
(* source or of the loop is ever dropped below zero.                       *)
TypeOK ==
    /\ ev \in EvType
    /\ active \in Sources \union {NoSource}
    /\ held \in [Sources -> Nat]
    /\ evHeld \in Nat
    /\ ready \subseteq Sources

(* The pointers the loop keeps: every queue, the post set and the epoll    *)
(* set hold exactly the connected sources whose own flags say so, and a    *)
(* connected source is allocated.  prioq_remove and epoll_ctl in           *)
(* source_disconnect leave no dangling pointer behind, whatever the order  *)
(* in which a source was disabled, made floating, unreferenced and freed.  *)
QueuesExact(e) ==
    /\ e.sources \union e.pending \union e.prepare \union e.floating \subseteq e.alloc
    /\ e.pendingQ = e.sources \intersect e.pending
    /\ e.prepareQ = e.sources \intersect e.prepare
    /\ e.exitQ = {s \in e.sources : TypeOf[s] = "exit"}
    /\ e.posts = {s \in e.sources : TypeOf[s] = "post"}
    /\ e.fresh \subseteq e.pendingQ
    /\ e.older \subseteq e.pendingQ \X e.pendingQ
    /\ \A s \in Sources : e.epoll[s] # "none" => s \in e.sources /\ Io(s)

NoDanglingPointers == QueuesExact(ev)

(* Reference counts are exact: a source counts the program's references    *)
(* and, while it is connected and floating, the loop's; the loop counts    *)
(* the program's, one per connected source that is not floating, and the   *)
(* one its own calls protect it with.  What a reference keeps is allocated *)
(* and what nothing keeps is freed - except the source whose callback is   *)
(* running.                                                                *)
Protected == ev.state \in {"preparing", "running", "exiting"}

RefCountsExact ==
    /\ \A s \in Sources :
           ev.srcRef[s] = held[s] + IF s \in ev.sources \intersect ev.floating THEN 1 ELSE 0
    /\ \A s \in Sources : s \in ev.alloc <=> ev.srcRef[s] > 0 \/ s = active
    /\ ev.nRef = evHeld + Cardinality(ev.sources \ ev.floating) + IF Protected THEN 1 ELSE 0
    /\ ev.freed <=> ev.nRef = 0
    /\ ev.freed => ev.sources = {}

(* "defer and exit event sources are always pending from the moment        *)
(* they're added" (source_dispatch): no call sequence takes a connected    *)
(* defer source out of the pending queue.                                  *)
DeferAlwaysPending(e) == \A s \in e.sources : TypeOf[s] = "defer" => s \in e.pendingQ

(* A disabled source has nothing pending, so that enabling it again does   *)
(* not dispatch an event from before.                                      *)
NothingPendingWhenOff(e) ==
    \A s \in e.sources : ~Online(e, s) /\ ~AlwaysPends(s) => s \notin e.pendingQ

(* No lost wakeup: an enabled IO source either has its event queued or its *)
(* registration armed, and a disabled one is not registered.               *)
IoWatched(e) ==
    \A s \in e.sources :
        Io(s) => IF Online(e, s)
                 THEN e.epoll[s] = "armed" \/ (e.epoll[s] = "spent" /\ s \in e.pendingQ)
                 ELSE e.epoll[s] = "none"

PendingExact == DeferAlwaysPending(ev) /\ NothingPendingWhenOff(ev) /\ IoWatched(ev)

(* The loop finishes only when no exit source is left enabled, and stays   *)
(* so: nothing can be enabled on a finished loop.                          *)
FinishedMeansExitsDone ==
    ev.state = "finished" /\ ~ev.freed => \A s \in ev.exitQ : ~Online(ev, s)

(* When a callback other than a post source's returns, every enabled post  *)
(* source is pending, those the callback added or enabled included.        *)
PostFollowsDispatch ==
    [][active # NoSource /\ ev.state \in {"running", "exiting"} /\ active' = NoSource
       /\ TypeOf[active] # "post"
         => \A z \in ev'.posts : Online(ev', z) => z \in ev'.pendingQ]_vars

(* No starvation among equals: with one priority in use, whatever is       *)
(* pending and stays enabled is dispatched, however many defer sources     *)
(* keep the loop busy - it is stamped when it becomes pending, and they    *)
(* are restamped behind it when they are dispatched.                       *)
PendingIsServed ==
    \A s \in Sources :
        (s \in ev.pendingQ /\ Online(ev, s))
            ~> (active = s \/ s \notin ev.pendingQ \/ ~Online(ev, s) \/ ev.exitRequested)

(* An enabled IO source whose fd is ready gets its callback, unless the    *)
(* program disables it, drains the fd or exits first.                      *)
ReadyIsServed ==
    \A s \in Sources :
        (s \in ready \intersect ev.sources /\ Online(ev, s))
            ~> (active = s \/ s \notin ready \intersect ev.sources \/ ~Online(ev, s) \/ ev.exitRequested)

(* Once an exit was requested the loop finishes, after the exit sources,   *)
(* whatever else is pending or ready - as long as the program does not     *)
(* enable exit sources over and over.                                      *)
ExitFinishes == ev.exitRequested ~> ev.state = "finished"

(* The loop implements what it promises: LoopProtocol, in which at most    *)
(* one callback runs, of the class its state allows, an exit request is    *)
(* final, and PROTECT_EVENT keeps the loop's memory until a step is over.  *)
CallbackClass ==
    CASE active = NoSource -> "none"
      [] active # NoSource /\ ev.state = "preparing" -> "prepare"
      [] active # NoSource /\ ev.state # "preparing" /\ TypeOf[active] = "exit" -> "exit"
      [] OTHER -> "event"

Protocol == INSTANCE LoopProtocol WITH
    state <- ev.state, exitRequested <- ev.exitRequested,
    freed <- ev.freed, callback <- CallbackClass

ImplementsLoopProtocol == Protocol!Spec
=============================================================================
