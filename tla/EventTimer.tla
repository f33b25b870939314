------------------------------ MODULE EventTimer ------------------------------
(***************************************************************************)
(* Timers and rate limits of src/src/libsystemd/sd-event/sd-event.c: time  *)
(* sources on two clocks, IO sources that may be rate limited, the two     *)
(* prioqs of every clock (by the earliest and by the latest time a source  *)
(* may elapse), the timerfd of every clock, and the steps of the loop that *)
(* arm, flush and evaluate them.                                           *)
(*                                                                         *)
(* A rate limited source waits in the prioqs of CLOCK_BOOTTIME for the end *)
(* of its window, whatever its own clock is.  needs_rearm (rearm here) and *)
(* the value the timerfd was last set to (armed) are what keeps the loop   *)
(* from sleeping too long.  The prioqs are the heaps of Prioq.  All        *)
(* sources have the same priority, so pending ones are queued by their     *)
(* pending_iteration alone: fresh holds those of the current iteration,    *)
(* pendingQ is a sequence of sets, one for each earlier one.               *)
(*                                                                         *)
(* Time is one counter both clocks follow.  An IO source's fd is always    *)
(* readable: the busy source a rate limit is for.                          *)
(***************************************************************************)
EXTENDS SleepBetween, FiniteSets, SequencesExt

CONSTANTS
    Sources,      \* names for event sources
    ClockOf,      \* the clock of each: "boottime", "monotonic", or "none" for an IO source
    Accuracy,     \* s->time.accuracy
    Interval,     \* s->rate_limit.interval, 0 without a rate limit
    Burst,        \* s->rate_limit.burst
    OnExpiry,     \* the sources with a ratelimit_expire_callback
    Calls,        \* the API calls the program makes
    Times,        \* the times the program sets timers to
    MaxTime,      \* bound: the clocks stop here
    ChildEvents,  \* whether child processes make the loop poll a second time
    NoSource

Clocks == {"boottime", "monotonic"}
Modes  == {"off", "on", "oneshot"}

ASSUME ClockOfAssumption == ClockOf \in [Sources -> Clocks \union {"none"}]
ASSUME LimitAssumption   == Interval \in [Sources -> Nat] /\ Burst \in [Sources -> Nat]
ASSUME TimeAssumption    == Times \subseteq 1..MaxTime \union {Infinity}
                            /\ \A s \in Sources : MaxTime + Accuracy[s] + Interval[s] < Infinity

VARIABLES
    tm,       \* the loop's timer state and its sources
    now,      \* the clocks
    stamp,    \* e->timestamp, taken by the first process_epoll of a wait and kept for its length
    pc,       \* where the loop is
    polling,  \* sd_event_wait was called by sd_event_prepare, without blocking
    expired,  \* a ratelimit_expire_callback ran during this wait
    active    \* the source whose callback is running

vars == <<tm, now, stamp, pc, polling, expired, active>>

Q == INSTANCE Prioq

Timer(s)      == ClockOf[s] # "none"
Limitable(s)  == Interval[s] > 0 /\ Burst[s] > 0
On(e, s)      == e.enabled[s] # "off"
Online(e, s)  == On(e, s) /\ s \notin e.limited
Pending(e, s) == s \in e.fresh \/ \E older \in ToSet(e.pendingQ) : s \in older

(* event_next_pending: an oldest pending source, online ones first.  Which *)
(* one of the same iteration is the heap's choice.                         *)
NextPending(e) ==
    LET ready(group) == {s \in group : Online(e, s)}
        queued == SelectSeq(Append(e.pendingQ, e.fresh), LAMBDA group : ready(group) # {})
    IN  IF queued = <<>> THEN {} ELSE ready(Head(queued))

-----------------------------------------------------------------------------
(* When a source elapses, and the order of the prioqs.                     *)

WindowEnd(e, s) == e.begin[s] + Interval[s]

(* time_event_source_next.                                                 *)
ElapsesAt(e, s) ==
    CASE s \in e.limited -> WindowEnd(e, s)
      [] s \notin e.limited /\ Timer(s) -> e.next[s]
      [] OTHER -> Infinity

(* time_event_source_latest.                                               *)
LatestAt(e, s) ==
    CASE s \in e.limited -> WindowEnd(e, s)
      [] s \notin e.limited /\ Timer(s) /\ e.next[s] # Infinity -> e.next[s] + Accuracy[s]
      [] OTHER -> Infinity

(* event_source_timer_candidate.                                           *)
Candidate(e, s) == ~Pending(e, s) \/ s \in e.limited

(* time_prioq_compare(a, b) < 0, with the times they elapse at.            *)
Precedes(e, a, b, timeA, timeB) ==
    \/ On(e, a) /\ ~On(e, b)
    \/ /\ On(e, a) <=> On(e, b)
       /\ \/ Candidate(e, a) /\ ~Candidate(e, b)
          \/ (Candidate(e, a) <=> Candidate(e, b)) /\ timeA < timeB

EarliestOrder(e) ==
    {p \in Sources \X Sources :
        Precedes(e, p[1], p[2], ElapsesAt(e, p[1]), ElapsesAt(e, p[2]))}

LatestOrder(e) ==
    {p \in Sources \X Sources :
        Precedes(e, p[1], p[2], LatestAt(e, p[1]), LatestAt(e, p[2]))}

TimePut(e, s, c) ==
    [e EXCEPT !.earliest[c] = Q!Put(@, s, EarliestOrder(e)),
              !.latest[c]   = Q!Put(@, s, LatestOrder(e)),
              !.rearm       = @ \union {c}]

TimeRemove(e, s, c) ==
    [e EXCEPT !.earliest[c] = Q!Remove(@, s, EarliestOrder(e)),
              !.latest[c]   = Q!Remove(@, s, LatestOrder(e)),
              !.rearm       = @ \union {c}]

(* Faulty: the timerfd keeps the value it was armed with.                  *)
ReshuffleWithoutRearm(e, s) ==
    LET c == IF s \in e.limited THEN "boottime" ELSE ClockOf[s]
    IN  IF c = "none" THEN e
        ELSE [e EXCEPT !.earliest[c] = Q!Reshuffle(@, s, EarliestOrder(e)),
                       !.latest[c]   = Q!Reshuffle(@, s, LatestOrder(e))]

(* Faulty: only the earliest prioq is put in order.                        *)
ReshuffleEarliestOnly(e, s) ==
    LET c == IF s \in e.limited THEN "boottime" ELSE ClockOf[s]
    IN  IF c = "none" THEN e
        ELSE [e EXCEPT !.earliest[c] = Q!Reshuffle(@, s, EarliestOrder(e)),
                       !.rearm       = @ \union {c}]

(* event_source_time_prioq_reshuffle.                                      *)
TimeReshuffle(e, s) ==
    LET c == IF s \in e.limited THEN "boottime" ELSE ClockOf[s]
    IN  IF c = "none" THEN e
        ELSE [e EXCEPT !.earliest[c] = Q!Reshuffle(@, s, EarliestOrder(e)),
                       !.latest[c]   = Q!Reshuffle(@, s, LatestOrder(e)),
                       !.rearm       = @ \union {c}]

(* A source is taken out of the queue of pending ones.                     *)
Unqueued(e, s) ==
    LET left == [k \in DOMAIN e.pendingQ |-> e.pendingQ[k] \ {s}]
    IN  [e EXCEPT !.fresh = @ \ {s}, !.pendingQ = SelectSeq(left, LAMBDA group : group # {})]

(* source_set_pending.                                                     *)
SetPending(e, s, b) ==
    IF b = Pending(e, s) THEN e
    ELSE LET d == IF b THEN [e EXCEPT !.fresh = @ \union {s}] ELSE Unqueued(e, s)
         IN  IF Timer(s) THEN TimeReshuffle(d, s) ELSE d

-----------------------------------------------------------------------------
(* Online, offline, and in and out of a rate limit.                        *)

(* Faulty: the source keeps the place its old flags gave it.               *)
OfflineInPlace(e, s, m, limited) ==
    LET d == IF On(e, s) /\ m = "off" THEN SetPending(e, s, FALSE) ELSE e
    IN  [d EXCEPT !.enabled[s] = m,
                  !.limited    = IF limited THEN @ \union {s} ELSE @ \ {s}]

EventSourceOffline(e, s, m, limited) ==
    LET d == IF On(e, s) /\ m = "off" THEN SetPending(e, s, FALSE) ELSE e
    IN  TimeReshuffle([d EXCEPT !.enabled[s] = m,
                                !.limited    = IF limited THEN @ \union {s} ELSE @ \ {s}], s)

(* A source that is not ready to go online only has its flags updated.     *)
EventSourceOnline(e, s, m, limited) ==
    LET d == IF ~On(e, s) /\ m # "off" THEN SetPending(e, s, FALSE) ELSE e
        f == [d EXCEPT !.enabled[s] = m,
                       !.limited    = IF limited THEN @ \union {s} ELSE @ \ {s}]
    IN  IF m = "off" \/ limited THEN f ELSE TimeReshuffle(f, s)

(* sd_event_source_set_enabled.                                            *)
SourceSetEnabled(e, s, m) ==
    CASE e.enabled[s] = m -> e
      [] e.enabled[s] # m /\ m = "off" -> EventSourceOffline(e, s, m, s \in e.limited)
      [] OTHER -> EventSourceOnline(e, s, m, s \in e.limited)

(* Faulty: a timer stays in the prioqs of its own clock as well.           *)
EnterKeepsOwnClock(e, s) ==
    EventSourceOffline(TimePut(e, s, "boottime"), s, e.enabled[s], TRUE)

EnterRatelimited(e, s) ==
    LET off == IF Timer(s) THEN TimeRemove(e, s, ClockOf[s]) ELSE e
    IN  EventSourceOffline(TimePut(off, s, "boottime"), s, e.enabled[s], TRUE)

(* Faulty: a timer does not come back to its own clock.                    *)
LeaveWithoutClock(e, s) ==
    [EventSourceOnline(TimeRemove(e, s, "boottime"), s, e.enabled[s], FALSE) EXCEPT
        !.begin[s] = 0, !.num[s] = 0]

(* event_source_leave_ratelimit up to the callback.                        *)
LeaveRatelimit(e, s) ==
    LET off  == TimeRemove(e, s, "boottime")
        back == IF Timer(s) THEN TimePut(off, s, ClockOf[s]) ELSE off
    IN  [EventSourceOnline(back, s, e.enabled[s], FALSE) EXCEPT !.begin[s] = 0, !.num[s] = 0]

(* ratelimit_below: a first call, or one after the window, opens a window. *)
NewWindow(e, s) == e.begin[s] = 0 \/ now - e.begin[s] > Interval[s]

Below(e, s) == ~Limitable(s) \/ NewWindow(e, s) \/ e.num[s] < Burst[s]

Counted(e, s) ==
    CASE ~Limitable(s) -> e
      [] Limitable(s) /\ NewWindow(e, s) -> [e EXCEPT !.begin[s] = now, !.num[s] = 1]
      [] OTHER -> [e EXCEPT !.num[s] = @ + 1]

-----------------------------------------------------------------------------
(* Arming, flushing and evaluating a clock.                                *)

Earliest(e, c) == Q!Peek(e.earliest[c])
Latest(e, c)   == Q!Peek(e.latest[c])

NothingToWaitFor(e, c) ==
    \/ Q!IsEmpty(e.earliest[c])
    \/ ~On(e, Earliest(e, c))
    \/ ElapsesAt(e, Earliest(e, c)) = Infinity

(* When sleep_between wakes the loop up, for one perturb or another.       *)
Wakes ==
    [a, b \in 0..Infinity |-> {SleepBetween(a, b, perturb) : perturb \in 0..Steps[1]-1}]

(* What event_arm_timer sets the timerfd to.                               *)
WakeTimes(e, c) ==
    CASE c \notin e.rearm -> {e.armed[c]}
      [] c \in e.rearm /\ NothingToWaitFor(e, c) -> {Infinity}
      [] OTHER -> Wakes[ElapsesAt(e, Earliest(e, c)), LatestAt(e, Latest(e, c))]

Elapsed(e) == {c \in Clocks : e.armed[c] <= now}

(* flush_timer reads the expired timerfds, which then are disarmed.        *)
FlushTimers(e) ==
    [e EXCEPT !.armed = [c \in Clocks |-> IF c \in Elapsed(e) THEN Infinity ELSE @[c]]]

Readable(e) == {s \in e.sources : ~Timer(s) /\ Online(e, s)}

(* Faulty: a rate limited source that is still pending is passed over.     *)
DueUnlessPending(e, c) ==
    /\ ~Q!IsEmpty(e.earliest[c])
    /\ ElapsesAt(e, Earliest(e, c)) <= stamp
    /\ On(e, Earliest(e, c)) /\ ~Pending(e, Earliest(e, c))

(* process_timer's next source, if there is one to process.                *)
Due(e, c) ==
    /\ ~Q!IsEmpty(e.earliest[c])
    /\ ElapsesAt(e, Earliest(e, c)) <= stamp
    /\ \/ Earliest(e, c) \in e.limited
       \/ On(e, Earliest(e, c)) /\ ~Pending(e, Earliest(e, c))

-----------------------------------------------------------------------------
Init ==
    /\ tm = [sources |-> {}, enabled |-> [s \in Sources |-> "off"],
             pendingQ |-> <<>>, fresh |-> {}, next |-> [s \in Sources |-> Infinity], limited |-> {},
             begin |-> [s \in Sources |-> 0], num |-> [s \in Sources |-> 0],
             earliest |-> [c \in Clocks |-> Q!EmptyQueue(Sources)],
             latest |-> [c \in Clocks |-> Q!EmptyQueue(Sources)],
             rearm |-> {}, armed |-> [c \in Clocks |-> Infinity]]
    /\ now = 1
    /\ stamp = 0
    /\ pc = "initial"
    /\ polling = FALSE
    /\ expired = FALSE
    /\ active = NoSource

LoopAt(place) == pc = place /\ active = NoSource

(* The next iteration: whatever is pending is older than what is to come.  *)
Iterate(e) ==
    [e EXCEPT !.fresh = {},
              !.pendingQ = IF e.fresh = {} THEN @ ELSE Append(@, e.fresh)]

(* sd_event_prepare arms the timers; with a source pending already it goes *)
(* on to poll without blocking.                                            *)
Prepare ==
    /\ LoopAt("initial")
    /\ \E boot \in WakeTimes(tm, "boottime"), mono \in WakeTimes(tm, "monotonic") :
          tm' = [Iterate(tm) EXCEPT !.armed = [boottime |-> boot, monotonic |-> mono],
                                    !.rearm = {}]
    /\ pc' = "armed"
    /\ polling' = (NextPending(tm) # {})
    /\ UNCHANGED <<now, stamp, expired, active>>

(* sd_event_wait and its first process_epoll.                              *)
Wait ==
    /\ LoopAt("armed")
    /\ polling \/ Elapsed(tm) # {} \/ Readable(tm) # {} \/ ChildEvents \/ "timeout" \in Calls
    /\ tm' = [FlushTimers(tm) EXCEPT !.fresh = @ \union {s \in Readable(tm) : ~Pending(tm, s)}]
    /\ stamp' = now
    /\ pc' \in IF ChildEvents THEN {"boottime", "polled"} ELSE {"boottime"}
    /\ UNCHANGED <<now, polling, expired, active>>

(* A child event makes sd_event_wait call process_epoll once more, for     *)
(* events of higher priority and with the timestamp of the first call.     *)
PollAgain ==
    /\ LoopAt("polled")
    /\ tm' = FlushTimers(tm)
    /\ pc' = "boottime"
    /\ UNCHANGED <<now, stamp, polling, expired, active>>

(* process_timer: a rate limit is over ...                                 *)
WindowEnds ==
    /\ LoopAt("boottime")
    /\ Due(tm, "boottime")
    /\ LET s == Earliest(tm, "boottime") IN
          /\ s \in tm.limited
          /\ tm' = LeaveRatelimit(tm, s)
          /\ IF s \in OnExpiry
             THEN active' = s /\ expired' = TRUE
             ELSE UNCHANGED <<active, expired>>
    /\ UNCHANGED <<now, stamp, pc, polling>>

ExpiryReturn ==
    /\ pc = "boottime"
    /\ active # NoSource
    /\ active' = NoSource
    /\ UNCHANGED <<tm, now, stamp, pc, polling, expired>>

(* ... or a timer has elapsed ...                                          *)
TimerElapses(c) ==
    /\ LoopAt(c)
    /\ Due(tm, c)
    /\ LET s == Earliest(tm, c) IN
          /\ s \notin tm.limited
          /\ tm' = TimeReshuffle(SetPending(tm, s, TRUE), s)
    /\ UNCHANGED <<now, stamp, pc, polling, expired, active>>

(* ... or the clock is done.                                               *)
ClockDone ==
    /\ LoopAt("boottime")
    /\ ~Due(tm, "boottime")
    /\ pc' = "monotonic"
    /\ UNCHANGED <<tm, now, stamp, polling, expired, active>>

(* The end of sd_event_wait.  When sd_event_prepare called it and it found *)
(* nothing to dispatch, the loop is armed and waits in earnest.  The       *)
(* timestamp is not looked at again before the next wait takes one.        *)
WaitDone ==
    /\ LoopAt("monotonic")
    /\ ~Due(tm, "monotonic")
    /\ pc' = CASE ~expired /\ NextPending(tm) # {} -> "pending"
               [] (expired \/ NextPending(tm) = {}) /\ polling -> "armed"
               [] OTHER -> "initial"
    /\ polling' = FALSE
    /\ expired' = FALSE
    /\ stamp' = 0
    /\ UNCHANGED <<tm, now, active>>

(* source_dispatch: a source over its limit is taken offline instead.      *)
DispatchLimited ==
    /\ LoopAt("pending")
    /\ \E s \in NextPending(tm) :
          /\ ~Below(tm, s)
          /\ tm' = EnterRatelimited(Counted(tm, s), s)
    /\ pc' = "initial"
    /\ UNCHANGED <<now, stamp, polling, expired, active>>

Dispatch ==
    /\ LoopAt("pending")
    /\ \E s \in NextPending(tm) :
          /\ Below(tm, s)
          /\ tm' = LET d == SetPending(Counted(tm, s), s, FALSE)
                   IN  IF d.enabled[s] = "oneshot" THEN SourceSetEnabled(d, s, "off") ELSE d
          /\ active' = s
    /\ pc' = "running"
    /\ UNCHANGED <<now, stamp, polling, expired>>

(* The callback returns; if it dropped its own source, all that is left to *)
(* do is to free the memory.                                               *)
DispatchReturn ==
    /\ pc = "running"
    /\ pc' = "initial"
    /\ active' = NoSource
    /\ UNCHANGED <<tm, now, stamp, polling, expired>>

-----------------------------------------------------------------------------
(* The program, from a callback or between two runs of the loop.           *)

MayCall(call) == call \in Calls /\ (active # NoSource \/ pc = "initial")

(* sd_event_add_time and sd_event_add_io.                                  *)
Add(s, t) ==
    /\ MayCall("add")
    /\ s \notin tm.sources
    /\ Timer(s) \/ t = Infinity
    /\ tm' = LET new == [tm EXCEPT !.sources = @ \union {s}, !.next[s] = t,
                                   !.enabled[s] = IF Timer(s) THEN "oneshot" ELSE "on"]
             IN  IF Timer(s) THEN TimePut(new, s, ClockOf[s]) ELSE new
    /\ UNCHANGED <<now, stamp, pc, polling, expired, active>>

(* source_disconnect, which leaves a rate limited source's own clock       *)
(* alone.                                                                  *)
Disconnected(e, s) ==
    LET c == IF s \in e.limited THEN "boottime" ELSE ClockOf[s]
        d == IF c = "none" THEN e ELSE TimeRemove(e, s, c)
    IN  [d EXCEPT !.sources = @ \ {s}, !.limited = @ \ {s}, !.enabled[s] = "off",
                  !.next[s] = Infinity, !.begin[s] = 0, !.num[s] = 0]

(* Faulty: the source stays in the queue of pending ones.                  *)
DisconnectKeepsPending(s) ==
    /\ MayCall("unref")
    /\ s \in tm.sources
    /\ tm' = Disconnected(tm, s)
    /\ UNCHANGED <<now, stamp, pc, polling, expired, active>>

(* The last reference goes.  A source whose own callback drops it is       *)
(* disconnected at once, like any other; only its memory stays until the   *)
(* callback has returned.                                                  *)
Disconnect(s) ==
    /\ MayCall("unref")
    /\ s \in tm.sources
    /\ tm' = Unqueued(Disconnected(tm, s), s)
    /\ UNCHANGED <<now, stamp, pc, polling, expired, active>>

(* "reenable" stands for enabling a source that was disabled while it is   *)
(* rate limited, which the code allows: EventSourceOnline then changes the *)
(* flags without a reshuffle.                                              *)
SetEnabled(s, m) ==
    /\ MayCall("enable")
    /\ s \in tm.sources
    /\ s \in tm.limited /\ ~On(tm, s) => "reenable" \in Calls
    /\ tm' = SourceSetEnabled(tm, s, m)
    /\ UNCHANGED <<now, stamp, pc, polling, expired, active>>

(* Faulty: a source that is pending already is still dispatched.           *)
SetTimeKeepsPending(s, t) ==
    /\ MayCall("time")
    /\ s \in tm.sources
    /\ Timer(s)
    /\ tm' = TimeReshuffle([tm EXCEPT !.next[s] = t], s)
    /\ UNCHANGED <<now, stamp, pc, polling, expired, active>>

(* "postpone" stands for setting a pending timer to a time that has passed *)
(* already, which takes its pending bit and with it its turn.              *)
SetTime(s, t) ==
    /\ MayCall("time")
    /\ s \in tm.sources
    /\ Timer(s)
    /\ Pending(tm, s) /\ t <= now => "postpone" \in Calls
    /\ tm' = TimeReshuffle([SetPending(tm, s, FALSE) EXCEPT !.next[s] = t], s)
    /\ UNCHANGED <<now, stamp, pc, polling, expired, active>>

(* sd_event_source_set_ratelimit with the same limit, and the part of it   *)
(* that sd_event_source_leave_ratelimit offers on its own.                 *)
SetRatelimit(s) ==
    /\ MayCall("ratelimit")
    /\ s \in tm.sources
    /\ tm' = IF s \in tm.limited
             THEN LeaveRatelimit(tm, s)
             ELSE [tm EXCEPT !.begin[s] = 0, !.num[s] = 0]
    /\ UNCHANGED <<now, stamp, pc, polling, expired, active>>

(* Time passes.                                                            *)
Tick ==
    /\ now < MaxTime
    /\ now' = now + 1
    /\ UNCHANGED <<tm, stamp, pc, polling, expired, active>>

-----------------------------------------------------------------------------
LoopStep ==
    \/ Prepare \/ Wait \/ PollAgain \/ WindowEnds \/ ClockDone \/ WaitDone
    \/ \E c \in Clocks : TimerElapses(c)
    \/ Dispatch \/ DispatchLimited

CallbackReturn == ExpiryReturn \/ DispatchReturn

ProgramCall ==
    \E s \in Sources :
        \/ Disconnect(s) \/ SetRatelimit(s)
        \/ \E m \in Modes : SetEnabled(s, m)
        \/ \E t \in Times : Add(s, t) \/ SetTime(s, t)

Next == LoopStep \/ CallbackReturn \/ ProgramCall \/ Tick

Spec == Init /\ [][Next]_vars

(* The loop runs, callbacks return and time passes, up to the bound.       *)
FairSpec == Spec /\ WF_vars(LoopStep) /\ WF_vars(CallbackReturn) /\ WF_vars(Tick)

-----------------------------------------------------------------------------
(* Properties.                                                             *)

TypeOK ==
    /\ tm.sources \subseteq Sources /\ tm.limited \subseteq tm.sources
    /\ tm.fresh \union UNION ToSet(tm.pendingQ) \subseteq tm.sources
    /\ tm.enabled \in [Sources -> Modes]
    /\ tm.next \in [Sources -> Times \union {Infinity}]
    /\ tm.begin \in [Sources -> 0..MaxTime] /\ tm.num \in [Sources -> Nat]
    /\ tm.rearm \subseteq Clocks /\ tm.armed \in [Clocks -> 1..Infinity]
    /\ now \in 1..MaxTime /\ stamp \in 0..MaxTime
    /\ pc \in {"initial", "armed", "polled", "pending", "running"} \union Clocks
    /\ polling \in BOOLEAN /\ expired \in BOOLEAN
    /\ active \in Sources \union {NoSource}

(* Every time source is in both prioqs of its clock and of no other, every *)
(* rate limited one in those of CLOCK_BOOTTIME instead, and nothing else   *)
(* is: the index fields of a source, which the clocks share, name one slot *)
(* each.                                                                   *)
OnClock(c) ==
    {s \in tm.sources : IF s \in tm.limited THEN c = "boottime" ELSE ClockOf[s] = c}

ClocksExact ==
    \A c \in Clocks : \A queue \in {tm.earliest[c], tm.latest[c]} :
        /\ Q!Members(queue) = OnClock(c)
        /\ Q!Size(queue) = Cardinality(OnClock(c))
        /\ Q!IndexExact(queue)

(* "Makes sure the two prioq's are ordered properly again"                 *)
(* (event_source_time_prioq_reshuffle): whatever changes about a source    *)
(* but one thing, the head of either prioq is the source to look at first. *)
(* Disabled sources only have to sort last.  The exception is a source     *)
(* enabled while it is rate limited ("reenable"): event_source_online      *)
(* changes its place without a reshuffle, and what is first may then be    *)
(* behind a disabled head.                                                 *)
HeadIsFirst(queue, order) ==
    ~Q!IsEmpty(queue) =>
        /\ On(tm, Q!Peek(queue)) =>
               \A s \in Q!Members(queue) : <<s, Q!Peek(queue)>> \notin order
        /\ ~On(tm, Q!Peek(queue)) => \A s \in Q!Members(queue) : ~On(tm, s)

QueuesOrdered ==
    \A c \in Clocks :
        /\ HeadIsFirst(tm.earliest[c], EarliestOrder(tm))
        /\ HeadIsFirst(tm.latest[c], LatestOrder(tm))

(* The loop never oversleeps: while it waits, the timerfd of a clock is    *)
(* armed for no later than the latest time of any enabled source that is   *)
(* to be looked at, the ends of rate limits included - though needs_rearm  *)
(* is all event_arm_timer goes by, and a timerfd that was read is disarmed *)
(* behind its back.  It holds as long as no source is enabled while it is  *)
(* rate limited, no child process makes the loop poll twice and no expiry  *)
(* callback runs.                                                          *)
ArmedInTime ==
    pc = "armed" /\ ~polling =>
        \A c \in Clocks : \A s \in OnClock(c) :
            On(tm, s) /\ Candidate(tm, s) => tm.armed[c] <= LatestAt(tm, s)

(* "Let's postpone processing pending sources and put the loop in the      *)
(* initial state" (sd_event_wait): the loop does not go to sleep on a      *)
(* source that is ready to be dispatched, though sd_event_prepare takes    *)
(* the return value of a poll that ran an expiry callback for "nothing     *)
(* pending".                                                               *)
NeverSleepsOnPending == pc = "armed" /\ ~polling => NextPending(tm) = {}

(* The assertions of event_arm_timer and sleep_between: when there is a    *)
(* time to wait for, the head of the other prioq is enabled and not        *)
(* earlier - as long as no source is enabled while it is rate limited,     *)
(* after which the two prioqs may disagree about which sources are off.    *)
ArmAssertionsHold ==
    \A c \in tm.rearm : pc = "initial" /\ ~NothingToWaitFor(tm, c) =>
        /\ On(tm, Latest(tm, c))
        /\ ElapsesAt(tm, Earliest(tm, c)) <= LatestAt(tm, Latest(tm, c))

(* No timer callback runs before its time, however the timer was moved,    *)
(* disabled or rate limited after it elapsed and before it was dispatched. *)
NeverEarly ==
    [][pc' = "running" /\ pc # "running" /\ Timer(active') => tm.next[active'] <= now]_vars

(* Every enabled timer is served: once its latest time has passed, its     *)
(* callback runs, unless the program moves, disables or removes it or a    *)
(* rate limit holds it up - which ends in its turn.                        *)
Overdue(s) ==
    s \in tm.sources \ tm.limited /\ On(tm, s) /\ LatestAt(tm, s) <= now

TimersFire == \A s \in Sources : Overdue(s) ~> (active = s \/ ~Overdue(s))

(* Every rate limit of an enabled source ends.                             *)
LimitsEnd ==
    \A s \in Sources :
        (s \in tm.limited /\ On(tm, s) /\ WindowEnd(tm, s) <= MaxTime)
            ~> (s \notin tm.limited \/ ~On(tm, s))
=============================================================================
