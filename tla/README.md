# TLA+ models of the libsystemd compatibility library

The repository builds `libsystemd` from a filtered systemd tree. Almost all of its stateful
logic is single threaded and driven by callbacks: an event loop (`sd-event`) calls the program,
the program calls back into the loop, and the same happens one level up in futures and fibers
(`sd-future`), D-Bus connections (`sd-bus`) and varlink connections (`sd-varlink`). There are no
locks and no data races to find; what is hard is what a callback may do to the object that is
calling it, what a queue or a timer remembers from before, and whether everything that has to
happen still happens. The models in this directory are about that.

Paths below are relative to the repository's root (`src/libsystemd/...`, `src/basic/...`);
PROJECT.json names the lines every definition stands for.

## 1. Inventory

| Part | State it keeps | Operations | Hard behaviours |
|---|---|---|---|
| Priority queue, `src/basic/prioq.c` | a heap array; each element's index lives in its owner | put, remove, pop, peek, reshuffle | the owner's index must follow every swap; the element moved into a hole may have to go up or down |
| Event loop, `sd-event/sd-event.c` | loop state, iteration, pending/prepare/exit prioqs, post set, epoll set, reference counts, exit flag | prepare, wait, dispatch, exit, ref/unref; per source: add, ref, unref, enable, priority, mask, prepare, floating | callbacks that free, disable, re-key or float any source or the loop itself; starvation; post and exit sources |
| Timers and rate limits, same file, and `src/basic/ratelimit.c` | per clock: two prioqs, the timerfd's value, `needs_rearm`; per source: next, accuracy, window, count | set time, enable, set/leave rate limit, arm, flush, process | a cached `needs_rearm`/`next` that is stale; a source that moves between clocks; a timer that expires while being looked at |
| Signal sources | a signalfd per priority with one buffered signal, mask per loop | add, enable, priority, process | re-masking while a signal is buffered |
| Child sources | per pid source, `need_process_child`, pidfds | add, enable, process (waitid) | SIGCHLD coalescing against priorities |
| Inotify sources | one inotify object per priority, shared watches, buffered events, `n_pending` | add, enable, priority, process | buffered events against source removal |
| Futures, `sd-future/sd-future.c` | state, result, callback, waiters, reference count | new, wait, resolve, cancel, ref/unref | re-entrant resolution; dropping what is being resolved |
| Fibers, `sd-future/fiber.c`, `fiber-io.c` | state, stack, resume value, event sources, floating reference | new, suspend, resume, yield, cancel | cancel and resume racing, nested loops |
| Bus connection, `sd-bus/sd-bus.c`, `bus-socket.c` | connection state, read and write queues, cookies, reply callbacks, timeout prioq | send, call, call_async, process, flush, close, attach | replies against timeouts, cookies that wrap, queues at their limit, callbacks that close the bus |
| Slots, matches, objects, track | callback lists and trees with modification flags | add, remove, run | callbacks that change the list being walked |
| Bus messages | containers stack, signature position, seal count | append, open/close container, read, seal | nesting, rewind, fd passing |
| Varlink connection and server, `sd-varlink.c` | a state per side (idle, awaiting reply, processing method, ...), current call, buffers, timeout | invoke, call, reply, error, more, disconnect, process | every combination of callback, reply, close and timeout |
| JSON stream, `sd-json/json-stream.c` | input and output buffers, queued fds | enqueue, flush, read, parse | fds that travel with a message; partial writes |
| hashmap, set | Robin Hood buckets, iteration index | put, remove, iterate | iteration while entries are removed |
| sd-json, sd-varlink-idl, sd-daemon, sd-id128, sd-path, other utilities | values, tables, text | parse, format, system calls | none a state machine would show |

How they interact: `sd-bus`, `sd-varlink`, and the futures of `event-future.c`, `bus-future.c` and
`fiber.c` add event sources to an `sd_event` and run from its callbacks. `sd-event` keeps all its
orders in `prioq`s, whose elements are re-keyed by the callers. Fibers run inside a defer source
and are woken by futures; `sd_future_resolve` is called from event sources, bus replies, fibers'
ends and other futures. The library calls the program only through callbacks, and it protects
itself from what they do with temporary references (`PROTECT_EVENT`, the reference
`sd_future_resolve` takes, `s->dispatching`).

What makes the parts correct:

- *prioq*: the array is a heap and all indices are right, so that pop returns a first element.
- *event loop*: queues and flags agree, references are exact and nothing that is referenced is
  freed, no wakeup is lost, nobody starves among equals, exits happen, states follow the protocol.
- *timers*: never early, armed in time, every rate limit ends, prioqs of two clocks never mixed up.
- *futures*: a result is final, every waiter is woken, references are exact, no abort.
- *planned*: a signal, child or inotify event is delivered exactly once (signal, child, inotify);
  a fiber runs once and its future resolves once; a bus call gets exactly one of reply, error and
  timeout, and messages are dispatched in order; a varlink method gets exactly one final reply; an
  iteration over a hashmap visits every entry that stays.

PROJECT.json lists 27 components and 36 hazards with their lines; a hazard
that no property covers yet belongs to a part still to be modelled, or has a note that says why. Where
the only run that checks a hazard's property is one that finds it violated, the note says that too.

## 2. Plan

1. `Prioq`, `PriorityBag`, `PrioqUser`: the heap, and the bag it implements (done).
2. `EventLoop` and `LoopProtocol`, with `EventLoopProofs` (done).
3. `EventTimer` on `Prioq` and `SleepBetween`, with `SleepBetweenProofs` (done).
4. `Future` (done).
5. `EventSignal`, `EventChild`, `EventInotify`: the sources whose events are buffered by the loop.
6. `Fiber`, composed with `Future` and the defer source of `EventLoop`.
7. `BusConnection` (states, queues, cookies, replies and timeouts) with an abstract specification
   of a call (one outcome, in order), then `BusDispatch` (filters, matches, objects, slots).
8. `Varlink`, both sides of a connection with `JsonStream`; the abstract specification is a call
   and its replies.
9. `MessageContainers`, `HashmapIterate` and other pure algorithms against reference definitions.

Runs of later modules: two or three peers, calls or sources each, so that one of them is being
processed while another is changed. Theorems in view, in this order: `ClocksExact` and `NeverEarly`
of `EventTimer`; `RefCountsExact` and `ResultIsFinal` of `Future` (after `Unref` is rewritten without
recursion); the refinement `EventLoop => LoopProtocol`; the exactly-one-outcome invariant of
`BusConnection`.

## 3. Modules

| Module | Models | Checked by |
|---|---|---|
| `Prioq` | `prioq.c`: the array, the index fields, swap, shuffle up and down | `PrioqUser` |
| `PrioqUser` | any program using one queue: put, remove, pop, re-key and reshuffle | run `prioq` |
| `PriorityBag` | what a priority queue promises: a set of which a least element is taken | refined by `PrioqUser` |
| `EventLoop` | the loop with IO, defer, post and exit sources, and the program | runs `event_*` |
| `LoopProtocol` | what the loop promises its user, without sources | refined by `EventLoop` |
| `EventLoopProofs` | the inductive invariant of `EventLoop` | TLAPS |
| `SleepBetween` | `sleep_between()`, with arithmetic modulo 2^64 as `% (Infinity + 1)` | TLAPS, used by `EventTimer` |
| `SleepBetweenProofs` | the interval and the synchronisation of wakeups | TLAPS |
| `EventTimer` | time sources on two clocks, rate limits, timerfds, `sd_event_wait` step by step | runs `timer_*` |
| `Future` | futures, wait futures, re-entrant resolution | runs `future*` |

The `MC*` modules give the constants their values.

**Prioq.** A queue is a record of the array `items` and the index fields `idx` of the elements.
`Put`, `Remove`, `Reshuffle`, `Pop` return the queue afterwards; `ShuffleUp` and `ShuffleDown` are the
loops of the code, as recursive operators. Re-keying without reshuffling is not a state of the
model: the program changes a key and reshuffles in one step, as prioq.h demands.

**EventLoop.** `ev` holds the fields of `struct sd_event` and of its sources. The queues are kept
apart from the flags (`pending` and `pendingQ`, `prepare` and `prepareQ`, the type and `exitQ`/`posts`,
`enabled` and `epoll`), since the agreement of the two is what `source_disconnect`,
`source_set_pending` and the like have to maintain. A prioq is a set of which the first element is
chosen; run `prioq` justifies that. Iteration numbers are replaced by the comparisons the code makes
with them: which pending sources have been stamped in this iteration (`fresh`) and which of two
stamps is older (`older`), so that the counter needs no bound. The program acts whenever the code
gives it control: inside of a callback (`active`), and between the calls that drive the loop
(`UserStates`). `held`/`evHeld` are the references it owns and it only passes pointers it may use.
One action is one call of an API function, or one step of the loop up to the next callback.

**EventTimer.** The prioqs are the heaps of `Prioq` with the comparison functions of the code, since
what interests is whether every change of a compared field is followed by a reshuffle. Pending sources
are kept in sets by the iteration they became pending in (`fresh` for the current one, `pendingQ` for
the earlier ones), and `Dispatch` takes any of the oldest set, as `pending_prioq_compare` leaves ties to
the heap. A source whose own callback drops the last reference is disconnected in the middle of the
callback, as `event_source_free` does it; freeing its memory afterwards is no state of the model. `stamp`
is forgotten at the end of a wait, where the code keeps a value it does not use again. `pc` follows
`sd_event_wait`: `initial` (prepare arms the timers), `armed`, `polled` (the second `process_epoll`),
`boottime` and `monotonic` (`process_timer` of each clock), `pending`, `running`. `now` may advance
between any two steps; `stamp` is `e->timestamp`. `armed[c]` is what the timerfd is set to, also after
it was read. A callback that fails does what one does that disables its source, and is not told apart here.

**Future.** A call of `sd_future_resolve` that is in progress is a frame on `stack` with its local
set of waiters; the program runs in callbacks, on top of the stack. A future that is not a wait
future is resolved by the program, which stands for the IO, time, bus or fiber implementation.

## 4. Runs

`tlc -config <cfg> <module>`; every run takes a few minutes at most with two workers.

| Run | Instance | Question |
|---|---|---|
| `prioq` | 6 elements with symmetry, 4 keys | Is the array a heap with exact indices, and what is popped a first element, whatever is put, removed and re-keyed? |
| `event_refs` | IO, post and exit source, one reference each | Are references and queues exact when callbacks (prepare, event, exit) and the program between the steps take, drop and float sources and the loop? Does the loop follow `LoopProtocol`? |
| `event_pending` | IO, defer and post source, two priorities | Is what is pending exactly what it should be, with enabling, masks, priorities and timeouts in between? |
| `event_fair` | IO, defer and exit source of one priority | Does everything pending get its turn, does a ready fd get its callback, and does an exit request end in the finished state? |
| `timer_queues` | a timer on each of two clocks and a busy IO source, limits of one event per two ticks on two of them, expiry callbacks, child events; no source is enabled while it is rate limited | Are the prioqs of the clocks exact and ordered, do the assertions of `event_arm_timer` hold, is no timer early? |
| `timer_fair` | a rate limited timer and a busy rate limited IO source, all calls but the excluded ones below | Does the loop never oversleep, and are timers served and limits ended? |
| `timer_assert` | a timer on each clock and an IO source, two of them rate limited | finding 1 |
| `timer_child` | one timer, child events | finding 2 |
| `timer_expiry` | two IO sources, an expiry callback | finding 3 |
| `future` | one future and two wait futures on it or on each other, two references each | Are references exact, results final and all waiters woken, with up to three calls of `sd_future_resolve` nested? |
| `future_drop` | one future and one wait future | finding 4 |
| `future_iterate` | one future and two wait futures | finding 5 |

**Why the bounds are enough.** Six elements make three levels of the heap, and two subtrees of the
root in different order, which is what a removal that sifts *up* takes (the mutant that only sifts
down is caught). In the event loop every pair of source types whose interaction matters is in some
run: an IO source spends its registration, a defer source is always pending, a post source is marked
by others, an exit source is the only one that runs when an exit was requested. References are
bounded by one of the program's per object (`MaxRef = 1`): together with the loop's reference on a
floating source, the sources' references on the loop and the one of a call in progress, every kind of
owner can be the last one to let go; the theorems remove this bound. Time is bounded
by `MaxTime`, where the clocks stop: with 3 (`timer_queues`, `timer_assert`) two rate limits of a source
start and end one after the other, and a timer is set, elapses and is set again; `timer_fair` has one tick
more, in which the loop must not oversleep; `Infinity = 20` is far enough for
no sum below it to wrap. The steps of `sleep_between` are scaled to 4, 2, 2 and 1 ticks with perturbation below 4, so that every branch is
taken; its arithmetic is proved for any steps and any width. Futures: two waiters are the least for
one waiter's callback to affect another while the set is iterated, and a wait future on a wait
future makes resolution nest.

**Deadlock.** All runs but `prioq` set `CHECK_DEADLOCK FALSE`, since the program may legitimately be
done: a loop is finished or waits for events that never come, all futures are resolved and the
program makes no more calls, or the clocks stand still at `MaxTime`. That a waiting or sleeping loop
is not stuck with work left is what `PendingIsServed`, `ReadyIsServed`, `TimersFire`, `LimitsEnd`,
`ArmedInTime` and `AwaitersWake` say instead.

**What the passing runs assume of the program.** Each assumption has a name in `Calls` or a constant of
its own, and those that the code does not document are the subject of a finding:

- `"enable exits"` (off in `event_fair`): the program does not enable exit sources over and over;
  nothing in the code stops it from never finishing that way.
- `"reenable"` (only in `timer_assert`): no source that was disabled is enabled while it is rate limited -
  finding 1. The code allows it and has no reshuffle for it; `QueuesOrdered`, `ArmAssertionsHold` and
  `ArmedInTime` fail then, and all properties of `timer_queues` and `timer_fair` are claimed only for
  programs that do not do this.
- `ChildEvents` (off in `timer_fair`): no child process ends during a wait - finding 2.
- `OnExpiry` (empty in `timer_fair`): no expiry callback is set - finding 3.
- `"postpone"` (off in `timer_fair`): the program does not set a timer that is pending to a time that has
  passed already. That clears its pending bit; done each time another source is dispatched before the
  timer, it postpones the timer forever.
- `"drop pending"` (only in `future_drop`): futures are kept until they are resolved - finding 4.
- `"drop waiter"` (only in `future_iterate`): no callback drops the last reference on a waiter that is
  about to be resolved - finding 5.
- Callers of futures are not fibers, and allocation does not fail.

The safety properties of `event_refs` and `event_pending` depend on none of these. `timer_queues` runs with
child events, expiry callbacks and `"postpone"`, but not with `"reenable"`, and its properties
`QueuesOrdered` and `ArmAssertionsHold` do depend on that.

**Fairness.** `EventLoop` and `EventTimer`: weak fairness of the loop's own steps (`sd_event_loop` calls
prepare, wait and dispatch until the loop is finished) and of the return of callbacks; in
`EventTimer` also of the clock, up to its bound. Nothing is assumed of the program: it may call or not
call anything, fail any callback, drain any fd or make it ready at the worst moment, and two sources of
the same priority and iteration are dispatched in either order, in both modules. `Future`: weak fairness
of calls in progress, and strong fairness of the return of the callback at every depth of nesting - a callback
returns in the end, though it makes calls of its own before; weak fairness would not do, as the return
is disabled while an inner call is on top of the stack.

## 5. Properties

*Prioq.* `HeapOk`: heap order and exact indices. `ImplementsPriorityBag`: nothing lost or
duplicated, and what is popped is a first member.

*EventLoop.* `NoDanglingPointers` (queues and flags agree, only for connected and allocated sources),
`RefCountsExact`, `PendingExact` (a defer source is always pending, a disabled source has nothing
pending, an enabled IO source is armed or queued), `PostFollowsDispatch`, `FinishedMeansExitsDone`,
`PendingIsServed`, `ReadyIsServed`, `ExitFinishes`, and the refinement `ImplementsLoopProtocol`:
callbacks run one at a time and only of the class the state allows, an exit request is never
withdrawn, a finished loop stays finished and memory is freed only between steps.

*EventTimer.* `ClocksExact`, `QueuesOrdered` (the heads are first whatever field that is compared
changes), `ArmAssertionsHold`, `ArmedInTime`, `NeverEarly`, `TimersFire`, `LimitsEnd`. `QueuesOrdered` and
`ArmAssertionsHold` need the exclusion of `"reenable"`: `event_source_online` changes the enabled state of a
rate limited source without a reshuffle, after which an enabled source may be behind a disabled head
(finding 1). `QueuesOrdered` looks at the heads, and asks only that disabled sources sort last.
`NeverSleepsOnPending` is checked where it fails only (finding 3): without expiry callbacks it would
repeat one test of `sd_event_prepare`.

*Future.* `RefCountsExact`, `WaitersAreWoken` (no lost wakeup at any moment), `ResultIsFinal`,
`AwaitersWake`; and `NeverAborts` and `WaitersExist`, which fail (findings 4 and 5).

Every property of a passing run has a mutant in PROJECT.json: one of the operators marked "Faulty"
in place of the real one, with which TLC finds the property violated.

## 6. Proofs

`EventLoopProofs` proves `TypeOK`, `NoDanglingPointers` and `RefCountsExact` of `EventLoop` for every set
of sources with any types, priorities, calls and number of references. They assume what the ASSUMEs
of `EventLoop` say: types and priorities are what they are, `NoSource` is no source, and `Sources` is
finite (a cardinality is counted). None of the three is inductive. `RefCountsExact` says what the counts
are, but whether a count of zero frees the right thing depends on the queues (a source is removed from
those its flags name) and on the loop being alive while a callback runs: without a reference of the
call in progress, the unreference of a source that was the last owner of the loop would free the
loop under its own feet. The invariant `IInv` therefore says at once that

- the loop object is `Consistent` with what the program owns (`held`), what the program and the loop's
  own calls own on the loop (`Owners`), and the sources a call in progress keeps (`InCallback`): types,
  exact queues and exact references; and
- a callback is only on the stack while the loop is `Protected`.

`Consistent(e, K, h, n)` has the owners as parameters, so that each operator on the loop object gets one
lemma (`DetachFields`, `EventUnrefKeeps`, `SourceUnrefKeeps`, ...) that says how it trades owners, and
each action is a lemma (`AddKeeps`, `SetFloatingKeeps`, ...) that applies those. `NextKeepsIInv` collects
the actions, `Inductive` is the theorem, and the other three follow.

`SleepBetweenProofs` proves that `sleep_between` returns a time in its interval for every interval,
every `perturb` and every four steps, wrapping sums included (`SleepsInInterval`): with c the spot, either
c < b, or c - step < b and c >= step, so that what is returned is at most b; and it is returned only if
it is at least a. `Synchronised` states the purpose of the function as its comment does: if the
interval holds a time in the common spot of the coarsest step, then the loop wakes up in that spot,
at the last such time before the end of the interval. It rests on two multiples of a step being a
step apart (`MultiplesApart`) and on the remainder of a spot (`RestOfSpot`), and it assumes that the clock
is at least one step old and a step away from overflow. The first assumption is needed: in the
first minute of a clock, when the spot of the minute is not reached before b, the code returns b
without trying the 10 s, 1 s and 250 ms steps its comment lists.

Model-checked only: everything else in section 5. Liveness is out of reach of the prover, and so are
the modules with recursive operators: `Prioq` (the sift loops), `EventTimer` (which uses it) and
`Future` (freeing a wait future unreferences its target). Rewriting the last one without recursion is
part of the plan. `PendingExact`, `FinishedMeansExitsDone`, `PostFollowsDispatch` and the refinement of
`LoopProtocol` are provable and not yet proved.

## 7. Findings

1. **`timer_assert`.** `event_source_online()` (sd-event.c:3023) returns before its reshuffle when the source
   stays rate limited, so that enabling such a source leaves it where it was in the two prioqs of
   CLOCK_BOOTTIME, which may then disagree about what is enabled. An IO source and a timer are rate
   limited until the same time, a boottime timer waits beside them; all are disabled, and the boottime
   timer is removed, which sets `needs_rearm`. Of the two that are left each is the head of one prioq.
   Enabling the head of the earliest prioq leaves a disabled head in the latest one, and
   `assert(b && b->enabled != SD_EVENT_OFF)` in `event_arm_timer()` (sd-event.c:3613) fails: the program
   aborts. The removal may come after the enabling just as well. A milder effect needs one source only:
   disabling it disarms the clock, enabling it again does not set `needs_rearm`, and the rate limit does
   not end before something else wakes the loop up. With `"reenable"` among the `Calls` of `timer_fair`, TLC
   shows that as a violation of `ArmedInTime`.
2. **`timer_child`.** After a child event, `sd_event_wait()` calls `process_epoll()` again (sd-event.c:4799).
   A timerfd that expired meanwhile is read, so it is disarmed, but `process_timer()` compares with
   the timestamp taken before: the source is not processed and nothing is armed again.
3. **`timer_expiry`.** `sd_event_prepare()` polls with `sd_event_wait(e, 0)` and takes 0 for "nothing
   pending" (sd-event.c:4608), which is also what it returns when an expiry callback ran: the loop is set to
   ARMED and then sleeps with a source pending and timers unarmed.
4. **`future_drop`.** `sd_future_free()` resolves a pending future whose count is already zero
   (sd-future.c:74), and `sd_future_resolve()` takes a reference, which asserts that there is one.
5. **`future_iterate`.** `sd_future_resolve()` moves the waiters to a local set before it iterates
   (sd-future.c:61); a waiter that is cancelled and freed by the callback of another one is removed from
   the future's set only and stays in the local one.

## 8. Not modelled

- Allocation and registration failures: `prioq_put`, `epoll_ctl`, `timerfd_create`. Their error paths
  roll back; the one that puts a source back into a rate limit is listed as a hazard.
- `sd_event_default`, fork checks (`event_origin_changed`), profiling, naming, descriptions.
- Signal, child, inotify, pressure and watchdog sources (except for what a child event does to a wait),
  and the clocks realtime, realtime alarm and boottime alarm with clock changes.
- Destroy callbacks, `exit_code`, and `sd_event_loop`/`sd_event_run` themselves, which only call the
  steps in order.
- Fibers, sd-bus, sd-varlink, sd-json and the containers in `src/basic`: planned (section 2) or without
  state (section 1). PROJECT.json says which for each.
- Vendored kernel headers and libc shims.
