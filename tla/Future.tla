-------------------------------- MODULE Future --------------------------------
(***************************************************************************)
(* Futures: src/src/libsystemd/sd-future/sd-future.c.  A future is pending *)
(* until it is resolved with a result; resolving it runs its callback and  *)
(* then resolves the wait futures that were made on it, each of which may  *)
(* run a callback and have wait futures of its own.                        *)
(*                                                                         *)
(* The calls of sd_future_resolve that are in progress are the frames of   *)
(* stack, the innermost first: the program runs inside of the callbacks    *)
(* and may call anything there.  A frame holds the local variables of the  *)
(* call: the future, and the set of waiters it took from it.  The futures  *)
(* that are not wait futures (an IO, time or bus call future, a fiber)     *)
(* differ only in who resolves them, which here is the program.            *)
(***************************************************************************)
EXTENDS Naturals, FiniteSets, Sequences

CONSTANTS
    Plain,      \* names for futures of an implementation
    Waits,      \* names for wait futures
    Results,    \* the results a future is resolved with
    Canceled,   \* -ECANCELED
    Calls,      \* the API calls the program makes
    MaxRef,     \* bound: references the program takes on one future
    NoFuture

Futures == Plain \union Waits

ASSUME NamesAssumption == Plain \intersect Waits = {} /\ NoFuture \notin Futures
ASSUME ResultsAssumption == Canceled \in Results

VARIABLES
    fu,     \* the futures
    stack,  \* the calls of sd_future_resolve in progress
    held    \* the references the program owns

vars == <<fu, stack, held>>

Pending(e, f)  == f \in e.alloc /\ e.state[f] = "pending"
Resolved(e, f) == f \in e.alloc /\ e.state[f] = "resolved"

-----------------------------------------------------------------------------
(* References.                                                             *)

(* wait_future_free up to the target's reference, and free.                *)
Forget(e, f) ==
    [e EXCEPT !.alloc    = @ \ {f},
              !.callback = @ \ {f},
              !.state[f] = "pending",
              !.result[f] = Canceled,
              !.target[f] = NoFuture,
              !.waiters  = [t \in Futures |-> IF t = e.target[f] THEN @[t] \ {f} ELSE @[t]]]

(* sd_future_unref and sd_future_free.  A future that is still pending is  *)
(* to be resolved first, but sd_future_resolve takes a reference, and      *)
(* sd_future_ref asserts that there is one already: the program aborts.    *)
RECURSIVE Unref(_, _)
Unref(e, f) ==
    LET d == [e EXCEPT !.nRef[f] = @ - 1]
    IN  CASE d.nRef[f] > 0 -> d
          [] d.nRef[f] = 0 /\ Pending(d, f) -> [d EXCEPT !.aborted = TRUE]
          [] d.nRef[f] = 0 /\ ~Pending(d, f) /\ f \in Waits -> Unref(Forget(d, f), d.target[f])
          [] OTHER -> Forget(d, f)

-----------------------------------------------------------------------------
(* Resolution.                                                             *)

Top == Head(stack)

(* What the innermost call is doing.                                       *)
Phase == IF stack = <<>> THEN "none" ELSE Top.phase

(* Faulty: without the reference of its own.                               *)
EnterUnreferenced(e, f, result) ==
    [e EXCEPT !.state[f] = "resolved", !.result[f] = result]

(* sd_future_resolve on a pending future, up to the callback.              *)
Enter(e, f, result) ==
    [e EXCEPT !.nRef[f] = @ + 1, !.state[f] = "resolved", !.result[f] = result]

(* The call's frame; without a callback the waiters are taken at once.     *)
Frame(e, f) ==
    IF f \in e.callback
    THEN [future |-> f, phase |-> "callback", todo |-> {}]
    ELSE [future |-> f, phase |-> "waiters", todo |-> e.waiters[f]]

Taken(e, f) == IF f \in e.callback THEN e ELSE [e EXCEPT !.waiters[f] = {}]

(* Faulty: a future that is resolved already is resolved again.            *)
CallResolveAgain(e, f, result, below) ==
    /\ fu' = Taken(Enter(e, f, result), f)
    /\ stack' = <<Frame(e, f)>> \o below

(* A call of sd_future_resolve: nothing if the future is not pending.      *)
CallResolve(e, f, result, below) ==
    IF Pending(e, f)
    THEN /\ fu' = Taken(Enter(e, f, result), f)
         /\ stack' = <<Frame(e, f)>> \o below
    ELSE fu' = e /\ stack' = below

(* Faulty: the waiters are looked at before the callback only.             *)
CallbackReturnForgetsWaiters ==
    /\ Phase = "callback"
    /\ stack' = [stack EXCEPT ![1] = [@ EXCEPT !.phase = "waiters"]]
    /\ fu' = [fu EXCEPT !.waiters[Top.future] = {}]
    /\ UNCHANGED held

(* The callback returns: the waiters the future has by now are taken.      *)
CallbackReturn ==
    /\ Phase = "callback"
    /\ stack' = [stack EXCEPT ![1] = [@ EXCEPT !.phase = "waiters", !.todo = fu.waiters[Top.future]]]
    /\ fu' = [fu EXCEPT !.waiters[Top.future] = {}]
    /\ UNCHANGED held

(* The next waiter is resolved with the same result.                       *)
NextWaiter(w) ==
    /\ Phase = "waiters"
    /\ w \in Top.todo
    /\ CallResolve(fu, w, fu.result[Top.future],
                   [stack EXCEPT ![1] = [@ EXCEPT !.todo = @ \ {w}]])
    /\ UNCHANGED held

(* The call returns and drops its reference.                               *)
ResolveDone ==
    /\ Phase = "waiters"
    /\ Top.todo = {}
    /\ fu' = Unref(fu, Top.future)
    /\ stack' = Tail(stack)
    /\ UNCHANGED held

-----------------------------------------------------------------------------
Init ==
    /\ fu = [alloc |-> {}, callback |-> {}, aborted |-> FALSE,
             nRef |-> [f \in Futures |-> 0], state |-> [f \in Futures |-> "pending"],
             result |-> [f \in Futures |-> Canceled],
             waiters |-> [f \in Futures |-> {}], target |-> [f \in Futures |-> NoFuture]]
    /\ stack = <<>>
    /\ held = [f \in Futures |-> 0]

(* The program runs outside of any call or inside of a callback; it passes *)
(* futures it holds a reference on, or the one its callback is for.        *)
MayCall(call) ==
    /\ call \in Calls
    /\ ~fu.aborted
    /\ Phase # "waiters"

Usable(f) == f \in fu.alloc /\ (held[f] > 0 \/ (Phase = "callback" /\ Top.future = f))

Fresh(e, f, t) ==
    [e EXCEPT !.alloc = @ \union {f}, !.nRef[f] = 1, !.state[f] = "pending",
              !.result[f] = Canceled, !.waiters[f] = {}, !.target[f] = t]

(* sd_future_new.                                                          *)
New(f) ==
    /\ MayCall("new")
    /\ f \in Plain \ fu.alloc
    /\ fu' = Fresh(fu, f, NoFuture)
    /\ held' = [held EXCEPT ![f] = 1]
    /\ UNCHANGED stack

(* Faulty: the wait future keeps no reference on its target.               *)
NewWaitUnreferenced(w, t) ==
    /\ MayCall("new")
    /\ w \in Waits \ fu.alloc
    /\ Usable(t)
    /\ fu' = IF Resolved(fu, t)
             THEN [Fresh(fu, w, t) EXCEPT !.state[w] = "resolved", !.result[w] = fu.result[t]]
             ELSE [Fresh(fu, w, t) EXCEPT !.waiters[t] = @ \union {w}]
    /\ held' = [held EXCEPT ![w] = 1]
    /\ UNCHANGED stack

(* Faulty: the wait future of a resolved target waits for it.              *)
NewWaitTooLate(w, t) ==
    /\ MayCall("new")
    /\ w \in Waits \ fu.alloc
    /\ Usable(t)
    /\ fu' = [Fresh(fu, w, t) EXCEPT !.nRef[t] = @ + 1, !.waiters[t] = @ \union {w}]
    /\ held' = [held EXCEPT ![w] = 1]
    /\ UNCHANGED stack

(* sd_future_new_wait: on a resolved target it is resolved at once, before *)
(* it can have a callback or waiters.                                      *)
NewWait(w, t) ==
    /\ MayCall("new")
    /\ w \in Waits \ fu.alloc
    /\ Usable(t)
    /\ LET new == [Fresh(fu, w, t) EXCEPT !.nRef[t] = @ + 1]
       IN  fu' = IF Resolved(fu, t)
                 THEN [new EXCEPT !.state[w] = "resolved", !.result[w] = fu.result[t]]
                 ELSE [new EXCEPT !.waiters[t] = @ \union {w}]
    /\ held' = [held EXCEPT ![w] = 1]
    /\ UNCHANGED stack

(* sd_future_set_callback.                                                 *)
SetCallback(f, on) ==
    /\ MayCall("callback")
    /\ Usable(f)
    /\ fu' = [fu EXCEPT !.callback = IF on THEN @ \union {f} ELSE @ \ {f}]
    /\ UNCHANGED <<stack, held>>

Ref(f) ==
    /\ MayCall("ref")
    /\ Usable(f)
    /\ held[f] < MaxRef
    /\ fu' = [fu EXCEPT !.nRef[f] = @ + 1]
    /\ held' = [held EXCEPT ![f] = @ + 1]
    /\ UNCHANGED stack

(* "drop pending" stands for giving up a future that is still pending,     *)
(* "drop waiter" for one that a call in progress has yet to resolve.       *)
UserUnref(f) ==
    /\ MayCall("unref")
    /\ held[f] > 0
    /\ held[f] = 1 /\ Pending(fu, f) => "drop pending" \in Calls
    /\ held[f] = 1 /\ (\E k \in 1..Len(stack) : f \in stack[k].todo) => "drop waiter" \in Calls
    /\ fu' = Unref(fu, f)
    /\ held' = [held EXCEPT ![f] = @ - 1]
    /\ UNCHANGED stack

(* The implementation of a future resolves it, or the program cancels it.  *)
Resolve(f, result) ==
    /\ MayCall("resolve")
    /\ f \in Plain
    /\ Usable(f)
    /\ Pending(fu, f)
    /\ CallResolve(fu, f, result, stack)
    /\ UNCHANGED held

(* sd_future_cancel on a wait future: wait_future_cancel.                  *)
CancelWait(w) ==
    /\ MayCall("cancel")
    /\ w \in Waits
    /\ Usable(w)
    /\ Pending(fu, w)
    /\ CallResolve([fu EXCEPT !.waiters[fu.target[w]] = @ \ {w}], w, Canceled, stack)
    /\ UNCHANGED held

-----------------------------------------------------------------------------
(* A call in progress goes on, and callbacks return.                       *)
Progress == ~fu.aborted /\ (CallbackReturn \/ ResolveDone \/ \E w \in Waits : NextWaiter(w))

ProgramCall ==
    \E f \in Futures :
        \/ New(f) \/ Ref(f) \/ UserUnref(f) \/ CancelWait(f)
        \/ \E t \in Futures : NewWait(f, t)
        \/ \E on \in BOOLEAN : SetCallback(f, on)
        \/ \E r \in Results : Resolve(f, r)

Next == Progress \/ ProgramCall

Spec == Init /\ [][Next]_vars

(* A call goes on, and every callback returns in the end, however many     *)
(* calls with callbacks of their own it makes before.                      *)
FairSpec ==
    /\ Spec
    /\ WF_vars(Progress)
    /\ \A depth \in 1..Cardinality(Futures) :
           SF_vars(Len(stack) = depth /\ ~fu.aborted /\ CallbackReturn)

-----------------------------------------------------------------------------
(* Properties.                                                             *)

FrameOf == [future : Futures, phase : {"callback", "waiters"}, todo : SUBSET Waits]

TypeOK ==
    /\ fu.alloc \subseteq Futures /\ fu.callback \subseteq fu.alloc /\ fu.aborted \in BOOLEAN
    /\ fu.nRef \in [Futures -> Nat]
    /\ fu.state \in [Futures -> {"pending", "resolved"}]
    /\ fu.result \in [Futures -> Results]
    /\ fu.waiters \in [Futures -> SUBSET Waits]
    /\ fu.target \in [Futures -> Futures \union {NoFuture}]
    /\ stack \in Seq(FrameOf)
    /\ held \in [Futures -> Nat]

Frames(f) == {k \in 1..Len(stack) : stack[k].future = f}

(* sd_future_free resolves a future that is still pending: a program may   *)
(* drop its last reference on one, and no call ends in the assertion of    *)
(* sd_future_ref.                                                          *)
NeverAborts == ~fu.aborted

(* A future counts the program's references, one per call in progress and  *)
(* one per wait future on it - and it is freed exactly when none is left,  *)
(* in the middle of its own resolution or not.                             *)
RefCountsExact ==
    \A f \in Futures :
        IF f \in fu.alloc
        THEN /\ fu.nRef[f] > 0
             /\ fu.nRef[f] = held[f] + Cardinality(Frames(f))
                                + Cardinality({w \in Waits \intersect fu.alloc : fu.target[w] = f})
        ELSE held[f] = 0 /\ Frames(f) = {}

(* "We'd like the set to not be modified while iterating over it"          *)
(* (sd_future_resolve): what a future keeps as its waiters, and what a     *)
(* call in progress took over from it, are futures that still exist.       *)
WaitersExist ==
    /\ \A f \in fu.alloc : fu.waiters[f] \subseteq fu.alloc
    /\ \A k \in 1..Len(stack) : stack[k].todo \subseteq fu.alloc

(* No lost wakeup: a wait future is pending only while its target is, or   *)
(* while the call that resolves the target still has it on its list -      *)
(* those made or cancelled by the callbacks on the way included.           *)
WaitersAreWoken ==
    \A w \in Waits \intersect fu.alloc :
        fu.state[w] = "pending" =>
            \/ w \in fu.waiters[fu.target[w]] /\ Pending(fu, fu.target[w])
            \/ \E k \in Frames(fu.target[w]) :
                  \/ w \in stack[k].todo
                  \/ w \in fu.waiters[fu.target[w]] /\ stack[k].phase = "callback"

(* A result is final: no callback, waiter or second resolution changes it  *)
(* while the future exists.                                                *)
ResultIsFinal ==
    [][\A f \in Futures : Resolved(fu, f) /\ f \in fu'.alloc =>
           Resolved(fu', f) /\ fu'.result[f] = fu.result[f]]_vars

(* Whoever waits for a resolved future is woken, whatever the callbacks of *)
(* the other waiters do.                                                   *)
AwaitersWake ==
    \A w \in Waits :
        (Pending(fu, w) /\ Resolved(fu, fu.target[w])) ~> ~Pending(fu, w)
=============================================================================
