--------------------------- MODULE EventLoopProofs ---------------------------
(***************************************************************************)
(* Proofs about EventLoop for every set of sources.                        *)
(***************************************************************************)
EXTENDS EventLoop, FiniteSetTheorems, TLAPS

(* The part of the loop object that reference counting is about.           *)
SameCounts(e, f) ==
    /\ f.freed = e.freed
    /\ f.nRef = e.nRef
    /\ f.sources = e.sources
    /\ f.alloc = e.alloc
    /\ f.srcRef = e.srcRef
    /\ f.floating = e.floating

SameRefs(e, f) == f.state = e.state /\ SameCounts(e, f)

(* The loop object e is consistent when the program owns h[s] references   *)
(* on every source s, the program and the loop's own calls own n on the    *)
(* loop, and the sources in K are kept allocated by a call in progress.    *)
RefsExact(e, K, h, n) ==
    /\ \A s \in Sources :
           e.srcRef[s] = h[s] + IF s \in e.sources \intersect e.floating THEN 1 ELSE 0
    /\ \A s \in Sources : s \in e.alloc <=> e.srcRef[s] > 0 \/ s \in K
    /\ e.nRef = n + Cardinality(e.sources \ e.floating)
    /\ e.freed <=> e.nRef = 0
    /\ e.freed => e.sources = {}

Consistent(e, K, h, n) ==
    /\ e \in EvType
    /\ QueuesExact(e)
    /\ RefsExact(e, K, h, n)

(* f is what a call on e leaves.                                           *)
Leaves(e, f, K, h, n) ==
    /\ Consistent(f, K, h, n)
    /\ f.state = e.state

-----------------------------------------------------------------------------
(* Operators that only touch queues.                                       *)

LEMMA MarkPendingKeeps ==
    ASSUME NEW e \in EvType, QueuesExact(e), NEW S \in SUBSET e.sources
    PROVE  /\ MarkPending(e, S) \in EvType
           /\ QueuesExact(MarkPending(e, S))
           /\ SameRefs(e, MarkPending(e, S))
<1>1. S \subseteq Sources  BY DEF EvType
<1>2. MarkPending(e, S) \in EvType
  BY <1>1 DEF MarkPending, EvType
<1>3. SameRefs(e, MarkPending(e, S))
  BY DEF MarkPending, EvType, SameRefs, SameCounts
<1>4. QueuesExact(MarkPending(e, S))
  BY <1>1 DEF MarkPending, EvType, QueuesExact
<1> QED  BY <1>2, <1>3, <1>4

LEMMA ClearPendingKeeps ==
    ASSUME NEW e \in EvType, QueuesExact(e), NEW s \in Sources
    PROVE  /\ ClearPending(e, s) \in EvType
           /\ QueuesExact(ClearPending(e, s))
           /\ SameRefs(e, ClearPending(e, s))
<1>1. ClearPending(e, s) \in EvType
  BY DEF ClearPending, Unqueue, EvType
<1>2. SameRefs(e, ClearPending(e, s))
  BY DEF ClearPending, Unqueue, EvType, SameRefs, SameCounts
<1>3. QueuesExact(ClearPending(e, s))
  BY DEF ClearPending, Unqueue, EvType, QueuesExact
<1> QED  BY <1>1, <1>2, <1>3

LEMMA RestampKeeps ==
    ASSUME NEW e \in EvType, QueuesExact(e), NEW s \in Sources
    PROVE  /\ Restamp(e, s) \in EvType
           /\ QueuesExact(Restamp(e, s))
           /\ SameRefs(e, Restamp(e, s))
<1>1. Restamp(e, s) \in EvType
  BY DEF Restamp, EvType
<1>2. SameRefs(e, Restamp(e, s))
  BY DEF Restamp, EvType, SameRefs, SameCounts
<1>3. QueuesExact(Restamp(e, s))
  BY DEF Restamp, EvType, QueuesExact
<1> QED  BY <1>1, <1>2, <1>3

LEMMA MarkPostsKeeps ==
    ASSUME NEW e \in EvType, QueuesExact(e), NEW t
    PROVE  /\ MarkPosts(e, t) \in EvType
           /\ QueuesExact(MarkPosts(e, t))
           /\ SameRefs(e, MarkPosts(e, t))
<1>1. {z \in e.posts : Online(e, z)} \in SUBSET e.sources
  BY DEF QueuesExact
<1> QED  BY <1>1, MarkPendingKeeps DEF MarkPosts, SameRefs, SameCounts

LEMMA OfflineKeeps ==
    ASSUME NEW e \in EvType, QueuesExact(e), NEW s \in Sources
    PROVE  /\ EventSourceOffline(e, s) \in EvType
           /\ QueuesExact(EventSourceOffline(e, s))
           /\ SameRefs(e, EventSourceOffline(e, s))
<1> DEFINE c == IF Online(e, s) /\ ~AlwaysPends(s) THEN ClearPending(e, s) ELSE e
           d == [c EXCEPT !.enabled[s] = "off", !.epoll[s] = IF Io(s) THEN "none" ELSE @]
<1>2. c \in EvType /\ QueuesExact(c) /\ SameRefs(e, c)
  BY ClearPendingKeeps DEF SameRefs, SameCounts
<1> HIDE DEF c
<1>3. d \in EvType
  BY <1>2 DEF EvType, Modes
<1>4. QueuesExact(d) /\ SameRefs(c, d)
  BY <1>2 DEF EvType, QueuesExact, SameRefs, SameCounts, Io
<1>5. EventSourceOffline(e, s) = d
  BY DEF EventSourceOffline, c
<1> QED  BY <1>2, <1>3, <1>4, <1>5 DEF SameRefs, SameCounts

LEMMA OnlineKeeps ==
    ASSUME NEW e \in EvType, QueuesExact(e), NEW s \in e.sources, NEW m \in Modes
    PROVE  /\ EventSourceOnline(e, s, m) \in EvType
           /\ QueuesExact(EventSourceOnline(e, s, m))
           /\ SameRefs(e, EventSourceOnline(e, s, m))
<1> DEFINE c == IF ~Online(e, s) /\ ~AlwaysPends(s) THEN ClearPending(e, s) ELSE e
           d == [c EXCEPT !.enabled[s] = m, !.epoll[s] = IF Io(s) THEN "armed" ELSE @]
<1>1. s \in Sources  BY DEF EvType
<1>2. c \in EvType /\ QueuesExact(c) /\ SameRefs(e, c)
  BY <1>1, ClearPendingKeeps DEF SameRefs, SameCounts
<1> HIDE DEF c
<1>3. d \in EvType
  BY <1>1, <1>2 DEF EvType
<1>4. QueuesExact(d) /\ SameRefs(c, d)
  BY <1>1, <1>2 DEF EvType, QueuesExact, SameRefs, SameCounts, Io
<1>5. EventSourceOnline(e, s, m) = d
  BY DEF EventSourceOnline, c
<1> QED  BY <1>2, <1>3, <1>4, <1>5 DEF SameRefs, SameCounts

LEMMA SetEnabledKeeps ==
    ASSUME NEW e \in EvType, QueuesExact(e), NEW s \in e.sources, NEW m \in Modes
    PROVE  /\ SourceSetEnabled(e, s, m) \in EvType
           /\ QueuesExact(SourceSetEnabled(e, s, m))
           /\ SameRefs(e, SourceSetEnabled(e, s, m))
<1>1. \/ SourceSetEnabled(e, s, m) = e
      \/ SourceSetEnabled(e, s, m) = EventSourceOffline(e, s)
      \/ SourceSetEnabled(e, s, m) = EventSourceOnline(e, s, m)
  BY Zenon DEF SourceSetEnabled
<1>2. s \in Sources /\ SameRefs(e, e)
  BY DEF SameRefs, SameCounts, EvType
<1> QED  BY <1>1, <1>2, OfflineKeeps, OnlineKeeps

LEMMA ProcessEpollKeeps ==
    ASSUME NEW e \in EvType, QueuesExact(e), ready \subseteq Sources
    PROVE  /\ ProcessEpoll(e) \in EvType
           /\ QueuesExact(ProcessEpoll(e))
           /\ SameRefs(e, ProcessEpoll(e))
<1> DEFINE R == Reported(e)
           c == MarkPending(e, R)
           d == [c EXCEPT !.epoll = [s \in Sources |->
                    IF s \in R /\ e.enabled[s] = "oneshot" THEN "spent" ELSE @[s]]]
<1>1. R \in SUBSET e.sources
  BY DEF Reported, QueuesExact, EvType
<1>2. c \in EvType /\ QueuesExact(c) /\ SameRefs(e, c)
  BY <1>1, MarkPendingKeeps
<1>3. \A s \in R : s \in Sources /\ c.epoll[s] # "none"
  BY <1>1, <1>2 DEF Reported, MarkPending, EvType
<1> HIDE DEF c, R
<1>4. d \in EvType
  BY <1>2 DEF EvType
<1>5. QueuesExact(d) /\ SameRefs(c, d)
  BY <1>2, <1>3 DEF EvType, QueuesExact, SameRefs, SameCounts, Io
<1>6. ProcessEpoll(e) = d
  BY DEF ProcessEpoll, c, R
<1> QED  BY <1>2, <1>4, <1>5, <1>6 DEF SameRefs, SameCounts

-----------------------------------------------------------------------------
(* Reference counts.                                                       *)

LEMMA FinitePart ==
    ASSUME NEW S \in SUBSET Sources
    PROVE  IsFiniteSet(S) /\ Cardinality(S) \in Nat
  BY FiniteSourcesAssumption, FS_Subset, FS_CardinalityType

LEMMA SameCountsConsistent ==
    ASSUME NEW e, NEW f, NEW K, NEW h, NEW n,
           Consistent(e, K, h, n), f \in EvType, QueuesExact(f), SameCounts(e, f)
    PROVE  Consistent(f, K, h, n)
  BY DEF Consistent, RefsExact, SameCounts

(* What source_disconnect takes off the loop, it takes off every queue.    *)
LEMMA DetachFields ==
    ASSUME NEW e \in EvType, QueuesExact(e), NEW S \in SUBSET e.sources
    PROVE  LET f == Detach(e, S) IN
           /\ f \in EvType
           /\ QueuesExact(f)
           /\ f.sources = e.sources \ S
           /\ f.state = e.state
           /\ f.freed = e.freed /\ f.nRef = e.nRef /\ f.alloc = e.alloc
           /\ f.srcRef = e.srcRef /\ f.floating = e.floating
<1> DEFINE f == Detach(e, S)
<1>1. S \subseteq Sources  BY DEF EvType
<1>2. f \in EvType
  BY <1>1 DEF Detach, EvType
<1>3. /\ f.sources = e.sources \ S
      /\ f.state = e.state
      /\ f.freed = e.freed /\ f.nRef = e.nRef /\ f.alloc = e.alloc
      /\ f.srcRef = e.srcRef /\ f.floating = e.floating
  BY DEF Detach, EvType
<1>4. QueuesExact(f)
  <2>1. /\ f.sources \union f.pending \union f.prepare \union f.floating \subseteq f.alloc
        /\ f.pendingQ = f.sources \intersect f.pending
        /\ f.prepareQ = f.sources \intersect f.prepare
        /\ f.exitQ = {s \in f.sources : TypeOf[s] = "exit"}
        /\ f.posts = {s \in f.sources : TypeOf[s] = "post"}
    BY DEF Detach, EvType, QueuesExact
  <2>2. f.fresh \subseteq f.pendingQ /\ f.older \subseteq f.pendingQ \X f.pendingQ
    BY DEF Detach, EvType, QueuesExact
  <2>3. \A s \in Sources : f.epoll[s] # "none" => s \in f.sources /\ Io(s)
    BY DEF Detach, EvType, QueuesExact
  <2> QED  BY <2>1, <2>2, <2>3 DEF QueuesExact
<1> QED  BY <1>2, <1>3, <1>4

LEMMA ReleaseFields ==
    ASSUME NEW e \in EvType, QueuesExact(e), NEW S \in SUBSET Sources,
           S \intersect e.sources = {}
    PROVE  LET f == Release(e, S) IN
           /\ f \in EvType
           /\ QueuesExact(f)
           /\ f.alloc = e.alloc \ S
           /\ f.sources = e.sources
           /\ f.state = e.state
           /\ f.freed = e.freed /\ f.nRef = e.nRef /\ f.srcRef = e.srcRef
           /\ e.sources \intersect f.floating = e.sources \intersect e.floating
<1> DEFINE f == Release(e, S)
<1>1. f \in EvType
  BY PrioritiesAssumption DEF Release, EvType, Modes
<1>2. /\ f.alloc = e.alloc \ S
      /\ f.sources = e.sources
      /\ f.state = e.state
      /\ f.freed = e.freed /\ f.nRef = e.nRef /\ f.srcRef = e.srcRef
      /\ e.sources \intersect f.floating = e.sources \intersect e.floating
  BY DEF Release, EvType
<1>3. QueuesExact(f)
  BY DEF Release, EvType, QueuesExact
<1> QED  BY <1>1, <1>2, <1>3

(* event_free: every source still connected is floating, as the code       *)
(* asserts, so what the loop gives up is exactly what it owned.            *)
LEMMA EventFreeKeeps ==
    ASSUME NEW e \in EvType, NEW K, NEW h \in [Sources -> Nat],
           QueuesExact(e),
           \A s \in Sources :
               e.srcRef[s] = h[s] + IF s \in e.sources \intersect e.floating THEN 1 ELSE 0,
           \A s \in Sources : s \in e.alloc <=> e.srcRef[s] > 0 \/ s \in K,
           e.sources \subseteq e.floating,
           e.nRef = 0,
           K \intersect e.sources = {}
    PROVE  /\ Consistent(EventFree(e), K, h, 0)
           /\ EventFree(e).sources = {}
           /\ EventFree(e).state = e.state
<1> DEFINE c == Detach(e, e.sources)
           d == [c EXCEPT !.srcRef = [s \in Sources |-> IF s \in e.sources THEN @[s] - 1 ELSE @[s]],
                          !.freed  = TRUE]
           S == {s \in e.sources : d.srcRef[s] = 0}
           f == Release(d, S)
<1>1. /\ c \in EvType /\ QueuesExact(c) /\ c.sources = {} /\ c.state = e.state
      /\ c.nRef = 0 /\ c.alloc = e.alloc /\ c.srcRef = e.srcRef
  BY DetachFields
<1> HIDE DEF c
<1>2. e.sources \subseteq Sources
  BY DEF EvType
<1>3. \A s \in Sources : (IF s \in e.sources THEN c.srcRef[s] - 1 ELSE c.srcRef[s]) = h[s]
  BY <1>1, <1>2 DEF EvType
<1>4. /\ d \in EvType /\ QueuesExact(d) /\ d.sources = {} /\ d.freed /\ d.state = e.state
      /\ d.nRef = 0 /\ d.alloc = e.alloc
      /\ \A s \in Sources : d.srcRef[s] = h[s]
  BY <1>1, <1>3 DEF EvType, QueuesExact
<1> HIDE DEF d
<1>5. S \in SUBSET Sources /\ S \intersect d.sources = {}
  BY <1>2, <1>4
<1>6. /\ f \in EvType /\ QueuesExact(f) /\ f.sources = {} /\ f.freed /\ f.nRef = 0
      /\ f.state = e.state
      /\ f.alloc = e.alloc \ S
      /\ \A s \in Sources : f.srcRef[s] = h[s]
  BY <1>4, <1>5, ReleaseFields
<1>7. ASSUME NEW s \in Sources
      PROVE  s \in e.alloc \ S <=> h[s] > 0 \/ s \in K
  <2>1. CASE s \in e.sources
    <3>1. s \in e.alloc /\ s \notin K
      BY <2>1 DEF QueuesExact
    <3>2. s \in S <=> h[s] = 0
      BY <2>1, <1>4
    <3> QED  BY <3>1, <3>2
  <2>2. CASE s \notin e.sources
    <3>1. e.srcRef[s] = h[s] /\ s \notin S
      BY <2>2
    <3> QED  BY <3>1
  <2> QED  BY <2>1, <2>2
<1>8. Cardinality(f.sources \ f.floating) = 0
  BY <1>6, FS_EmptySet
<1>9. EventFree(e) = f
  BY DEF EventFree, f, S, d, c
<1> HIDE DEF f, S
<1>10. f.alloc \subseteq Sources /\ \A s \in Sources : s \in f.alloc <=> f.srcRef[s] > 0 \/ s \in K
  BY <1>6, <1>7 DEF EvType
<1>11. RefsExact(f, K, h, 0)
  BY <1>6, <1>8, <1>10 DEF RefsExact
<1> QED  BY <1>6, <1>9, <1>11 DEF Consistent

(* sd_event_unref by an owner among the n + 1.                             *)
LEMMA EventUnrefKeeps ==
    ASSUME NEW e, NEW K, NEW h \in [Sources -> Nat], NEW n \in Nat,
           Consistent(e, K, h, n + 1),
           n > 0 \/ K \intersect e.sources = {}
    PROVE  /\ Consistent(EventUnref(e), K, h, n)
           /\ EventUnref(e).sources \subseteq e.sources
           /\ n > 0 => EventUnref(e).sources = e.sources
           /\ EventUnref(e).state = e.state
<1> DEFINE d == [e EXCEPT !.nRef = @ - 1]
           own == e.sources \ e.floating
<1>1. e \in EvType /\ QueuesExact(e) /\ RefsExact(e, K, h, n + 1)
  BY DEF Consistent
<1>2. own \in SUBSET Sources
  BY <1>1 DEF EvType
<1>3. Cardinality(own) \in Nat /\ IsFiniteSet(own)
  BY <1>2, FinitePart
<1>4. e.nRef = n + 1 + Cardinality(own) /\ ~e.freed
  BY <1>1, <1>3 DEF RefsExact
<1>5. /\ d \in EvType /\ QueuesExact(d) /\ d.state = e.state
      /\ d.nRef = n + Cardinality(own) /\ ~d.freed
      /\ d.sources = e.sources /\ d.alloc = e.alloc
      /\ d.srcRef = e.srcRef /\ d.floating = e.floating
  BY <1>1, <1>3, <1>4 DEF EvType, QueuesExact
<1> HIDE DEF d
<1>6. CASE d.nRef > 0
  <2>1. EventUnref(e) = d
    BY <1>6 DEF EventUnref, d
  <2>2. RefsExact(d, K, h, n)
    BY <1>1, <1>5, <1>6 DEF RefsExact
  <2>3. Consistent(d, K, h, n)
    BY <1>5, <2>2 DEF Consistent
  <2> QED  BY <1>5, <2>1, <2>3
<1>7. CASE d.nRef = 0
  <2>1. n = 0 /\ Cardinality(own) = 0
    BY <1>3, <1>5, <1>7
  <2>2. own = {}
    BY <2>1, <1>3, FS_EmptySet
  <2>3. /\ Consistent(EventFree(d), K, h, 0)
        /\ EventFree(d).sources = {} /\ EventFree(d).state = e.state
    BY <1>1, <1>5, <1>7, <2>1, <2>2, EventFreeKeeps DEF RefsExact
  <2>4. EventUnref(e) = EventFree(d)
    BY <1>7 DEF EventUnref, d
  <2>5. ~(n > 0)
    BY <2>1
  <2>6. EventUnref(e).sources = {} /\ EventUnref(e).state = e.state
    BY <2>3, <2>4
  <2>7. Consistent(EventUnref(e), K, h, n)
    BY <2>1, <2>3, <2>4, Zenon
  <2> QED  BY <2>5, <2>6, <2>7
<1>8. d.nRef > 0 \/ d.nRef = 0
  BY <1>3, <1>5
<1> QED  BY <1>6, <1>7, <1>8

(* source_disconnect of a source that no floating reference keeps.         *)
LEMMA SourceDisconnectKeeps ==
    ASSUME NEW e, NEW K, NEW h \in [Sources -> Nat], NEW n \in Nat, NEW s \in Sources,
           Consistent(e, K, h, n),
           s \notin e.sources \intersect e.floating,
           n > 0 \/ K \intersect (e.sources \ {s}) = {}
    PROVE  /\ Leaves(e, SourceDisconnect(e, s), K, h, n)
           /\ s \notin SourceDisconnect(e, s).sources
<1>1. e \in EvType /\ QueuesExact(e) /\ RefsExact(e, K, h, n)
  BY DEF Consistent
<1>2. CASE s \notin e.sources
  BY <1>2, Zenon DEF SourceDisconnect, Leaves
<1>3. CASE s \in e.sources
  <2> DEFINE d == Detach(e, {s})
             ownE == e.sources \ e.floating
             ownD == d.sources \ d.floating
  <2>1. s \notin e.floating
    BY <1>3
  <2>2. SourceDisconnect(e, s) = EventUnref(d)
    BY <1>3, <2>1, Zenon DEF SourceDisconnect
  <2>3. /\ d \in EvType /\ QueuesExact(d)
        /\ d.sources = e.sources \ {s} /\ d.state = e.state
        /\ d.freed = e.freed /\ d.nRef = e.nRef /\ d.alloc = e.alloc
        /\ d.srcRef = e.srcRef /\ d.floating = e.floating
    BY <1>1, <1>3, DetachFields
  <2> HIDE DEF d
  <2>4. ownD = ownE \ {s} /\ s \in ownE /\ ownE \in SUBSET Sources
    BY <1>1, <1>3, <2>1, <2>3 DEF EvType
  <2> HIDE DEF ownE, ownD
  <2>5. IsFiniteSet(ownE) /\ Cardinality(ownE) \in Nat /\ Cardinality(ownD) \in Nat
    BY <2>4, FinitePart
  <2>6. Cardinality(ownD) = Cardinality(ownE) - 1
    BY <2>4, <2>5, FS_RemoveElement
  <2>7. d.nRef = n + 1 + Cardinality(ownD)
    BY <1>1, <2>3, <2>5, <2>6 DEF RefsExact, ownE
  <2>8. ~d.freed /\ d.nRef # 0
    BY <1>1, <1>3, <2>3, <2>5, <2>7 DEF RefsExact
  <2>9. RefsExact(d, K, h, n + 1)
    BY <1>1, <1>3, <2>1, <2>3, <2>7, <2>8 DEF RefsExact, ownD
  <2>10. Consistent(d, K, h, n + 1)
    BY <2>3, <2>9 DEF Consistent
  <2>11. /\ Consistent(EventUnref(d), K, h, n)
         /\ EventUnref(d).sources \subseteq d.sources
         /\ EventUnref(d).state = d.state
    BY <2>3, <2>10, EventUnrefKeeps
  <2>12. Consistent(SourceDisconnect(e, s), K, h, n)
    BY <2>2, <2>11, Zenon
  <2> QED  BY <2>2, <2>3, <2>11, <2>12 DEF Leaves
<1> QED  BY <1>2, <1>3

(* source_free of a source with no reference left.                         *)
LEMMA SourceFreeKeeps ==
    ASSUME NEW e, NEW K, NEW h \in [Sources -> Nat], NEW n \in Nat, NEW s \in Sources,
           Consistent(e, K \union {s}, h, n),
           s \notin K, h[s] = 0,
           s \notin e.sources \intersect e.floating,
           n > 0 \/ K \intersect e.sources = {}
    PROVE  Leaves(e, SourceFree(e, s), K, h, n)
<1> DEFINE d == SourceDisconnect(e, s)
           f == Release(d, {s})
<1>1. n > 0 \/ (K \union {s}) \intersect (e.sources \ {s}) = {}
  OBVIOUS
<1>2. Leaves(e, d, K \union {s}, h, n) /\ s \notin d.sources
  BY <1>1, SourceDisconnectKeeps
<1> HIDE DEF d
<1>3. /\ d \in EvType /\ QueuesExact(d) /\ RefsExact(d, K \union {s}, h, n)
      /\ d.state = e.state
  BY <1>2 DEF Leaves, Consistent
<1>4. /\ f \in EvType /\ QueuesExact(f)
      /\ f.alloc = d.alloc \ {s} /\ f.sources = d.sources /\ f.state = e.state
      /\ f.freed = d.freed /\ f.nRef = d.nRef /\ f.srcRef = d.srcRef
      /\ d.sources \intersect f.floating = d.sources \intersect d.floating
  BY <1>2, <1>3, ReleaseFields
<1>5. f.sources \ f.floating = d.sources \ d.floating
  BY <1>4
<1>6. \A z \in Sources : z \in f.alloc <=> f.srcRef[z] > 0 \/ z \in K
  BY <1>2, <1>3, <1>4 DEF RefsExact
<1> HIDE DEF f
<1>7. RefsExact(f, K, h, n)
  BY <1>3, <1>4, <1>5, <1>6 DEF RefsExact
<1>8. SourceFree(e, s) = f
  BY DEF SourceFree, f, d
<1> QED  BY <1>4, <1>7, <1>8 DEF Leaves, Consistent

(* sd_event_source_unref by an owner of a reference, while the callback of *)
(* the source in K, if any, is running.                                    *)
LEMMA SourceUnrefKeeps ==
    ASSUME NEW e, NEW K, NEW h \in [Sources -> Nat], NEW n \in Nat, NEW s \in Sources, NEW a,
           Consistent(e, K, h, n),
           h[s] > 0,
           s \in K <=> s = a,
           n > 0 \/ K \intersect e.sources = {},
           NEW g \in [Sources -> Nat], g = [h EXCEPT ![s] = @ - 1]
    PROVE  Leaves(e, SourceUnref(e, s, a), K, g, n)
<1> DEFINE d == [e EXCEPT !.srcRef[s] = @ - 1]
<1>1. e \in EvType /\ QueuesExact(e) /\ RefsExact(e, K, h, n)
  BY DEF Consistent
<1>2. g \in [Sources -> Nat] /\ g[s] = h[s] - 1
  OBVIOUS
<1>3. e.srcRef[s] \in Nat /\ e.srcRef[s] > 0
  BY <1>1 DEF EvType, RefsExact
<1>4. /\ d \in EvType /\ QueuesExact(d)
      /\ d.sources = e.sources /\ d.floating = e.floating /\ d.alloc = e.alloc
      /\ d.nRef = e.nRef /\ d.freed = e.freed /\ d.state = e.state
      /\ d.srcRef = [e.srcRef EXCEPT ![s] = @ - 1]
  <2>1. e.srcRef[s] - 1 \in Nat
    BY <1>3
  <2>2. d \in EvType
    BY <1>1, <2>1 DEF EvType
  <2> QED  BY <1>1, <2>2 DEF EvType, QueuesExact
<1> HIDE DEF d
<1>5. \A z \in Sources :
          d.srcRef[z] = g[z] + IF z \in d.sources \intersect d.floating THEN 1 ELSE 0
  BY <1>1, <1>3, <1>4 DEF EvType, RefsExact
<1>6. d.srcRef[s] \in Nat
  BY <1>4 DEF EvType
<1>7. CASE d.srcRef[s] > 0
  <2>1. \A z \in Sources : z \in d.alloc <=> d.srcRef[z] > 0 \/ z \in K
    BY <1>1, <1>3, <1>4, <1>7 DEF EvType, RefsExact
  <2>2. RefsExact(d, K, g, n)
    BY <1>1, <1>4, <1>5, <2>1 DEF RefsExact
  <2>3. SourceUnref(e, s, a) = d
    BY <1>7 DEF SourceUnref, d
  <2> QED  BY <1>4, <2>2, <2>3 DEF Leaves, Consistent
<1>8. CASE d.srcRef[s] = 0
  <2>1. g[s] = 0 /\ s \notin d.sources \intersect d.floating
    BY <1>2, <1>5, <1>8
  <2>2. \A z \in Sources : z \in d.alloc <=> d.srcRef[z] > 0 \/ z \in K \union {s}
    BY <1>1, <1>3, <1>4, <1>8 DEF EvType, RefsExact
  <2>3. RefsExact(d, K \union {s}, g, n)
    BY <1>1, <1>4, <1>5, <2>2 DEF RefsExact
  <2>4. Consistent(d, K \union {s}, g, n)
    BY <1>4, <2>3 DEF Consistent
  <2>5. CASE s = a
    <3>1. K \union {s} = K
      BY <2>5
    <3>2. Consistent(d, K, g, n)
      BY <2>4, <3>1, Zenon
    <3>3. n > 0 \/ K \intersect (d.sources \ {s}) = {}
      BY <1>4
    <3>4. Leaves(d, SourceDisconnect(d, s), K, g, n)
      BY <1>2, <2>1, <3>2, <3>3, SourceDisconnectKeeps
    <3>5. SourceUnref(e, s, a) = SourceDisconnect(d, s)
      BY <1>8, <2>5 DEF SourceUnref, d
    <3> QED  BY <1>4, <3>4, <3>5 DEF Leaves
  <2>6. CASE s # a
    <3>1. s \notin K /\ (n > 0 \/ K \intersect d.sources = {})
      BY <1>4, <2>6
    <3>2. Leaves(d, SourceFree(d, s), K, g, n)
      BY <1>2, <2>1, <2>4, <3>1, SourceFreeKeeps
    <3>3. SourceUnref(e, s, a) = SourceFree(d, s)
      BY <1>8, <2>6 DEF SourceUnref, d
    <3> QED  BY <1>4, <3>2, <3>3 DEF Leaves
  <2> QED  BY <2>5, <2>6
<1>9. d.srcRef[s] > 0 \/ d.srcRef[s] = 0
  BY <1>6
<1> QED  BY <1>7, <1>8, <1>9

(* A callback of s returns; the loop is protected by the call it ran in.   *)
LEMMA CallbackDoneKeeps ==
    ASSUME NEW e, NEW h \in [Sources -> Nat], NEW n \in Nat, NEW s \in Sources,
           NEW failed \in BOOLEAN,
           Consistent(e, {s}, h, n),
           n > 0
    PROVE  /\ Consistent(CallbackDone(e, s, failed), {}, h, n)
           /\ CallbackDone(e, s, failed).state = e.state
<1> DEFINE x == IF failed /\ s \in ExitOnFailure THEN [e EXCEPT !.exitRequested = TRUE] ELSE e
<1>1. e \in EvType /\ QueuesExact(e) /\ RefsExact(e, {s}, h, n)
  BY DEF Consistent
<1>2. x \in EvType /\ QueuesExact(x) /\ SameRefs(e, x)
  BY <1>1 DEF EvType, QueuesExact, SameRefs, SameCounts
<1>3. Consistent(x, {s}, h, n)
  BY <1>2, SameCountsConsistent DEF SameRefs
<1>4. x.srcRef[s] = h[s] + IF s \in x.sources \intersect x.floating THEN 1 ELSE 0
  BY <1>3 DEF Consistent, RefsExact
<1> HIDE DEF x
<1>5. CASE x.srcRef[s] = 0
  <2>1. h[s] = 0 /\ s \notin x.sources \intersect x.floating
    BY <1>4, <1>5
  <2>2. {} \union {s} = {s}
    OBVIOUS
  <2>3. Consistent(x, {} \union {s}, h, n)
    BY <1>3, <2>2, Zenon
  <2>4. Leaves(x, SourceFree(x, s), {}, h, n)
    BY <2>1, <2>3, SourceFreeKeeps
  <2>5. CallbackDone(e, s, failed) = SourceFree(x, s)
    BY <1>5 DEF CallbackDone, x
  <2> QED  BY <1>2, <2>4, <2>5 DEF SameRefs, SameCounts, Leaves
<1>6. CASE x.srcRef[s] # 0
  <2>1. x.srcRef[s] > 0
    BY <1>2, <1>6 DEF EvType
  <2>2. Consistent(x, {}, h, n)
    BY <1>3, <2>1 DEF Consistent, RefsExact
  <2>3. \/ CallbackDone(e, s, failed) = x
        \/ CallbackDone(e, s, failed) = EventSourceOffline(x, s)
    BY <1>6 DEF CallbackDone, SourceSetEnabled, x
  <2>4. /\ Consistent(EventSourceOffline(x, s), {}, h, n)
        /\ EventSourceOffline(x, s).state = x.state
    BY <1>2, <2>2, OfflineKeeps, SameCountsConsistent DEF SameRefs, SameCounts
  <2> QED  BY <1>2, <2>2, <2>3, <2>4 DEF SameRefs, SameCounts
<1> QED  BY <1>5, <1>6

(* Adding a source on memory that is not in use.                           *)
LEMMA SourceAddKeeps ==
    ASSUME NEW e, NEW K, NEW h \in [Sources -> Nat], NEW n \in Nat, NEW s \in Sources,
           NEW float \in BOOLEAN,
           Consistent(e, K, h, n),
           ~e.freed,
           s \notin e.alloc,
           NEW g \in [Sources -> Nat], g = [h EXCEPT ![s] = IF float THEN 0 ELSE 1]
    PROVE  Leaves(e, SourceAdd(e, s, float), K, g, n)
<1> DEFINE fl  == IF float THEN e.floating \union {s} ELSE e.floating
           cnt == IF float THEN e.nRef ELSE e.nRef + 1
           mode == IF AlwaysPends(s) THEN "oneshot" ELSE "on"
           reg == IF Io(s) THEN "armed" ELSE e.epoll[s]
           pst == IF TypeOf[s] = "post" THEN e.posts \union {s} ELSE e.posts
           ext == IF TypeOf[s] = "exit" THEN e.exitQ \union {s} ELSE e.exitQ
           new == [e EXCEPT
                     !.alloc = @ \union {s}, !.sources = @ \union {s}, !.srcRef[s] = 1,
                     !.floating = fl, !.nRef = cnt, !.enabled[s] = mode, !.epoll[s] = reg,
                     !.posts = pst, !.exitQ = ext]
           ownE == e.sources \ e.floating
           ownN == new.sources \ new.floating
<1>1. e \in EvType /\ QueuesExact(e) /\ RefsExact(e, K, h, n)
  BY DEF Consistent
<1>2. /\ s \notin e.sources /\ s \notin e.pending /\ s \notin e.prepare /\ s \notin e.floating
      /\ s \notin K /\ h[s] = 0
  BY <1>1 DEF QueuesExact, RefsExact, EvType
<1>3. fl \in SUBSET Sources /\ cnt \in Nat /\ mode \in Modes
  BY <1>1 DEF EvType, Modes
<1>4. /\ reg \in {"none", "armed", "spent"} /\ (reg # "none" => Io(s))
      /\ pst \in SUBSET Sources /\ pst = {z \in e.sources \union {s} : TypeOf[z] = "post"}
      /\ ext \in SUBSET Sources /\ ext = {z \in e.sources \union {s} : TypeOf[z] = "exit"}
  <2>1. reg \in {"none", "armed", "spent"} /\ (reg # "none" => Io(s))
    BY <1>1, <1>2 DEF EvType, QueuesExact
  <2>2. pst \in SUBSET Sources /\ pst = {z \in e.sources \union {s} : TypeOf[z] = "post"}
    BY <1>1 DEF EvType, QueuesExact
  <2>3. ext \in SUBSET Sources /\ ext = {z \in e.sources \union {s} : TypeOf[z] = "exit"}
    BY <1>1 DEF EvType, QueuesExact
  <2> QED  BY <2>1, <2>2, <2>3
<1> HIDE DEF fl, cnt, mode, reg, pst, ext
<1>5a. new \in EvType
  <2>1. e.alloc \union {s} \in SUBSET Sources /\ e.sources \union {s} \in SUBSET Sources
    BY <1>1 DEF EvType
  <2>2. /\ [e.srcRef EXCEPT ![s] = 1] \in [Sources -> Nat]
        /\ [e.enabled EXCEPT ![s] = mode] \in [Sources -> Modes]
        /\ [e.epoll EXCEPT ![s] = reg] \in [Sources -> {"none", "armed", "spent"}]
    BY <1>1, <1>3, <1>4 DEF EvType
  <2> QED  BY <1>1, <1>3, <1>4, <2>1, <2>2 DEF EvType
<1>5b. /\ new.sources = e.sources \union {s} /\ new.alloc = e.alloc \union {s}
       /\ new.srcRef = [e.srcRef EXCEPT ![s] = 1] /\ new.floating = fl /\ new.nRef = cnt
       /\ new.freed = e.freed /\ new.state = e.state
  BY <1>1 DEF EvType
<1>5c. QueuesExact(new)
  <2>1. /\ new.sources \union new.pending \union new.prepare \subseteq new.alloc
        /\ new.pendingQ = new.sources \intersect new.pending
        /\ new.prepareQ = new.sources \intersect new.prepare
        /\ new.exitQ = ext /\ new.posts = pst
        /\ new.fresh \subseteq new.pendingQ
        /\ new.older \subseteq new.pendingQ \X new.pendingQ
    BY <1>1, <1>2 DEF EvType, QueuesExact
  <2>2. \A z \in Sources : new.epoll[z] # "none" => z \in new.sources /\ Io(z)
    BY <1>1, <1>4 DEF EvType, QueuesExact
  <2>3. new.floating \subseteq new.alloc
    BY <1>1, <1>5b DEF QueuesExact, fl
  <2> QED  BY <1>4, <1>5b, <2>1, <2>2, <2>3 DEF QueuesExact
<1>5d. SourceAdd(e, s, float) = IF TypeOf[s] = "defer" THEN MarkPending(new, {s}) ELSE new
  BY DEF SourceAdd, fl, cnt, mode, reg, pst, ext
<1> HIDE DEF new
<1>6. new.nRef = n + Cardinality(ownN)
  <2>1. ownE \in SUBSET Sources /\ s \notin ownE
    BY <1>1, <1>2 DEF EvType
  <2>2. IsFiniteSet(ownE) /\ Cardinality(ownE) \in Nat
    BY <2>1, FinitePart
  <2>3. e.nRef = n + Cardinality(ownE)
    BY <1>1 DEF RefsExact
  <2>4. CASE float
    <3>1. ownN = ownE /\ cnt = e.nRef
      BY <1>2, <1>5b, <2>4 DEF fl, cnt
    <3> QED  BY <1>5b, <2>3, <3>1
  <2>5. CASE ~float
    <3>1. ownN = ownE \union {s} /\ cnt = e.nRef + 1
      BY <1>2, <1>5b, <2>5 DEF fl, cnt
    <3>2. Cardinality(ownN) = Cardinality(ownE) + 1
      BY <2>1, <2>2, <3>1, FS_AddElement
    <3> QED  BY <1>5b, <2>2, <2>3, <3>1, <3>2
  <2> QED  BY <2>4, <2>5
<1>7. ASSUME NEW z \in Sources
      PROVE  new.srcRef[z] = g[z] + IF z \in new.sources \intersect new.floating THEN 1 ELSE 0
  BY <1>1, <1>2, <1>5b DEF EvType, RefsExact, fl
<1>8. \A z \in Sources : z \in new.alloc <=> new.srcRef[z] > 0 \/ z \in K
  BY <1>1, <1>2, <1>5b DEF EvType, RefsExact
<1>9. ~new.freed /\ new.nRef # 0
  BY <1>1, <1>5b DEF EvType, RefsExact, cnt
<1>10. Consistent(new, K, g, n)
  BY <1>5a, <1>5c, <1>6, <1>7, <1>8, <1>9 DEF Consistent, RefsExact
<1>11. {s} \in SUBSET new.sources
  BY <1>5b
<1>12. /\ Consistent(MarkPending(new, {s}), K, g, n)
       /\ MarkPending(new, {s}).state = new.state
  BY <1>5a, <1>5c, <1>10, <1>11, MarkPendingKeeps, SameCountsConsistent DEF SameRefs, SameCounts
<1> QED  BY <1>5b, <1>5d, <1>10, <1>12 DEF Leaves

(* source_dispatch up to the callback takes a reference on the loop.       *)
LEMMA DispatchBeginKeeps ==
    ASSUME NEW e, NEW h \in [Sources -> Nat], NEW n \in Nat, NEW s \in e.sources,
           Consistent(e, {}, h, n)
    PROVE  /\ Consistent(SourceDispatchBegin(e, s), {s}, h, n + 1)
           /\ SourceDispatchBegin(e, s).state = e.state
<1> DEFINE taken  == IF AlwaysPends(s) THEN Restamp(e, s) ELSE ClearPending(e, s)
           marked == MarkPosts(taken, TypeOf[s])
           once   == IF marked.enabled[s] = "oneshot" THEN SourceSetEnabled(marked, s, "off") ELSE marked
           f      == [once EXCEPT !.nRef = @ + 1]
<1>1. e \in EvType /\ QueuesExact(e) /\ RefsExact(e, {}, h, n)
  BY DEF Consistent
<1>2. s \in Sources
  BY <1>1 DEF EvType
<1>3. taken \in EvType /\ QueuesExact(taken) /\ SameRefs(e, taken)
  BY <1>1, <1>2, RestampKeeps, ClearPendingKeeps
<1> HIDE DEF taken
<1>4. marked \in EvType /\ QueuesExact(marked) /\ SameRefs(e, marked)
  BY <1>3, MarkPostsKeeps DEF SameRefs, SameCounts
<1> HIDE DEF marked
<1>5. s \in marked.sources /\ "off" \in Modes
  BY <1>4 DEF SameRefs, SameCounts, Modes
<1>6. once \in EvType /\ QueuesExact(once) /\ SameRefs(e, once)
  BY <1>4, <1>5, SetEnabledKeeps DEF SameRefs, SameCounts
<1> HIDE DEF once
<1>7. Consistent(once, {}, h, n)
  BY <1>6, SameCountsConsistent DEF SameRefs
<1>8. /\ f \in EvType /\ QueuesExact(f) /\ f.state = e.state
      /\ f.sources = once.sources /\ f.alloc = once.alloc /\ f.srcRef = once.srcRef
      /\ f.floating = once.floating /\ f.freed = once.freed /\ f.nRef = once.nRef + 1
  BY <1>6 DEF EvType, QueuesExact, SameRefs, SameCounts
<1> HIDE DEF f
<1>9. s \in once.alloc /\ s \in once.sources
  BY <1>6 DEF QueuesExact, SameRefs, SameCounts
<1>10. ~f.freed /\ f.nRef # 0
  BY <1>7, <1>8, <1>9 DEF Consistent, RefsExact, EvType
<1>11. f.nRef = n + 1 + Cardinality(f.sources \ f.floating)
  <2>1. Cardinality(f.sources \ f.floating) \in Nat
    BY <1>8, FinitePart DEF EvType
  <2> QED  BY <1>7, <1>8, <2>1 DEF Consistent, RefsExact
<1>12. \A z \in Sources : z \in f.alloc <=> f.srcRef[z] > 0 \/ z \in {s}
  BY <1>7, <1>8, <1>9 DEF Consistent, RefsExact
<1>13. RefsExact(f, {s}, h, n + 1)
  BY <1>7, <1>8, <1>10, <1>11, <1>12 DEF Consistent, RefsExact
<1>14. SourceDispatchBegin(e, s) = f
  BY DEF SourceDispatchBegin, f, once, marked, taken
<1> QED  BY <1>8, <1>13, <1>14 DEF Consistent

-----------------------------------------------------------------------------
(* The inductive invariant: the loop object is consistent with what the    *)
(* program and the loop's own calls own, and a callback only runs inside a *)
(* call that protects the loop.                                            *)
Owners == evHeld + IF Protected THEN 1 ELSE 0
InCallback == {active} \ {NoSource}

IInv ==
    /\ active \in Sources \union {NoSource}
    /\ held \in [Sources -> Nat]
    /\ evHeld \in Nat
    /\ ready \subseteq Sources
    /\ active # NoSource => Protected
    /\ Consistent(ev, InCallback, held, Owners)

LEMMA InitIInv == Init => IInv
<1> SUFFICES ASSUME Init PROVE IInv
  OBVIOUS
<1>1. active = NoSource /\ held \in [Sources -> Nat] /\ evHeld = 1 /\ ready = {}
  BY DEF Init
<1>2. ev \in EvType
  BY PrioritiesAssumption DEF Init, EvType, LoopStates, Modes
<1>3. QueuesExact(ev)
  BY DEF Init, QueuesExact
<1>4. Owners = 1 /\ InCallback = {}
  BY <1>1 DEF Init, Owners, Protected, InCallback
<1>5. Cardinality(ev.sources \ ev.floating) = 0
  <2>1. ev.sources \ ev.floating = {}
    BY DEF Init
  <2> QED  BY <2>1, FS_EmptySet
<1>6. RefsExact(ev, {}, held, 1)
  BY <1>5 DEF Init, RefsExact
<1>7. Consistent(ev, InCallback, held, Owners)
  BY <1>2, <1>3, <1>4, <1>6 DEF Consistent
<1> QED  BY <1>1, <1>7 DEF IInv

(* The loop's step in progress is what the owners of the loop gain or lose *)
(* one by; everything else leaves the owners to the program.               *)
LEMMA IInvFacts ==
    ASSUME IInv
    PROVE  /\ ev \in EvType /\ QueuesExact(ev) /\ RefsExact(ev, InCallback, held, Owners)
           /\ Owners \in Nat
           /\ Owners > 0 \/ InCallback = {}
           /\ active = NoSource => InCallback = {}
           /\ active # NoSource => InCallback = {active} /\ active \in Sources
           /\ Protected => Owners = evHeld + 1
           /\ ~Protected => Owners = evHeld
  BY DEF IInv, Consistent, Owners, InCallback

LEMMA StateConsistent ==
    ASSUME NEW e, NEW K, NEW h, NEW n, NEW st \in LoopStates, Consistent(e, K, h, n)
    PROVE  /\ Consistent([e EXCEPT !.state = st], K, h, n)
           /\ [e EXCEPT !.state = st].state = st
<1>1. e \in EvType /\ QueuesExact(e)
  BY DEF Consistent
<1>2. /\ [e EXCEPT !.state = st] \in EvType /\ QueuesExact([e EXCEPT !.state = st])
      /\ SameCounts(e, [e EXCEPT !.state = st]) /\ [e EXCEPT !.state = st].state = st
  BY <1>1 DEF EvType, QueuesExact, SameCounts
<1> QED  BY <1>2, SameCountsConsistent

(* One more reference on the loop.                                         *)
LEMMA EventRefConsistent ==
    ASSUME NEW e, NEW f, NEW K, NEW h, NEW n \in Nat,
           Consistent(e, K, h, n), ~e.freed, f \in EvType, QueuesExact(f),
           f.freed = e.freed, f.nRef = e.nRef + 1, f.sources = e.sources,
           f.alloc = e.alloc, f.srcRef = e.srcRef, f.floating = e.floating
    PROVE  Consistent(f, K, h, n + 1)
<1>1. e \in EvType /\ Cardinality(e.sources \ e.floating) \in Nat
  BY FinitePart DEF Consistent, EvType
<1> QED  BY <1>1 DEF Consistent, RefsExact, EvType

(* Steps that leave the owners alone.                                      *)
LEMMA QuietStep ==
    ASSUME IInv, UNCHANGED <<active, held, evHeld>>, ready' \subseteq Sources,
           Protected' <=> Protected, Consistent(ev', InCallback, held, Owners)
    PROVE  IInv'
<1>1. Owners' = Owners /\ InCallback' = InCallback /\ held' = held
  BY DEF Owners, InCallback
<1>2. Consistent(ev', InCallback', held', Owners')
  BY <1>1, Zenon
<1> QED  BY <1>2 DEF IInv

-----------------------------------------------------------------------------
(* The loop's steps.                                                       *)

(* ev' = [ev EXCEPT !.state = st, !.exitRequested = x] for a step between  *)
(* two states in which the loop is not protected.                          *)
LEMMA StateStepKeeps ==
    ASSUME IInv,
           PrepareExit \/ WaitExit \/ WaitTimeout \/ WaitInterrupted \/ DispatchNothing \/ Finish
    PROVE  IInv'
<1>1. ev \in EvType /\ QueuesExact(ev)
  BY IInvFacts
<1>2. ev.state \in LoopStates /\ ~Protected
  BY <1>1 DEF PrepareExit, WaitExit, WaitTimeout, WaitInterrupted, DispatchNothing, Finish,
              LoopTurn, Protected, EvType
<1>3. UNCHANGED <<active, held, evHeld, ready>>
  BY DEF PrepareExit, WaitExit, WaitTimeout, WaitInterrupted, DispatchNothing, Finish
<1>4. PICK st \in {"pending", "initial", "finished"} :
          \/ ev' = [ev EXCEPT !.state = st]
          \/ ev' = [ev EXCEPT !.exitRequested = TRUE, !.state = st]
  <2>1. CASE PrepareExit
    BY <2>1, Zenon DEF PrepareExit
  <2>2. CASE WaitTimeout
    <3>1. (IF NextPending(ev) # {} THEN "pending" ELSE "initial") \in {"pending", "initial", "finished"}
      OBVIOUS
    <3> QED  BY <2>2, <3>1, Zenon DEF WaitTimeout
  <2>3. CASE WaitExit \/ WaitInterrupted \/ DispatchNothing \/ Finish
    BY <2>3, Zenon DEF WaitExit, WaitInterrupted, DispatchNothing, Finish
  <2> QED  BY <2>1, <2>2, <2>3
<1>5. st \in LoopStates /\ st \notin {"preparing", "running", "exiting"}
  BY <1>4 DEF LoopStates
<1>6. /\ ev' \in EvType /\ QueuesExact(ev') /\ SameCounts(ev, ev') /\ ev'.state = st
  <2>1. CASE ev' = [ev EXCEPT !.state = st]
    BY <1>1, <1>5, <2>1 DEF EvType, QueuesExact, SameCounts
  <2>2. CASE ev' = [ev EXCEPT !.exitRequested = TRUE, !.state = st]
    BY <1>1, <1>5, <2>2 DEF EvType, QueuesExact, SameCounts
  <2> QED  BY <1>4, <2>1, <2>2
<1>7. ~Protected'
  BY <1>5, <1>6 DEF Protected
<1>8. Consistent(ev', InCallback, held, Owners)
  BY <1>6, SameCountsConsistent DEF IInv
<1> QED  BY <1>2, <1>3, <1>7, <1>8, QuietStep DEF IInv

LEMMA PrepareBeginKeeps ==
    ASSUME IInv, PrepareBegin
    PROVE  IInv'
<1>1. /\ active = NoSource /\ ~ev.freed /\ ev.state = "initial"
      /\ UNCHANGED <<active, held, evHeld, ready>>
      /\ ev' = [ev EXCEPT !.fresh = {}, !.prepared = {}, !.state = "preparing", !.nRef = @ + 1]
  BY DEF PrepareBegin, LoopTurn
<1>2. ev \in EvType /\ QueuesExact(ev)
  BY IInvFacts
<1>3. /\ ev' \in EvType /\ QueuesExact(ev') /\ ev'.state = "preparing"
      /\ ev'.freed = ev.freed /\ ev'.nRef = ev.nRef + 1 /\ ev'.sources = ev.sources
      /\ ev'.alloc = ev.alloc /\ ev'.srcRef = ev.srcRef /\ ev'.floating = ev.floating
  <2>1. ev' \in EvType
    <3>1. ev.nRef + 1 \in Nat /\ "preparing" \in LoopStates /\ {} \in SUBSET Sources
      BY <1>2 DEF EvType, LoopStates
    <3> QED  BY <1>1, <1>2, <3>1 DEF EvType
  <2>2. QueuesExact(ev')
    BY <1>1, <1>2 DEF EvType, QueuesExact
  <2> QED  BY <1>1, <1>2, <2>1, <2>2 DEF EvType
<1>4. Consistent(ev', InCallback, held, Owners + 1)
  BY <1>1, <1>3, IInvFacts, EventRefConsistent DEF IInv
<1>5. Owners' = Owners + 1 /\ InCallback' = InCallback /\ held' = held
  BY <1>1, <1>3 DEF Owners, InCallback, Protected, IInv
<1>6. Consistent(ev', InCallback', held', Owners')
  BY <1>4, <1>5, Zenon
<1> QED  BY <1>1, <1>3, <1>6 DEF IInv, Protected

LEMMA PrepareCallbackKeeps ==
    ASSUME IInv, NEW s \in Sources, PrepareCallback(s)
    PROVE  IInv'
<1>1. /\ active = NoSource /\ ev.state = "preparing" /\ s \in ev.prepareQ
      /\ active' = s /\ UNCHANGED <<held, evHeld, ready>>
      /\ ev' = [ev EXCEPT !.prepared = @ \union {s}]
  BY DEF PrepareCallback, LoopTurn, Unprepared
<1>2. /\ ev' \in EvType /\ QueuesExact(ev') /\ ev'.state = "preparing"
      /\ ev'.freed = ev.freed /\ ev'.nRef = ev.nRef /\ ev'.sources = ev.sources
      /\ ev'.alloc = ev.alloc /\ ev'.srcRef = ev.srcRef /\ ev'.floating = ev.floating
  BY <1>1, IInvFacts DEF EvType, QueuesExact
<1>3. InCallback = {} /\ InCallback' = {s}
  BY <1>1, NoSourceAssumption DEF InCallback
<1>4. s \in ev.alloc /\ RefsExact(ev, {}, held, Owners)
  BY <1>1, <1>3, IInvFacts DEF QueuesExact
<1>5. RefsExact(ev', {s}, held, Owners)
  BY <1>2, <1>4 DEF RefsExact
<1>6. Owners' = Owners /\ held' = held
  BY <1>1, <1>2 DEF Owners, Protected
<1>7. Consistent(ev', {s}, held, Owners)
  BY <1>2, <1>5 DEF Consistent
<1>8. Consistent(ev', InCallback', held', Owners')
  BY <1>3, <1>6, <1>7, Zenon
<1> QED  BY <1>1, <1>2, <1>8 DEF IInv, Protected

(* A callback returns, up to the end of the call that protects the loop.   *)
LEMMA CallbackReturned ==
    ASSUME IInv, active # NoSource, Protected, NEW failed \in BOOLEAN
    PROVE  /\ Consistent(CallbackDone(ev, active, failed), {}, held, evHeld + 1)
           /\ CallbackDone(ev, active, failed).state = ev.state
<1>1. InCallback = {active} /\ active \in Sources /\ Owners = evHeld + 1
  BY IInvFacts
<1>2. Consistent(ev, {active}, held, evHeld + 1)
  BY <1>1, Zenon DEF IInv
<1>3. evHeld + 1 \in Nat /\ evHeld + 1 > 0 /\ held \in [Sources -> Nat]
  BY DEF IInv
<1> QED  BY <1>1, <1>2, <1>3, CallbackDoneKeeps

LEMMA PrepareReturnKeeps ==
    ASSUME IInv, NEW failed \in BOOLEAN, PrepareReturn(failed)
    PROVE  IInv'
<1>1. /\ active # NoSource /\ Protected /\ active' = NoSource
      /\ UNCHANGED <<held, evHeld, ready>>
      /\ ev' = CallbackDone(ev, active, failed)
  BY DEF PrepareReturn, Protected
<1>2. Consistent(ev', {}, held, evHeld + 1) /\ ev'.state = ev.state
  BY <1>1, CallbackReturned
<1>3. Owners' = evHeld + 1 /\ InCallback' = {} /\ held' = held
  BY <1>1, <1>2 DEF Owners, InCallback, Protected
<1>4. Consistent(ev', InCallback', held', Owners')
  BY <1>2, <1>3, Zenon
<1> QED  BY <1>1, <1>4 DEF IInv

LEMMA PrepareEndKeeps ==
    ASSUME IInv, PrepareEnd
    PROVE  IInv'
<1> DEFINE polled == IF ev.exitRequested THEN ev ELSE ProcessEpoll(ev)
           armed == [ev EXCEPT !.state = "armed"]
           ended == [polled EXCEPT !.state = "pending"]
<1>1. /\ active = NoSource /\ Protected /\ UNCHANGED <<active, held, evHeld, ready>>
      /\ ev' = EventUnref(armed) \/ ev' = EventUnref(ended)
  BY DEF PrepareEnd, LoopTurn, Protected
<1>2. InCallback = {} /\ Owners = evHeld + 1
  BY <1>1, IInvFacts
<1>3. Consistent(ev, {}, held, evHeld + 1)
  BY <1>2, Zenon DEF IInv
<1>4. SameCounts(ev, ev)
  BY DEF SameCounts
<1>5. polled \in EvType /\ QueuesExact(polled) /\ SameCounts(ev, polled)
  BY <1>4, IInvFacts, ProcessEpollKeeps DEF SameRefs, IInv
<1>6. Consistent(polled, {}, held, evHeld + 1)
  BY <1>3, <1>5, SameCountsConsistent
<1>7. {"armed", "pending"} \subseteq LoopStates
  BY DEF LoopStates
<1> HIDE DEF polled
<1>8. /\ Consistent(armed, {}, held, evHeld + 1) /\ armed.state = "armed"
      /\ Consistent(ended, {}, held, evHeld + 1) /\ ended.state = "pending"
  BY <1>3, <1>6, <1>7, StateConsistent
<1> HIDE DEF armed, ended
<1>9. Consistent(ev', {}, held, evHeld) /\ ev'.state \in {"armed", "pending"}
  <2>1. held \in [Sources -> Nat] /\ evHeld \in Nat
    BY DEF IInv
  <2>2. {} \intersect armed.sources = {} /\ {} \intersect ended.sources = {}
    OBVIOUS
  <2>3. Consistent(EventUnref(armed), {}, held, evHeld) /\ EventUnref(armed).state = "armed"
    BY <1>8, <2>1, <2>2, EventUnrefKeeps
  <2>4. Consistent(EventUnref(ended), {}, held, evHeld) /\ EventUnref(ended).state = "pending"
    BY <1>8, <2>1, <2>2, EventUnrefKeeps
  <2> QED  BY <1>1, <2>3, <2>4
<1>10. Owners' = evHeld /\ InCallback' = {} /\ held' = held
  BY <1>1, <1>2, <1>9 DEF Owners, InCallback, Protected, IInv
<1>11. Consistent(ev', InCallback', held', Owners')
  BY <1>9, <1>10, Zenon
<1> QED  BY <1>1, <1>11 DEF IInv

LEMMA WaitReportedKeeps ==
    ASSUME IInv, WaitReported
    PROVE  IInv'
<1> DEFINE polled == ProcessEpoll(ev)
           st == IF NextPending(polled) # {} THEN "pending" ELSE "initial"
<1>1. /\ ~Protected /\ UNCHANGED <<active, held, evHeld, ready>>
      /\ ev' = [polled EXCEPT !.state = st]
  BY DEF WaitReported, LoopTurn, Protected
<1>2. polled \in EvType /\ QueuesExact(polled) /\ SameCounts(ev, polled)
  BY IInvFacts, ProcessEpollKeeps DEF SameRefs, IInv
<1>3. Consistent(polled, InCallback, held, Owners)
  BY <1>2, SameCountsConsistent DEF IInv
<1>4. st \in LoopStates /\ st \in {"pending", "initial"}
  BY DEF LoopStates
<1> HIDE DEF polled, st
<1>5. Consistent(ev', InCallback, held, Owners) /\ ev'.state = st
  BY <1>1, <1>3, <1>4, StateConsistent
<1>6. ~Protected'
  BY <1>4, <1>5 DEF Protected
<1> QED  BY <1>1, <1>5, <1>6, QuietStep DEF IInv

(* From the pending state to a state in which s's callback runs.           *)
LEMMA CallbackBegins ==
    ASSUME IInv, NEW s \in Sources, ~Protected, active = NoSource, active' = s,
           UNCHANGED <<held, evHeld, ready>>,
           Consistent(ev', {s}, held, evHeld + 1), ev'.state \in {"running", "exiting"}
    PROVE  IInv'
<1>1. Owners' = evHeld + 1 /\ InCallback' = {s} /\ held' = held
  BY NoSourceAssumption DEF Owners, InCallback, Protected
<1>2. Consistent(ev', InCallback', held', Owners')
  BY <1>1, Zenon
<1> QED  BY <1>2 DEF IInv, Protected

LEMMA DispatchKeeps ==
    ASSUME IInv, NEW s \in Sources, Dispatch(s)
    PROVE  IInv'
<1> DEFINE d == SourceDispatchBegin(ev, s)
<1>1. /\ active = NoSource /\ ~Protected /\ s \in ev.pendingQ
      /\ active' = s /\ UNCHANGED <<held, evHeld, ready>>
      /\ ev' = [d EXCEPT !.state = "running"]
  BY DEF Dispatch, LoopTurn, Protected, NextPending
<1>2. InCallback = {} /\ Owners = evHeld /\ s \in ev.sources
  BY <1>1, IInvFacts DEF QueuesExact
<1>3. Consistent(ev, {}, held, evHeld)
  BY <1>2, Zenon DEF IInv
<1>4. Consistent(d, {s}, held, evHeld + 1)
  BY <1>2, <1>3, DispatchBeginKeeps DEF IInv
<1>5. "running" \in LoopStates
  BY DEF LoopStates
<1> HIDE DEF d
<1>6. Consistent(ev', {s}, held, evHeld + 1) /\ ev'.state = "running"
  BY <1>1, <1>4, <1>5, StateConsistent
<1> QED  BY <1>1, <1>6, CallbackBegins

LEMMA DispatchExitKeeps ==
    ASSUME IInv, NEW s \in Sources, DispatchExit(s)
    PROVE  IInv'
<1> DEFINE c == [ev EXCEPT !.fresh = {}, !.prepared = {}, !.state = "exiting"]
<1>1. /\ active = NoSource /\ ~Protected /\ s \in ev.exitQ
      /\ active' = s /\ UNCHANGED <<held, evHeld, ready>>
      /\ ev' = SourceDispatchBegin(c, s)
  BY DEF DispatchExit, LoopTurn, Protected, NextExit
<1>2. InCallback = {} /\ Owners = evHeld /\ s \in ev.sources
  BY <1>1, IInvFacts DEF QueuesExact
<1>3. Consistent(ev, {}, held, evHeld)
  BY <1>2, Zenon DEF IInv
<1>4. ev \in EvType /\ QueuesExact(ev) /\ "exiting" \in LoopStates
  BY IInvFacts DEF LoopStates
<1>5. /\ c \in EvType /\ QueuesExact(c) /\ SameCounts(ev, c)
      /\ c.state = "exiting" /\ c.sources = ev.sources
  BY <1>4 DEF EvType, QueuesExact, SameCounts
<1> HIDE DEF c
<1>6. Consistent(c, {}, held, evHeld)
  BY <1>3, <1>5, SameCountsConsistent
<1>7. Consistent(ev', {s}, held, evHeld + 1) /\ ev'.state = "exiting"
  BY <1>1, <1>2, <1>5, <1>6, DispatchBeginKeeps DEF IInv
<1> QED  BY <1>1, <1>7, CallbackBegins

LEMMA DispatchReturnKeeps ==
    ASSUME IInv, NEW failed \in BOOLEAN, DispatchReturn(failed)
    PROVE  IInv'
<1> DEFINE c == CallbackDone(ev, active, failed)
           done == MarkPosts(c, TypeOf[active])
           d == [done EXCEPT !.state = "initial"]
<1>1. /\ active # NoSource /\ Protected /\ active' = NoSource
      /\ UNCHANGED <<held, evHeld, ready>>
      /\ ev' = EventUnref(d)
  BY DEF DispatchReturn, Protected
<1>2. Consistent(c, {}, held, evHeld + 1)
  BY <1>1, CallbackReturned
<1> HIDE DEF c
<1>3. c \in EvType /\ QueuesExact(c)
  BY <1>2 DEF Consistent
<1>4. done \in EvType /\ QueuesExact(done) /\ SameCounts(c, done)
  BY <1>3, MarkPostsKeeps DEF SameRefs
<1> HIDE DEF done
<1>5. Consistent(done, {}, held, evHeld + 1)
  BY <1>2, <1>4, SameCountsConsistent
<1>6. Consistent(d, {}, held, evHeld + 1) /\ d.state = "initial"
  BY <1>5, StateConsistent DEF LoopStates
<1> HIDE DEF d
<1>7. Consistent(ev', {}, held, evHeld) /\ ev'.state = "initial"
  <2>1. {} \intersect d.sources = {} /\ held \in [Sources -> Nat] /\ evHeld \in Nat
    BY DEF IInv
  <2>2. Consistent(EventUnref(d), {}, held, evHeld) /\ EventUnref(d).state = d.state
    BY <1>6, <2>1, EventUnrefKeeps
  <2> QED  BY <1>1, <1>6, <2>2
<1>8. Owners' = evHeld /\ InCallback' = {} /\ held' = held
  BY <1>1, <1>7 DEF Owners, InCallback, Protected, IInv
<1>9. Consistent(ev', InCallback', held', Owners')
  BY <1>7, <1>8, Zenon
<1> QED  BY <1>1, <1>9 DEF IInv

-----------------------------------------------------------------------------
(* The program's calls.                                                    *)

(* The object a quiet call leaves differs from ev in what reference counts *)
(* do not depend on.                                                       *)
LEMMA QuietCall ==
    ASSUME IInv, UNCHANGED <<active, held, evHeld>>, ready' \subseteq Sources,
           ev' \in EvType, QueuesExact(ev'), SameRefs(ev, ev')
    PROVE  IInv'
<1>1. Consistent(ev', InCallback, held, Owners)
  BY SameCountsConsistent DEF IInv, SameRefs
<1>2. Protected' <=> Protected
  BY DEF Protected, SameRefs
<1> QED  BY <1>1, <1>2, QuietStep

LEMMA AddKeeps ==
    ASSUME IInv, NEW s \in Sources, NEW float \in BOOLEAN, Add(s, float)
    PROVE  IInv'
<1>1. /\ s \notin ev.alloc /\ ~ev.freed /\ ev' = SourceAdd(ev, s, float)
      /\ held' = [held EXCEPT ![s] = IF float THEN 0 ELSE 1]
      /\ UNCHANGED <<active, evHeld, ready>>
  BY DEF Add, LoopUsable
<1>5. held' \in [Sources -> Nat]
  BY <1>1 DEF IInv
<1>2. Consistent(ev', InCallback, held', Owners) /\ ev'.state = ev.state
  <2>1. held \in [Sources -> Nat] /\ Owners \in Nat /\ Consistent(ev, InCallback, held, Owners)
    BY IInvFacts DEF IInv
  <2>2. Leaves(ev, SourceAdd(ev, s, float), InCallback, held', Owners)
    BY <1>1, <1>5, <2>1, SourceAddKeeps
  <2> QED  BY <1>1, <2>2 DEF Leaves
<1>3. Owners' = Owners /\ InCallback' = InCallback /\ (Protected' <=> Protected)
  BY <1>1, <1>2 DEF Owners, InCallback, Protected
<1>4. Consistent(ev', InCallback', held', Owners')
  BY <1>2, <1>3, Zenon
<1> QED  BY <1>1, <1>3, <1>4, <1>5 DEF IInv

LEMMA RefKeeps ==
    ASSUME IInv, NEW s \in Sources, Ref(s)
    PROVE  IInv'
<1>1. /\ held[s] > 0 \/ ev.srcRef[s] > 0
      /\ ev' = [ev EXCEPT !.srcRef[s] = @ + 1]
      /\ held' = [held EXCEPT ![s] = @ + 1] /\ UNCHANGED <<active, evHeld, ready>>
  BY DEF Ref
<1>2. ev \in EvType /\ QueuesExact(ev) /\ RefsExact(ev, InCallback, held, Owners)
      /\ held \in [Sources -> Nat]
  BY IInvFacts DEF IInv
<1>3. ev.srcRef[s] \in Nat /\ ev.srcRef[s] > 0
  BY <1>1, <1>2 DEF EvType, RefsExact
<1>4. /\ ev'.sources = ev.sources /\ ev'.floating = ev.floating /\ ev'.alloc = ev.alloc
      /\ ev'.nRef = ev.nRef /\ ev'.freed = ev.freed /\ ev'.state = ev.state
      /\ ev'.srcRef = [ev.srcRef EXCEPT ![s] = @ + 1]
  BY <1>1, <1>2 DEF EvType
<1>5. [ev.srcRef EXCEPT ![s] = @ + 1] \in [Sources -> Nat]
  BY <1>2 DEF EvType
<1>6. ev' \in EvType
  BY <1>1, <1>2, <1>5 DEF EvType
<1>7. QueuesExact(ev')
  BY <1>1, <1>2 DEF EvType, QueuesExact
<1>8. \A z \in Sources :
          ev'.srcRef[z] = held'[z] + IF z \in ev'.sources \intersect ev'.floating THEN 1 ELSE 0
  BY <1>1, <1>2, <1>4 DEF EvType, RefsExact
<1>9. \A z \in Sources : z \in ev'.alloc <=> ev'.srcRef[z] > 0 \/ z \in InCallback
  BY <1>2, <1>3, <1>4 DEF EvType, RefsExact
<1>10. RefsExact(ev', InCallback, held', Owners)
  BY <1>2, <1>4, <1>8, <1>9 DEF RefsExact
<1>11. Owners' = Owners /\ InCallback' = InCallback /\ (Protected' <=> Protected)
  BY <1>1, <1>4 DEF Owners, InCallback, Protected
<1>12. Consistent(ev', InCallback, held', Owners)
  BY <1>6, <1>7, <1>10 DEF Consistent
<1>13. Consistent(ev', InCallback', held', Owners')
  BY <1>11, <1>12, Zenon
<1>14. held' \in [Sources -> Nat]
  BY <1>1, <1>2
<1> QED  BY <1>1, <1>11, <1>13, <1>14 DEF IInv

LEMMA UnrefKeeps ==
    ASSUME IInv, NEW s \in Sources, Unref(s)
    PROVE  IInv'
<1>1. /\ held[s] > 0 /\ ev' = SourceUnref(ev, s, active)
      /\ held' = [held EXCEPT ![s] = @ - 1] /\ UNCHANGED <<active, evHeld, ready>>
  BY DEF Unref
<1>2. s \in InCallback <=> s = active
  BY NoSourceAssumption DEF InCallback
<1>3. Owners > 0 \/ InCallback \intersect ev.sources = {}
  BY IInvFacts
<1>7. held' \in [Sources -> Nat]
  BY <1>1 DEF IInv
<1>4. Consistent(ev', InCallback, held', Owners) /\ ev'.state = ev.state
  <2>1. held \in [Sources -> Nat] /\ Owners \in Nat /\ Consistent(ev, InCallback, held, Owners)
    BY IInvFacts DEF IInv
  <2>2. Leaves(ev, SourceUnref(ev, s, active), InCallback, held', Owners)
    BY <1>1, <1>2, <1>3, <1>7, <2>1, SourceUnrefKeeps
  <2> QED  BY <1>1, <2>2 DEF Leaves
<1>5. Owners' = Owners /\ InCallback' = InCallback /\ (Protected' <=> Protected)
  BY <1>1, <1>4 DEF Owners, InCallback, Protected
<1>6. Consistent(ev', InCallback', held', Owners')
  BY <1>4, <1>5, Zenon
<1> QED  BY <1>1, <1>5, <1>6, <1>7 DEF IInv

LEMMA SetEnabledCallKeeps ==
    ASSUME IInv, NEW s \in Sources, NEW m \in Modes, SetEnabled(s, m)
    PROVE  IInv'
<1>1. /\ s \in ev.sources /\ ev' = SourceSetEnabled(ev, s, m)
      /\ UNCHANGED <<active, held, evHeld, ready>>
  BY DEF SetEnabled, Usable
<1>2. ev' \in EvType /\ QueuesExact(ev') /\ SameRefs(ev, ev')
  BY <1>1, IInvFacts, SetEnabledKeeps
<1> QED  BY <1>1, <1>2, QuietCall DEF IInv

LEMMA SetPriorityKeeps ==
    ASSUME IInv, NEW s \in Sources, NEW p \in Priorities, SetPriority(s, p)
    PROVE  IInv'
<1>1. ev' = [ev EXCEPT !.prio[s] = p] /\ UNCHANGED <<active, held, evHeld, ready>>
  BY DEF SetPriority
<1>2. ev' \in EvType /\ QueuesExact(ev') /\ SameRefs(ev, ev')
  BY <1>1, IInvFacts DEF EvType, QueuesExact, SameRefs, SameCounts
<1> QED  BY <1>1, <1>2, QuietCall DEF IInv

LEMMA SetIoEventsKeeps ==
    ASSUME IInv, NEW s \in Sources, SetIoEvents(s)
    PROVE  IInv'
<1> DEFINE c == ClearPending(ev, s)
           reg == IF Online(ev, s) THEN "armed" ELSE c.epoll[s]
<1>1. /\ s \in ev.sources /\ Io(s) /\ ev' = [c EXCEPT !.epoll[s] = reg]
      /\ UNCHANGED <<active, held, evHeld, ready>>
  BY DEF SetIoEvents, Usable
<1>2. c \in EvType /\ QueuesExact(c) /\ SameRefs(ev, c)
  BY IInvFacts, ClearPendingKeeps
<1> HIDE DEF c
<1>3. reg \in {"none", "armed", "spent"}
  BY <1>2 DEF EvType
<1> HIDE DEF reg
<1>4. ev' \in EvType /\ SameRefs(ev, ev')
  BY <1>1, <1>2, <1>3 DEF EvType, SameRefs, SameCounts
<1>5. QueuesExact(ev')
  BY <1>1, <1>2 DEF EvType, QueuesExact, SameRefs, SameCounts
<1> QED  BY <1>1, <1>4, <1>5, QuietCall DEF IInv

LEMMA SetPrepareKeeps ==
    ASSUME IInv, NEW s \in Sources, NEW on \in BOOLEAN, SetPrepare(s, on)
    PROVE  IInv'
<1>1. s \in ev.sources /\ UNCHANGED <<active, held, evHeld, ready>>
  BY DEF SetPrepare, Usable
<1>2. \/ ev' = [ev EXCEPT !.prepare = @ \union {s}, !.prepareQ = @ \union {s}]
      \/ ev' = [ev EXCEPT !.prepare = @ \ {s}, !.prepareQ = @ \ {s}]
  BY DEF SetPrepare
<1>3. ev \in EvType /\ QueuesExact(ev)
  BY IInvFacts
<1>4. CASE ev' = [ev EXCEPT !.prepare = @ \union {s}, !.prepareQ = @ \union {s}]
  <2>1. ev' \in EvType /\ SameRefs(ev, ev')
    BY <1>3, <1>4 DEF EvType, SameRefs, SameCounts
  <2>2. QueuesExact(ev')
    BY <1>1, <1>3, <1>4 DEF EvType, QueuesExact
  <2> QED  BY <1>1, <2>1, <2>2, QuietCall DEF IInv
<1>5. CASE ev' = [ev EXCEPT !.prepare = @ \ {s}, !.prepareQ = @ \ {s}]
  <2>1. ev' \in EvType /\ SameRefs(ev, ev')
    BY <1>3, <1>5 DEF EvType, SameRefs, SameCounts
  <2>2. QueuesExact(ev')
    BY <1>1, <1>3, <1>5 DEF EvType, QueuesExact
  <2> QED  BY <1>1, <2>1, <2>2, QuietCall DEF IInv
<1> QED  BY <1>2, <1>4, <1>5

(* A floating source: the loop's reference on it for its own on the loop.  *)
LEMMA SetFloatingKeeps ==
    ASSUME IInv, NEW s \in Sources, NEW on \in BOOLEAN, SetFloating(s, on)
    PROVE  IInv'
<1>1. s \in ev.sources /\ UNCHANGED <<active, held, evHeld, ready>>
  BY DEF SetFloating, Usable
<1>2. /\ ev \in EvType /\ QueuesExact(ev) /\ RefsExact(ev, InCallback, held, Owners)
      /\ held \in [Sources -> Nat] /\ Owners \in Nat
      /\ Owners > 0 \/ InCallback \intersect ev.sources = {}
  BY IInvFacts DEF IInv
<1>3. Consistent(ev', InCallback, held, Owners) /\ ev'.state = ev.state
  <2> DEFINE ownE == ev.sources \ ev.floating
  <2>1. ownE \in SUBSET Sources
    BY <1>2 DEF EvType
  <2>2. IsFiniteSet(ownE) /\ Cardinality(ownE) \in Nat
    BY <2>1, FinitePart
  <2>3. ev.nRef = Owners + Cardinality(ownE) /\ ~ev.freed
    BY <1>1, <1>2 DEF RefsExact
  <2> HIDE DEF ownE
  <2>4. CASE on
    <3> DEFINE d == [ev EXCEPT !.floating = @ \union {s}, !.srcRef[s] = @ + 1]
               ownD == d.sources \ d.floating
    <3>1. s \notin ev.floating /\ ev' = EventUnref(d)
      BY <2>4 DEF SetFloating
    <3>2. [ev.srcRef EXCEPT ![s] = @ + 1] \in [Sources -> Nat]
      BY <1>1, <1>2 DEF EvType
    <3>3. d \in EvType
      BY <1>1, <1>2, <3>2 DEF EvType
    <3>4. /\ d.sources = ev.sources /\ d.floating = ev.floating \union {s} /\ d.alloc = ev.alloc
          /\ d.nRef = ev.nRef /\ d.freed = ev.freed /\ d.state = ev.state
          /\ d.srcRef = [ev.srcRef EXCEPT ![s] = @ + 1]
      BY <1>2 DEF EvType
    <3>5. QueuesExact(d)
      BY <1>1, <1>2 DEF EvType, QueuesExact
    <3> HIDE DEF d
    <3>6. ownD = ownE \ {s} /\ s \in ownE
      BY <1>1, <3>1, <3>4 DEF ownE
    <3> HIDE DEF ownD
    <3>7. Cardinality(ownD) = Cardinality(ownE) - 1
      BY <2>2, <3>6, FS_RemoveElement
    <3>8. d.nRef = Owners + 1 + Cardinality(ownD)
      BY <1>2, <2>2, <2>3, <3>4, <3>7
    <3>9. \A z \in Sources :
              d.srcRef[z] = held[z] + IF z \in d.sources \intersect d.floating THEN 1 ELSE 0
      BY <1>1, <1>2, <3>1, <3>4 DEF EvType, RefsExact
    <3>10. \A z \in Sources : z \in d.alloc <=> d.srcRef[z] > 0 \/ z \in InCallback
      BY <1>1, <1>2, <3>4 DEF EvType, RefsExact, QueuesExact
    <3>11. RefsExact(d, InCallback, held, Owners + 1)
      BY <1>2, <2>3, <3>4, <3>8, <3>9, <3>10 DEF RefsExact, ownD
    <3>12. Consistent(d, InCallback, held, Owners + 1)
      BY <3>3, <3>5, <3>11 DEF Consistent
    <3>13. Owners > 0 \/ InCallback \intersect d.sources = {}
      BY <1>2, <3>4
    <3>14. /\ Consistent(EventUnref(d), InCallback, held, Owners)
           /\ EventUnref(d).state = ev.state
      BY <1>2, <3>4, <3>12, <3>13, EventUnrefKeeps
    <3> QED  BY <3>1, <3>14, Zenon
  <2>5. CASE ~on
    <3> DEFINE d == [ev EXCEPT !.floating = @ \ {s}, !.nRef = @ + 1]
               ownD == d.sources \ d.floating
               g == [held EXCEPT ![s] = @ + 1]
    <3>1. s \in ev.floating /\ ev' = SourceUnref(d, s, active)
      <4>1. on # (s \in ev.floating)
        BY DEF SetFloating
      <4>2. s \in ev.floating
        BY <2>5, <4>1
      <4>3. ev' = SourceUnref(d, s, active)
        BY <2>5 DEF SetFloating
      <4> QED  BY <4>2, <4>3
    <3>2. d \in EvType
      <4>1. ev \in EvType
        BY <1>2
      <4>2. ev.floating \ {s} \in SUBSET Sources /\ ev.nRef + 1 \in Nat
        BY <4>1 DEF EvType
      <4> QED  BY <4>1, <4>2 DEF EvType
    <3>3. /\ d.sources = ev.sources /\ d.floating = ev.floating \ {s} /\ d.alloc = ev.alloc
          /\ d.nRef = ev.nRef + 1 /\ d.freed = ev.freed /\ d.state = ev.state
          /\ d.srcRef = ev.srcRef
      BY <1>2 DEF EvType
    <3>4. QueuesExact(d)
      BY <1>2 DEF EvType, QueuesExact
    <3> HIDE DEF d
    <3>5. ownD = ownE \union {s} /\ s \notin ownE
      BY <1>1, <3>1, <3>3 DEF ownE
    <3> HIDE DEF ownD
    <3>6. Cardinality(ownD) = Cardinality(ownE) + 1
      BY <2>2, <3>5, FS_AddElement
    <3>7. d.nRef = Owners + Cardinality(ownD)
      BY <1>2, <2>2, <2>3, <3>3, <3>6
    <3>8. g \in [Sources -> Nat] /\ g[s] > 0 /\ held = [g EXCEPT ![s] = @ - 1]
      <4>1. s \in Sources /\ held[s] \in Nat
        BY <1>2
      <4>2. g \in [Sources -> Nat] /\ g[s] = held[s] + 1
        BY <1>2, <4>1
      <4>3. \A z \in Sources : held[z] = [g EXCEPT ![s] = @ - 1][z]
        BY <1>2, <4>1, <4>2
      <4>4. held = [z \in Sources |-> held[z]] /\ DOMAIN [g EXCEPT ![s] = @ - 1] = Sources
        BY <1>2, <4>2
      <4> QED  BY <4>1, <4>2, <4>3, <4>4
    <3>9. \A z \in Sources :
              d.srcRef[z] = g[z] + IF z \in d.sources \intersect d.floating THEN 1 ELSE 0
      BY <1>1, <1>2, <3>1, <3>3 DEF EvType, RefsExact
    <3>10. \A z \in Sources : z \in d.alloc <=> d.srcRef[z] > 0 \/ z \in InCallback
      BY <1>2, <3>3 DEF RefsExact
    <3>11. d.nRef # 0 /\ ~d.freed
      BY <1>2, <2>3, <3>3 DEF EvType
    <3> HIDE DEF g
    <3>12. RefsExact(d, InCallback, g, Owners)
      BY <3>7, <3>9, <3>10, <3>11 DEF RefsExact, ownD
    <3>13. Consistent(d, InCallback, g, Owners)
      BY <3>2, <3>4, <3>12 DEF Consistent
    <3>14. s \in InCallback <=> s = active
      BY NoSourceAssumption DEF InCallback
    <3>15. Owners > 0 \/ InCallback \intersect d.sources = {}
      BY <1>2, <3>3
    <3>16. Leaves(d, SourceUnref(d, s, active), InCallback, held, Owners)
      BY <1>2, <3>8, <3>13, <3>14, <3>15, SourceUnrefKeeps
    <3> QED  BY <3>1, <3>3, <3>16 DEF Leaves
  <2> QED  BY <2>4, <2>5
<1>4. Protected' <=> Protected
  BY <1>3 DEF Protected
<1> QED  BY <1>1, <1>3, <1>4, QuietStep DEF IInv

LEMMA ExitKeeps ==
    ASSUME IInv, Exit
    PROVE  IInv'
<1>1. ev' = [ev EXCEPT !.exitRequested = TRUE] /\ UNCHANGED <<active, held, evHeld, ready>>
  BY DEF Exit
<1>2. ev' \in EvType /\ QueuesExact(ev') /\ SameRefs(ev, ev')
  BY <1>1, IInvFacts DEF EvType, QueuesExact, SameRefs, SameCounts
<1> QED  BY <1>1, <1>2, QuietCall DEF IInv

LEMMA EventRefKeeps ==
    ASSUME IInv, EventRef
    PROVE  IInv'
<1>1. /\ ~ev.freed /\ ev' = [ev EXCEPT !.nRef = @ + 1]
      /\ evHeld' = evHeld + 1 /\ UNCHANGED <<active, held, ready>>
  BY DEF EventRef, LoopUsable
<1>2. /\ ev \in EvType /\ QueuesExact(ev) /\ Owners \in Nat
      /\ Consistent(ev, InCallback, held, Owners)
  BY IInvFacts DEF IInv
<1>3. /\ ev' \in EvType /\ QueuesExact(ev') /\ ev'.state = ev.state
      /\ ev'.freed = ev.freed /\ ev'.nRef = ev.nRef + 1 /\ ev'.sources = ev.sources
      /\ ev'.alloc = ev.alloc /\ ev'.srcRef = ev.srcRef /\ ev'.floating = ev.floating
  BY <1>1, <1>2 DEF EvType, QueuesExact
<1>4. Consistent(ev', InCallback, held, Owners + 1)
  BY <1>1, <1>2, <1>3, EventRefConsistent
<1>5. /\ Owners' = Owners + 1 /\ InCallback' = InCallback /\ held' = held
      /\ Protected' <=> Protected
  BY <1>1, <1>3 DEF Owners, InCallback, Protected, IInv
<1>6. Consistent(ev', InCallback', held', Owners')
  BY <1>4, <1>5, Zenon
<1> QED  BY <1>1, <1>5, <1>6 DEF IInv

LEMMA EventUnrefUserKeeps ==
    ASSUME IInv, EventUnrefUser
    PROVE  IInv'
<1> DEFINE n == Owners - 1
<1>1. /\ evHeld > 0 /\ ev' = EventUnref(ev)
      /\ evHeld' = evHeld - 1 /\ UNCHANGED <<active, held, ready>>
  BY DEF EventUnrefUser
<1>2. n \in Nat /\ Owners = n + 1 /\ (n > 0 \/ InCallback \intersect ev.sources = {})
  BY <1>1 DEF Owners, InCallback, IInv
<1> HIDE DEF n
<1>3. Consistent(ev, InCallback, held, n + 1) /\ held \in [Sources -> Nat]
  BY <1>2, Zenon DEF IInv
<1>4. Consistent(ev', InCallback, held, n) /\ ev'.state = ev.state
  BY <1>1, <1>2, <1>3, EventUnrefKeeps
<1>5. /\ Owners' = n /\ InCallback' = InCallback /\ held' = held
      /\ Protected' <=> Protected
  BY <1>1, <1>2, <1>4 DEF Owners, InCallback, Protected, IInv, n
<1>6. Consistent(ev', InCallback', held', Owners')
  BY <1>4, <1>5, Zenon
<1>7. evHeld' \in Nat
  BY <1>1 DEF IInv
<1> QED  BY <1>1, <1>5, <1>6, <1>7 DEF IInv

-----------------------------------------------------------------------------
(* The theorems.                                                           *)

LEMMA NextKeepsIInv == IInv /\ [Next]_vars => IInv'
<1> SUFFICES ASSUME IInv, [Next]_vars PROVE IInv'
  OBVIOUS
<1>1. CASE LoopStep
  BY <1>1, StateStepKeeps, PrepareBeginKeeps, PrepareEndKeeps, WaitReportedKeeps,
     PrepareCallbackKeeps, DispatchKeeps, DispatchExitKeeps DEF LoopStep
<1>2. CASE CallbackReturn
  BY <1>2, PrepareReturnKeeps, DispatchReturnKeeps DEF CallbackReturn
<1>3. CASE ProgramCall
  <2>1. CASE Exit \/ EventRef \/ EventUnrefUser
    BY <2>1, ExitKeeps, EventRefKeeps, EventUnrefUserKeeps
  <2>2. CASE \E s \in Sources : Ref(s) \/ Unref(s) \/ SetIoEvents(s)
    BY <2>2, RefKeeps, UnrefKeeps, SetIoEventsKeeps
  <2>3. CASE \E s \in Sources : FdDrain(s)
    <3>1. UNCHANGED <<ev, active, held, evHeld>> /\ ready' \subseteq ready
      BY <2>3 DEF FdDrain
    <3> QED  BY <3>1, IInvFacts, QuietCall DEF IInv, SameRefs, SameCounts
  <2>4. CASE \E s \in Sources, b \in BOOLEAN : Add(s, b) \/ SetPrepare(s, b) \/ SetFloating(s, b)
    BY <2>4, AddKeeps, SetPrepareKeeps, SetFloatingKeeps
  <2>5. CASE \E s \in Sources, m \in Modes : SetEnabled(s, m)
    BY <2>5, SetEnabledCallKeeps
  <2>6. CASE \E s \in Sources, p \in Priorities : SetPriority(s, p)
    BY <2>6, SetPriorityKeeps
  <2> QED  BY <1>3, <2>1, <2>2, <2>3, <2>4, <2>5, <2>6 DEF ProgramCall
<1>4. CASE \E s \in Sources : FdReady(s)
  <2>1. UNCHANGED <<ev, active, held, evHeld>> /\ ready' \subseteq ready \union ev.sources
    BY <1>4 DEF FdReady
  <2>2. ev.sources \subseteq Sources
    BY IInvFacts DEF EvType
  <2> QED  BY <2>1, <2>2, IInvFacts, QuietCall DEF IInv, SameRefs, SameCounts
<1>5. CASE UNCHANGED vars
  BY <1>5, IInvFacts, QuietCall DEF vars, IInv, SameRefs, SameCounts
<1> QED  BY <1>1, <1>2, <1>3, <1>4, <1>5 DEF Next

THEOREM Inductive == Spec => []IInv
  BY InitIInv, NextKeepsIInv, PTL DEF Spec

(* Whatever the program calls and from where, every field keeps its type:  *)
(* no reference count is dropped below zero.                               *)
THEOREM TypeCorrect == Spec => []TypeOK
<1>1. IInv => TypeOK
  BY IInvFacts DEF IInv, TypeOK
<1> QED  BY <1>1, Inductive, PTL

(* source_disconnect and the queue operations leave no pointer behind: the *)
(* loop's queues, post set and epoll registrations are exactly those of    *)
(* its connected, allocated sources.                                       *)
THEOREM QueuesStayExact == Spec => []NoDanglingPointers
<1>1. IInv => NoDanglingPointers
  BY IInvFacts DEF NoDanglingPointers
<1> QED  BY <1>1, Inductive, PTL

(* No use after free and no leak: a source is allocated exactly while it   *)
(* is referenced or its callback runs, the loop exactly while the program, *)
(* a connected source or a call in progress owns it.                       *)
THEOREM ReferencesStayExact == Spec => []RefCountsExact
<1>1. IInv => RefCountsExact
  <2> SUFFICES ASSUME IInv PROVE RefCountsExact
    OBVIOUS
  <2>1. RefsExact(ev, InCallback, held, Owners) /\ ev \in EvType /\ evHeld \in Nat
    BY IInvFacts DEF IInv
  <2>2. Cardinality(ev.sources \ ev.floating) \in Nat
    BY <2>1, FinitePart DEF EvType
  <2>3. ev.nRef = evHeld + Cardinality(ev.sources \ ev.floating) + IF Protected THEN 1 ELSE 0
    BY <2>1, <2>2 DEF RefsExact, Owners
  <2>4. \A s \in Sources : s \in ev.alloc <=> ev.srcRef[s] > 0 \/ s = active
    BY <2>1, NoSourceAssumption DEF RefsExact, InCallback
  <2> QED  BY <2>1, <2>3, <2>4 DEF RefsExact, RefCountsExact
<1> QED  BY <1>1, Inductive, PTL
=============================================================================
