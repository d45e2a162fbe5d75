--------------------------- MODULE PollLoopProofs ---------------------------
(***************************************************************************)
(* Proofs about PollLoop for every value of its constants: its types, the  *)
(* bounds on served age, poll length and shutdown, and that it implements  *)
(* PositionFeed.                                                           *)
(***************************************************************************)
EXTENDS PollLoop, FiniteSetTheorems, TLAPS

(* The zero fix is a fix value that carries no position. *)
LEMMA NoFixFacts == NoFix \in Fix /\ ~HasFix(NoFix)
BY DEF NoFix, Fix, HasFix

(* A resolved fix carries a position and the instant it was resolved. *)
LEMMA ResolvedFixFacts ==
  ASSUME NEW f \in ResolvedFix
  PROVE  f \in Fix /\ HasFix(f) /\ f # NoFix /\ f.time \in Nat
<1>1. f.mode = 2 /\ f.time \in Nat
  BY DEF ResolvedFix
<1>2. HasFix(f)
  BY <1>1 DEF HasFix
<1>. QED
  BY <1>1, <1>2, NoFixFacts DEF Fix

(* Scanning begins only when there is an interface to scan. *)
LEMMA FirstCall == \/ AfterScan(0) = "cell"
                   \/ AfterScan(0) = "scan" /\ 0 < NIfaces
BY PollLoopAssumption DEF AfterScan

(* Source.resolve builds a well-formed fix stamped with the current time. *)
LEMMA ResolvedFacts ==
  ASSUME TypeOK
  PROVE  Resolved \in ResolvedFix /\ Resolved.time = now
<1>1. IsFiniteSet(found)
  BY PollLoopAssumption, FS_Subset DEF TypeOK
<1>2. Cardinality(found) \in Nat
  BY <1>1, FS_CardinalityType
<1>3. now \in Nat
  BY PollLoopAssumption DEF TypeOK
<1>. QED
  BY <1>2, <1>3 DEF Resolved, ResolvedFix, TypeOK

(* The staleness limit is a positive number, at least the two-minute floor. *)
LEMMA StaleAfterType == StaleAfter \in Nat /\ StaleAfter > 0
BY PollLoopAssumption DEF StaleAfter

(* What a failed poll publishes is well formed. *)
LEMMA CachedType == TypeOK => Cached \in Fix
BY NoFixFacts DEF TypeOK, Cached
-----------------------------------------------------------------------------
(* Every variable keeps its type, for all interfaces, timeouts and intervals. *)
THEOREM TypeCorrect == Spec => []TypeOK
<1>1. Init => TypeOK
  <2>. SUFFICES ASSUME Init PROVE TypeOK
    OBVIOUS
  <2>1. hadFix \in BOOLEAN /\ tick \in BOOLEAN
    BY DEF Init
  <2>. QED
    BY <2>1, PollLoopAssumption, NoFixFacts, FirstCall DEF Init, TypeOK, PCs, Calls
<1>2. TypeOK /\ [Next]_vars => TypeOK'
  <2>. SUFFICES ASSUME TypeOK, [Next]_vars PROVE TypeOK'
    OBVIOUS
  <2>. USE PollLoopAssumption DEF TypeOK, PCs, Calls, cache, publish, ticker
  <2>1. CASE ScanIface
    <3>1. found' \in SUBSET APs
      BY <2>1 DEF ScanIface
    <3>. QED
      BY <2>1, <3>1 DEF ScanIface, AfterScan
  <2>2. CASE ReadCell
    <3>1. CASE pc' = "resolve" /\ UNCHANGED <<pollAt, publish, ticker>>
               /\ requests' = requests + 1
      BY <2>2, <3>1 DEF ReadCell
    <3>2. CASE EndPoll(Cached) /\ UNCHANGED requests
      BY <2>2, <3>2, CachedType DEF ReadCell, EndPoll, HasFix
    <3>. QED
      BY <2>2, <3>1, <3>2 DEF ReadCell
  <2>3. CASE ResolveOK
    BY <2>3, ResolvedFacts, ResolvedFixFacts DEF ResolveOK, EndPoll, HasFix
  <2>4. CASE ResolveErr
    BY <2>4, CachedType DEF ResolveErr, EndPoll, HasFix
  <2>5. CASE TakeTick
    <3>1. tick' \in BOOLEAN
      BY <2>5 DEF TakeTick
    <3>. QED
      BY <2>5, <3>1, FirstCall DEF TakeTick, BeginPoll
  <2>6. CASE Stop
    BY <2>6 DEF Stop
  <2>7. CASE TickerFire
    BY <2>7 DEF TickerFire
  <2>8. CASE Cancel
    BY <2>8 DEF Cancel
  <2>9. CASE Tick
    BY <2>9 DEF Tick
  <2>10. CASE UNCHANGED vars
    BY <2>10 DEF vars
  <2>. QED
    BY <2>1, <2>2, <2>3, <2>4, <2>5, <2>6, <2>7, <2>8, <2>9, <2>10
       DEF Next, Poller, Done
<1>. QED
  BY <1>1, <1>2, PTL DEF Spec
-----------------------------------------------------------------------------
(***************************************************************************)
(* The inductive invariant.  ServedAgeBounded is not inductive: that a     *)
(* served fix is young follows from when the next poll can start, which    *)
(* depends on where the goroutine is and on the ticker.                    *)
(***************************************************************************)

\* The ticker fires within an interval; before the first poll has ended there
\* is neither a ticker nor a fix.
TickerInv ==
  /\ nextTick # Never => now <= nextTick /\ nextTick <= now + Interval
  /\ nextTick = Never => pc \in Calls /\ lastAt = Never /\ cur = NoFix

\* The current call began within the current poll, which is not overdue.
CallInv ==
  /\ pollAt <= callAt /\ callAt <= now
  /\ PollBounded

\* The cache holds the newest fix with its time, and a served fix is that one.
CacheInv ==
  /\ lastAt = Never => last = NoFix
  /\ lastAt # Never => last \in ResolvedFix /\ last.time = lastAt /\ lastAt <= now
  /\ cur = NoFix \/ cur = last
  /\ YoungFixServed

\* The instant by which the poll after the current one begins, or the current
\* one began.
NextPollBy == CASE pc \in Calls -> pollAt
                [] pc = "select" /\ ~tick -> nextTick
                [] OTHER -> now

\* A served fix was younger than StaleAfter at most an interval before that.
AgeInv == HasFix(cur) => NextPollBy < lastAt + StaleAfter + Interval

\* A cancelled daemon is about to stop.
CancelInv == Cancelled => cancelAt <= now /\ (pc # "stopped" => now <= cancelAt + WaitDelay)

IInv == TickerInv /\ CallInv /\ CacheInv /\ AgeInv /\ CancelInv

(* A call that has not returned yet still has time before the poll, and the
   cancellation if there is one, have been over for WaitDelay. *)
LEMMA MustReturnBound ==
  ASSUME TypeOK, CallInv, now < MustReturnBy
  PROVE  /\ now < pollAt + PollTimeout + WaitDelay
         /\ Cancelled => now < cancelAt + WaitDelay
<1>. USE PollLoopAssumption DEF TypeOK, CallInv
<1>0. cancelAt \in Int /\ now \in Nat
  BY DEF Never
<1>1. CtxDeadline \in Int /\ CtxDeadline <= pollAt + PollTimeout
      /\ (Cancelled => CtxDeadline <= cancelAt)
  BY <1>0 DEF CtxDeadline, Earlier
<1>2. ASSUME NEW limit \in Nat, NEW grace \in Nat, grace <= WaitDelay,
             now < LatestReturn(limit, grace)
      PROVE  now < CtxDeadline + WaitDelay
  BY <1>0, <1>1, <1>2 DEF LatestReturn, Deadline, Earlier
<1>3. now < CtxDeadline + WaitDelay
  BY <1>2 DEF MustReturnBy
<1>. QED
  BY <1>0, <1>1, <1>3

(* Only an error while nothing young is cached blanks the served position. *)
LEMMA CachedFacts ==
  ASSUME TypeOK, IInv
  PROVE  \/ /\ Cached = NoFix
            /\ last # NoFix => now - lastAt >= StaleAfter
         \/ /\ Cached = last /\ last # NoFix
            /\ now - lastAt < StaleAfter
<1>. USE DEF IInv, CacheInv
<1>1. CASE lastAt = Never
  BY <1>1 DEF Cached
<1>2. CASE lastAt # Never
  <2>1. last # NoFix
    BY <1>2, ResolvedFixFacts
  <2>2. now \in Int /\ lastAt \in Int /\ StaleAfter \in Int
    BY <1>2, PollLoopAssumption, StaleAfterType DEF TypeOK
  <2>3. now - lastAt >= StaleAfter \/ now - lastAt < StaleAfter
    BY <2>2
  <2>. QED
    BY <1>2, <2>1, <2>2, <2>3 DEF Cached
<1>. QED
  BY <1>1, <1>2

(* A failed poll's end preserves the invariant, wherever it fails. *)
LEMMA EndPollCached ==
  ASSUME TypeOK, TypeOK', IInv, pc \in Calls, EndPoll(Cached),
         UNCHANGED <<now, cache, cancelAt>>, callAt' = now
         \/ callAt' = callAt
  PROVE  IInv'
<1>. USE PollLoopAssumption, StaleAfterType
<1>0. /\ now \in Nat /\ UNCHANGED <<now, last, lastAt, cancelAt, pollAt>>
      /\ pc' = "select" /\ pc' \notin Calls
      /\ cur' = Cached
  BY DEF TypeOK, Calls, EndPoll, cache
<1>1. TickerInv' /\ nextTick' \in Nat /\ nextTick' <= now + Interval
  BY <1>0 DEF IInv, TickerInv, Never, TypeOK, EndPoll
<1>2. CallInv'
  BY <1>0 DEF IInv, CallInv, PollBounded, TypeOK
<1>3. CacheInv'
  <2>1. YoungFixServed'
    <3>. SUFFICES ASSUME HasFix(last), now - lastAt < StaleAfter PROVE cur' = last
      BY <1>0 DEF YoungFixServed, StaleAfter
    <3>1. last # NoFix
      BY NoFixFacts
    <3>2. now \in Int /\ lastAt \in Int /\ StaleAfter \in Int
      BY DEF TypeOK, Never
    <3>. QED
      BY <1>0, <3>1, <3>2, CachedFacts
  <2>. QED
    BY <1>0, <2>1, CachedFacts DEF IInv, CacheInv
<1>4. AgeInv'
  <2>. SUFFICES ASSUME HasFix(cur') PROVE NextPollBy' < lastAt + StaleAfter + Interval
    BY <1>0 DEF AgeInv, StaleAfter
  <2>1. cur' = last /\ last # NoFix /\ now - lastAt < StaleAfter
    BY <1>0, CachedFacts, NoFixFacts
  <2>2. lastAt \in Nat
    BY <2>1 DEF IInv, CacheInv, TypeOK
  <2>3. NextPollBy' = now \/ NextPollBy' = nextTick'
    BY <1>0 DEF NextPollBy
  <2>. QED
    BY <1>0, <1>1, <2>1, <2>2, <2>3
<1>5. CancelInv'
  BY <1>0 DEF IInv, CancelInv, Cancelled, Calls
<1>. QED
  BY <1>1, <1>2, <1>3, <1>4, <1>5 DEF IInv

(* A successful poll's end preserves the invariant. *)
LEMMA ResolveOKInv == ASSUME TypeOK, TypeOK', IInv, ResolveOK PROVE IInv'
<1>. USE PollLoopAssumption, StaleAfterType
<1>0. /\ now \in Nat /\ UNCHANGED <<now, cancelAt, pollAt, callAt>>
      /\ pc \in Calls /\ pc' = "select" /\ pc' \notin Calls
      /\ cur' = last' /\ last' \in ResolvedFix /\ last'.time = now /\ lastAt' = now
  BY ResolvedFacts DEF TypeOK, Calls, ResolveOK, EndPoll
<1>1. TickerInv' /\ nextTick' \in Nat /\ nextTick' <= now + Interval
  BY <1>0 DEF IInv, TickerInv, Never, TypeOK, ResolveOK, EndPoll
<1>2. CallInv'
  BY <1>0 DEF IInv, CallInv, PollBounded, TypeOK
<1>3. CacheInv'
  BY <1>0 DEF CacheInv, YoungFixServed, Never
<1>4. AgeInv'
  <2>. SUFFICES NextPollBy' < now + StaleAfter + Interval
    BY <1>0 DEF AgeInv, StaleAfter
  <2>1. NextPollBy' = now \/ NextPollBy' = nextTick'
    BY <1>0 DEF NextPollBy
  <2>. QED
    BY <1>0, <1>1, <2>1
<1>5. CancelInv'
  BY <1>0 DEF IInv, CancelInv, Cancelled, Calls
<1>. QED
  BY <1>1, <1>2, <1>3, <1>4, <1>5 DEF IInv

(* A step that leaves the clock, the cache and the published fix alone leaves
   CacheInv alone. *)
LEMMA CacheInvStable ==
  ASSUME CacheInv, UNCHANGED <<now, cache, cur>>
  PROVE  CacheInv'
BY DEF CacheInv, YoungFixServed, StaleAfter, cache

(* Every step preserves the inductive invariant. *)
LEMMA IInvNext == TypeOK /\ TypeOK' /\ IInv /\ [Next]_vars => IInv'
<1>. SUFFICES ASSUME TypeOK, TypeOK', IInv, [Next]_vars PROVE IInv'
  OBVIOUS
<1>. USE PollLoopAssumption, StaleAfterType
<1>0. now \in Nat /\ lastAt \in Int /\ nextTick \in Int /\ cancelAt \in Int
  BY DEF TypeOK, Never
<1>1. ASSUME pc \in Calls, pc' \in Calls, callAt' = now,
             UNCHANGED <<now, pollAt, cache, publish, ticker, cancelAt>>
      PROVE  IInv'
  <2>1. UNCHANGED <<last, lastAt, cur, nextTick, tick>>
    BY <1>1 DEF cache, publish, ticker
  <2>2. TickerInv' /\ CallInv' /\ CacheInv'
    BY <1>0, <1>1, <2>1, CacheInvStable
       DEF IInv, TickerInv, CallInv, PollBounded, TypeOK
  <2>3. AgeInv'
    <3>1. NextPollBy' = NextPollBy
      BY <1>1, <2>1 DEF NextPollBy, Calls
    <3>. QED
      BY <2>1, <3>1 DEF IInv, AgeInv, StaleAfter
  <2>4. CancelInv'
    BY <1>1 DEF IInv, CancelInv, Cancelled, Calls
  <2>. QED
    BY <2>2, <2>3, <2>4 DEF IInv
<1>2. CASE ScanIface
  <2>1. pc \in Calls /\ pc' \in Calls
    BY <1>2 DEF ScanIface, AfterScan, Calls
  <2>. QED
    BY <1>1, <1>2, <2>1 DEF ScanIface
<1>3. CASE ReadCell
  <2>1. pc \in Calls /\ callAt' = now /\ UNCHANGED <<now, cache, cancelAt>>
    BY <1>3 DEF ReadCell, Calls
  <2>2. CASE pc' = "resolve" /\ UNCHANGED <<pollAt, publish, ticker>>
    BY <1>1, <2>1, <2>2 DEF Calls
  <2>3. CASE EndPoll(Cached)
    BY <2>1, <2>3, EndPollCached
  <2>. QED
    BY <1>3, <2>2, <2>3 DEF ReadCell
<1>4. CASE ResolveOK
  BY <1>4, ResolveOKInv
<1>5. CASE ResolveErr
  BY <1>5, EndPollCached DEF ResolveErr, Calls
<1>6. CASE TakeTick
  <2>1. /\ pc = "select" /\ tick /\ pc \notin Calls /\ pc' \in Calls
        /\ UNCHANGED <<now, last, lastAt, cur, nextTick, cancelAt>>
        /\ pollAt' = now /\ callAt' = now
    BY <1>6, FirstCall DEF TakeTick, BeginPoll, Calls, cache, publish
  <2>2. TickerInv' /\ CallInv' /\ CacheInv'
    BY <1>0, <2>1, CacheInvStable
       DEF IInv, TickerInv, CallInv, PollBounded, cache
  <2>3. AgeInv'
    BY <2>1 DEF IInv, AgeInv, NextPollBy, StaleAfter
  <2>4. CancelInv'
    BY <2>1 DEF IInv, CancelInv, Cancelled
  <2>. QED
    BY <2>2, <2>3, <2>4 DEF IInv
<1>7. CASE Stop
  <2>1. /\ pc = "select" /\ pc \notin Calls
        /\ pc' = "stopped" /\ pc' \notin Calls /\ nextTick # Never
        /\ UNCHANGED <<now, pollAt, callAt, last, lastAt, cur, nextTick, tick, cancelAt>>
    BY <1>7 DEF Stop, Calls, cache, publish, ticker, IInv, TickerInv
  <2>2. TickerInv' /\ CallInv' /\ CacheInv'
    BY <1>0, <2>1, CacheInvStable
       DEF IInv, TickerInv, CallInv, PollBounded, cache
  <2>3. AgeInv'
    <3>1. NextPollBy' = now /\ (NextPollBy = now \/ NextPollBy = nextTick)
      BY <2>1 DEF NextPollBy
    <3>2. now <= nextTick
      BY <2>1 DEF IInv, TickerInv
    <3>. QED
      BY <1>0, <2>1, <3>1, <3>2 DEF IInv, AgeInv, StaleAfter
  <2>4. CancelInv'
    BY <2>1 DEF IInv, CancelInv, Cancelled
  <2>. QED
    BY <2>2, <2>3, <2>4 DEF IInv
<1>8. CASE TickerFire
  <2>1. /\ nextTick = now /\ nextTick' = now + Interval
        /\ pc # "stopped"
        /\ UNCHANGED <<now, pc, pollAt, callAt, last, lastAt, cur, cancelAt>>
    BY <1>8 DEF TickerFire, cache, publish
  <2>2. TickerInv' /\ CallInv' /\ CacheInv'
    BY <1>0, <2>1, CacheInvStable
       DEF IInv, TickerInv, CallInv, PollBounded, cache, Never
  <2>3. NextPollBy' = NextPollBy
    <3>1. tick'
      BY <1>8 DEF TickerFire
    <3>2. CASE pc \in Calls
      BY <2>1, <3>2 DEF NextPollBy
    <3>3. CASE pc \notin Calls
      <4>1. NextPollBy' = now
        BY <2>1, <3>1, <3>3 DEF NextPollBy
      <4>2. NextPollBy = now
        BY <2>1, <3>3 DEF NextPollBy
      <4>. QED
        BY <4>1, <4>2
    <3>. QED
      BY <3>2, <3>3
  <2>4. AgeInv' /\ CancelInv'
    BY <2>1, <2>3 DEF IInv, AgeInv, CancelInv, Cancelled, StaleAfter
  <2>. QED
    BY <2>2, <2>4 DEF IInv
<1>9. CASE Cancel
  <2>1. /\ cancelAt' = now
        /\ UNCHANGED <<now, pc, pollAt, callAt, last, lastAt, cur, nextTick, tick>>
    BY <1>9 DEF Cancel, cache, publish, ticker
  <2>2. TickerInv' /\ CallInv' /\ CacheInv'
    BY <1>0, <2>1, CacheInvStable
       DEF IInv, TickerInv, CallInv, PollBounded, cache
  <2>3. AgeInv'
    BY <2>1 DEF IInv, AgeInv, NextPollBy, StaleAfter
  <2>4. CancelInv'
    BY <1>0, <2>1 DEF CancelInv
  <2>. QED
    BY <2>2, <2>3, <2>4 DEF IInv
<1>10. CASE Tick
  <2>1. /\ now' = now + 1 /\ nextTick # now
        /\ UNCHANGED <<pc, pollAt, callAt, last, lastAt, cur, nextTick, tick, cancelAt>>
        /\ \/ pc \in Calls /\ now < MustReturnBy
           \/ pc = "select" /\ pc \notin Calls /\ ~tick /\ ~Cancelled
    BY <1>10 DEF Tick, cache, publish, ticker, Calls
  <2>2. TickerInv'
    BY <1>0, <2>1 DEF IInv, TickerInv
  <2>3. CallInv'
    BY <1>0, <2>1, MustReturnBound DEF IInv, CallInv, PollBounded, TypeOK
  <2>4. CacheInv'
    BY <1>0, <2>1 DEF IInv, CacheInv, YoungFixServed, StaleAfter
  <2>5. NextPollBy' = NextPollBy
    BY <2>1 DEF NextPollBy
  <2>6. AgeInv'
    BY <2>1, <2>5 DEF IInv, AgeInv, StaleAfter
  <2>7. CancelInv'
    BY <1>0, <2>1, MustReturnBound DEF IInv, CancelInv, Cancelled
  <2>. QED
    BY <2>2, <2>3, <2>4, <2>6, <2>7 DEF IInv
<1>11. CASE UNCHANGED vars
  <2>1. UNCHANGED <<now, pc, pollAt, callAt, last, lastAt, cur, nextTick, tick, cancelAt>>
    BY <1>11 DEF vars, cache, publish, ticker
  <2>. QED
    BY <2>1, CacheInvStable
       DEF IInv, TickerInv, CallInv, PollBounded, AgeInv, NextPollBy, StaleAfter,
           CancelInv, Cancelled, cache
<1>. QED
  BY <1>2, <1>3, <1>4, <1>5, <1>6, <1>7, <1>8, <1>9, <1>10, <1>11
     DEF Next, Poller, Done
-----------------------------------------------------------------------------
(* The invariant bounds the age of what is served at every instant, not only
   when a poll begins. *)
LEMMA AgeBound == TypeOK /\ IInv => ServedAgeBounded
<1>. SUFFICES ASSUME TypeOK, IInv, HasFix(cur) PROVE now - cur.time < MaxServedAge
  BY DEF ServedAgeBounded
<1>. USE PollLoopAssumption, StaleAfterType
<1>1. cur = last /\ lastAt # Never
  BY NoFixFacts DEF IInv, CacheInv
<1>2. cur.time = lastAt /\ lastAt \in Nat /\ now \in Nat /\ nextTick \in Int
      /\ pollAt \in Nat
  BY <1>1 DEF IInv, CacheInv, TypeOK, Never
<1>3. NextPollBy < lastAt + StaleAfter + Interval
  BY DEF IInv, AgeInv
<1>4. CASE pc \in Calls
  <2>1. NextPollBy = pollAt /\ now <= pollAt + PollTimeout + WaitDelay
    BY <1>4 DEF NextPollBy, IInv, CallInv, PollBounded, Calls
  <2>. QED
    BY <1>2, <1>3, <2>1 DEF MaxServedAge
<1>5. CASE pc \notin Calls
  <2>1. now <= nextTick
    BY <1>5 DEF IInv, TickerInv
  <2>2. NextPollBy = now \/ NextPollBy = nextTick
    BY <1>5 DEF NextPollBy
  <2>. QED
    BY <1>2, <1>3, <2>1, <2>2 DEF MaxServedAge
<1>. QED
  BY <1>4, <1>5

(* The initial state satisfies the invariant. *)
LEMMA IInvInit == Init => IInv
<1>. SUFFICES ASSUME Init PROVE IInv
  OBVIOUS
<1>1. pc \in Calls
  BY FirstCall DEF Init, Calls
<1>. QED
  BY <1>1, PollLoopAssumption, NoFixFacts
     DEF Init, IInv, TickerInv, CallInv, PollBounded, CacheInv, YoungFixServed,
         AgeInv, CancelInv, Cancelled, Never

(* The invariant holds in every reachable state. *)
LEMMA Invariance == Spec => []IInv
<1>1. Init => IInv
  BY IInvInit
<1>2. TypeOK /\ TypeOK' /\ IInv /\ [Next]_vars => IInv'
  BY IInvNext
<1>. QED
  BY <1>1, <1>2, TypeCorrect, PTL DEF Spec

(* No fix is ever served at or beyond MaxServedAge, whatever hangs or fails. *)
THEOREM ServedAge == Spec => []ServedAgeBounded
BY AgeBound, TypeCorrect, Invariance, PTL

(* While the cached fix is young it is what clients are served. *)
THEOREM YoungFix == Spec => []YoungFixServed
<1>1. IInv => YoungFixServed
  BY DEF IInv, CacheInv
<1>. QED
  BY <1>1, Invariance, PTL

(* Every poll has published WaitDelay after its context is done. *)
THEOREM PollIsBounded == Spec => []PollBounded
<1>1. IInv => PollBounded
  BY DEF IInv, CallInv
<1>. QED
  BY <1>1, Invariance, PTL

(* pollLoop is gone WaitDelay after its context is cancelled. *)
THEOREM Stopping == Spec => []StopsPromptly
<1>1. IInv => StopsPromptly
  BY DEF IInv, CancelInv, StopsPromptly
<1>. QED
  BY <1>1, Invariance, PTL
-----------------------------------------------------------------------------
(* What a failed poll publishes, seen by a client: nothing new, or the
   withdrawal of a stale position. *)
LEMMA CachedRefines ==
  ASSUME TypeOK, IInv, cur' = Cached, now' = now
  PROVE  [Feed!FeedNext]_(Feed!feedVars)
<1>1. CASE Cached = cur
  BY <1>1 DEF Feed!feedVars
<1>2. CASE Cached # cur
  <2>1. Cached = NoFix /\ cur = last /\ cur # NoFix
    <3>1. HasFix(last) \/ last = NoFix
      BY ResolvedFixFacts DEF IInv, CacheInv
    <3>. QED
      BY <1>2, <3>1, CachedFacts DEF IInv, CacheInv, YoungFixServed
  <2>2. last \in ResolvedFix /\ last.time = lastAt
    BY <2>1 DEF IInv, CacheInv
  <2>3. HasFix(cur) /\ now - cur.time >= StaleAfter
    BY <2>1, <2>2, CachedFacts, ResolvedFixFacts
  <2>. QED
    BY <2>1, <2>3 DEF Feed!FeedNext, Feed!Withdraw, Feed!HasFix, HasFix,
                      Feed!NoFix, NoFix, Feed!Never, Never
<1>. QED
  BY <1>1, <1>2

(* Every step of the poll loop is a step of the promised feed, or none that a
   client can see. *)
LEMMA FeedStep ==
  TypeOK /\ IInv /\ ServedAgeBounded' /\ [Next]_vars => [Feed!FeedNext]_(Feed!feedVars)
<1>. SUFFICES ASSUME TypeOK, IInv, ServedAgeBounded', [Next]_vars
              PROVE  [Feed!FeedNext]_(Feed!feedVars)
  OBVIOUS
<1>1. CASE UNCHANGED <<now, cur>>
  BY <1>1 DEF Feed!feedVars
<1>2. CASE ReadCell
  BY <1>1, <1>2, CachedRefines DEF ReadCell, EndPoll, publish
<1>3. CASE ResolveErr
  BY <1>3, CachedRefines DEF ResolveErr, EndPoll
<1>4. CASE ResolveOK
  <2>1. cur' = Resolved /\ UNCHANGED now
    BY <1>4 DEF ResolveOK, EndPoll
  <2>2. cur' \in ResolvedFix /\ cur'.time = now
    BY <2>1, ResolvedFacts
  <2>. QED
    BY <2>1, <2>2 DEF Feed!FeedNext, Feed!Acquire, Feed!ResolvedFix, ResolvedFix
<1>5. CASE Tick
  <2>1. UNCHANGED cur /\ now' = now + 1 /\ now < MaxTime
    BY <1>5 DEF Tick, publish
  <2>2. HasFix(cur) => now' - cur.time < MaxServedAge
    BY <2>1 DEF ServedAgeBounded, HasFix, MaxServedAge, StaleAfter
  <2>. QED
    BY <2>1, <2>2 DEF Feed!FeedNext, Feed!Pass, Feed!HasFix, HasFix
<1>6. CASE ScanIface
  BY <1>1, <1>6 DEF ScanIface, publish
<1>7. CASE TakeTick
  BY <1>1, <1>7 DEF TakeTick, publish
<1>8. CASE Stop \/ TickerFire \/ Cancel
  BY <1>1, <1>8 DEF Stop, TickerFire, Cancel, publish
<1>9. CASE UNCHANGED vars
  BY <1>1, <1>9 DEF vars, publish
<1>. QED
  BY <1>2, <1>3, <1>4, <1>5, <1>6, <1>7, <1>8, <1>9 DEF Next, Poller, Done

(* The poll loop implements the promised feed: positions appear only fresh,
   are withdrawn only stale, and never outlive MaxServedAge. *)
THEOREM Refinement == Spec => FeedSpec
<1>1. Init => Feed!FeedInit
  BY DEF Init, Feed!FeedInit, Feed!NoFix, NoFix, Feed!Never, Never
<1>2. TypeOK /\ IInv /\ ServedAgeBounded' /\ [Next]_vars => [Feed!FeedNext]_(Feed!feedVars)
  BY FeedStep
<1>. QED
  BY <1>1, <1>2, TypeCorrect, Invariance, ServedAge, PTL DEF Spec, FeedSpec, Feed!FeedSpec
-----------------------------------------------------------------------------
\* Requests sent, plus those that the current poll and a waiting tick can still
\* lead to.
InPoll == IF pc \in {"scan", "cell"} THEN 1 ELSE 0
InChannel == IF tick THEN 1 ELSE 0
Due == requests + InPoll + InChannel

\* The ticker has run a full interval for each of them but the first poll's.
QuotaInv == IF nextTick = Never THEN Due <= 1 /\ ~tick
                                ELSE Due * Interval <= nextTick

(* Multiplication is monotone. *)
LEMMA TimesMonotone ==
  ASSUME NEW a \in Nat, NEW b \in Nat, NEW c \in Nat, a <= b
  PROVE  a * c <= b * c /\ a * c \in Nat /\ b * c \in Nat
<1>1. PICK d \in Nat : b = a + d
  <2>. WITNESS b - a \in Nat
  <2>. QED
    OBVIOUS
<1>2. b * c = a * c + d * c
  BY <1>1
<1>3. a * c \in Nat /\ b * c \in Nat /\ d * c \in Nat
  OBVIOUS
<1>. QED
  BY <1>2, <1>3

(* The end of a poll does not add requests, and starts the ticker late enough. *)
LEMMA EndPollQuota ==
  ASSUME TypeOK, TypeOK', IInv, QuotaInv, NEW f, EndPoll(f), requests' = requests
  PROVE  QuotaInv'
<1>. USE PollLoopAssumption
<1>1. pc' \notin {"scan", "cell"} /\ UNCHANGED tick
  BY DEF EndPoll
<1>2. InPoll' = 0 /\ InChannel' = InChannel /\ InPoll \in Nat /\ InChannel \in Nat
  BY <1>1 DEF InPoll, InChannel
<1>3. Due' <= Due /\ Due' \in Nat /\ Due \in Nat
  BY <1>2 DEF Due, TypeOK
<1>4. now \in Nat /\ nextTick' # Never
  BY DEF EndPoll, TypeOK, Never
<1>5. CASE nextTick = Never
  <2>1. Due' <= 1 /\ nextTick' = now + Interval
    BY <1>3, <1>5 DEF QuotaInv, EndPoll
  <2>2. Due' * Interval <= 1 * Interval /\ Due' * Interval \in Nat
    BY <1>3, <2>1, TimesMonotone
  <2>3. Due' * Interval <= nextTick'
    BY <1>4, <2>1, <2>2
  <2>. QED
    BY <1>4, <2>3 DEF QuotaInv
<1>6. CASE nextTick # Never
  <2>1. Due * Interval <= nextTick /\ nextTick' = nextTick /\ nextTick \in Nat
    BY <1>6 DEF QuotaInv, EndPoll, TypeOK
  <2>2. /\ Due' * Interval <= Due * Interval
        /\ Due' * Interval \in Nat /\ Due * Interval \in Nat
    BY <1>3, TimesMonotone
  <2>3. Due' * Interval <= nextTick'
    BY <2>1, <2>2
  <2>. QED
    BY <1>4, <2>3 DEF QuotaInv
<1>. QED
  BY <1>5, <1>6

(* Every step preserves the quota's invariant. *)
LEMMA QuotaNext == TypeOK /\ TypeOK' /\ IInv /\ QuotaInv /\ [Next]_vars => QuotaInv'
<1>. SUFFICES ASSUME TypeOK, TypeOK', IInv, QuotaInv, [Next]_vars PROVE QuotaInv'
  OBVIOUS
<1>. USE PollLoopAssumption
<1>0. requests \in Nat /\ now \in Nat
  BY DEF TypeOK
<1>1. ASSUME Due' = Due, UNCHANGED nextTick, nextTick = Never => ~tick' PROVE QuotaInv'
  BY <1>1 DEF QuotaInv
<1>2. CASE ScanIface
  <2>1. UNCHANGED <<requests, tick, nextTick>> /\ InPoll' = InPoll
    BY <1>2 DEF ScanIface, AfterScan, ticker, InPoll
  <2>2. Due' = Due
    BY <2>1 DEF Due, InChannel
  <2>. QED
    BY <1>1, <2>1, <2>2 DEF QuotaInv
<1>3. CASE ReadCell
  <2>1. CASE pc' = "resolve" /\ requests' = requests + 1 /\ UNCHANGED ticker
    <3>1. InPoll = 1 /\ InPoll' = 0 /\ UNCHANGED <<tick, nextTick>>
      BY <1>3, <2>1 DEF ReadCell, InPoll, ticker
    <3>2. InChannel' = InChannel /\ InChannel \in Nat
      BY <3>1 DEF InChannel
    <3>3. Due' = Due
      BY <1>0, <2>1, <3>1, <3>2 DEF Due
    <3>. QED
      BY <1>1, <3>1, <3>3 DEF QuotaInv
  <2>2. CASE EndPoll(Cached) /\ UNCHANGED requests
    BY <2>2, EndPollQuota
  <2>. QED
    BY <1>3, <2>1, <2>2 DEF ReadCell
<1>4. CASE ResolveOK \/ ResolveErr
  BY <1>4, EndPollQuota DEF ResolveOK, ResolveErr
<1>5. CASE TakeTick
  <2>1. /\ pc = "select" /\ tick /\ ~tick' /\ UNCHANGED <<requests, nextTick>>
        /\ pc' \in {"scan", "cell"}
    BY <1>5, FirstCall DEF TakeTick, BeginPoll
  <2>2. InPoll = 0 /\ InPoll' = 1 /\ InChannel = 1 /\ InChannel' = 0
    BY <2>1 DEF InPoll, InChannel
  <2>3. Due' = Due
    BY <1>0, <2>1, <2>2 DEF Due
  <2>. QED
    BY <1>1, <2>1, <2>3
<1>6. CASE Stop \/ Cancel \/ Tick \/ UNCHANGED vars
  <2>1. UNCHANGED <<requests, tick, nextTick>> /\ InPoll' = InPoll
    BY <1>6 DEF Stop, Cancel, Tick, vars, ticker, InPoll
  <2>2. Due' = Due
    BY <2>1 DEF Due, InChannel
  <2>. QED
    BY <1>1, <2>1, <2>2 DEF QuotaInv
<1>7. CASE TickerFire
  <2>1. nextTick = now /\ nextTick' = nextTick + Interval /\ nextTick \in Nat
        /\ nextTick' # Never /\ nextTick # Never /\ UNCHANGED <<requests, pc>>
    BY <1>0, <1>7 DEF TickerFire, Never
  <2>2. InPoll' = InPoll /\ InPoll \in Nat
    BY <2>1 DEF InPoll
  <2>3. InChannel \in Nat /\ InChannel' = 1
    BY <1>7 DEF InChannel, TickerFire
  <2>4. Due' <= Due + 1 /\ Due' \in Nat /\ Due \in Nat
    BY <1>0, <2>1, <2>2, <2>3 DEF Due
  <2>5. PICK e \in Nat : e = Due + 1
    BY <2>4
  <2>6. Due' * Interval <= e * Interval /\ Due' * Interval \in Nat
    BY <2>4, <2>5, TimesMonotone
  <2>7. e * Interval = Due * Interval + Interval /\ Due * Interval \in Nat
    BY <2>4, <2>5
  <2>8. Due' * Interval <= nextTick'
    <3>1. Due * Interval <= nextTick
      BY <2>1 DEF QuotaInv
    <3>. QED
      BY <2>1, <2>6, <2>7, <3>1
  <2>. QED
    BY <2>1, <2>8 DEF QuotaInv
<1>. QED
  BY <1>2, <1>3, <1>4, <1>5, <1>6, <1>7 DEF Next, Poller, Done

(* The invariant bounds the requests already sent. *)
LEMMA QuotaBound == TypeOK /\ IInv /\ QuotaInv => OneRequestPerInterval
<1>. SUFFICES ASSUME TypeOK, IInv, QuotaInv PROVE OneRequestPerInterval
  OBVIOUS
<1>. USE PollLoopAssumption
<1>1. requests \in Nat /\ now \in Nat /\ InPoll \in Nat /\ InChannel \in Nat
  BY DEF TypeOK, InPoll, InChannel
<1>2. requests <= Due /\ Due \in Nat
  BY <1>1 DEF Due
<1>3. CASE nextTick = Never
  <2>1. requests - 1 <= 0
    BY <1>1, <1>2, <1>3 DEF QuotaInv
  <2>2. (requests - 1) * Interval <= 0
    BY <1>1, <2>1
  <2>. QED
    BY <1>1, <2>2 DEF OneRequestPerInterval
<1>4. CASE nextTick # Never
  <2>1. Due * Interval <= nextTick /\ nextTick <= now + Interval /\ nextTick \in Nat
    BY <1>4 DEF QuotaInv, IInv, TickerInv, TypeOK
  <2>2. requests * Interval <= Due * Interval
    BY <1>1, <1>2
  <2>3. (requests - 1) * Interval = requests * Interval - Interval
    BY <1>1
  <2>4. requests * Interval \in Nat /\ Due * Interval \in Nat
    BY <1>1, <1>2
  <2>. QED
    BY <1>1, <2>1, <2>2, <2>3, <2>4 DEF OneRequestPerInterval
<1>. QED
  BY <1>3, <1>4

(* The provider is never asked more than once per interval plus once. *)
THEOREM Quota == Spec => []OneRequestPerInterval
<1>1. Init => QuotaInv
  <2>. SUFFICES ASSUME Init PROVE QuotaInv
    OBVIOUS
  <2>1. InPoll = 1 /\ InChannel = 0
    BY FirstCall DEF Init, InPoll, InChannel
  <2>. QED
    BY <2>1 DEF Init, QuotaInv, Due
<1>2. TypeOK /\ TypeOK' /\ IInv /\ QuotaInv /\ [Next]_vars => QuotaInv'
  BY QuotaNext
<1>3. TypeOK /\ IInv /\ QuotaInv => OneRequestPerInterval
  BY QuotaBound
<1>. QED
  BY <1>1, <1>2, <1>3, TypeCorrect, Invariance, PTL DEF Spec
-----------------------------------------------------------------------------
\* A subprocess call takes at most this long.
Exec == ExecTimeout + WaitDelay

\* Every call of a poll that is not cancelled begins when those before it have
\* used up their own timeouts at most.
BudgetInv ==
  ~Cancelled =>
    /\ pc = "scan" => callAt <= pollAt + iface * Exec /\ now <= callAt + Exec
    /\ pc = "cell" => callAt <= pollAt + NIfaces * Exec /\ now <= callAt + Exec
    /\ pc = "resolve" => callAt <= pollAt + NIfaces * Exec + Exec

(* A scan hands over to the next call one more interface's time later. *)
LEMMA BudgetScan ==
  ASSUME TypeOK, CallInv, BudgetInv, ScanIface
  PROVE  BudgetInv'
<1>. USE PollLoopAssumption
<1>0. /\ pc = "scan" /\ iface \in Nat /\ iface' = iface + 1 /\ callAt' = now
      /\ now \in Nat /\ Exec \in Nat /\ UNCHANGED <<now, pollAt, cancelAt>>
      /\ pollAt \in Nat /\ callAt \in Nat
  BY DEF ScanIface, TypeOK, Exec
<1>1. SUFFICES ASSUME ~Cancelled
               PROVE  /\ pc' = "scan" => now <= pollAt + iface' * Exec
                      /\ pc' = "cell" => now <= pollAt + NIfaces * Exec
                      /\ pc' # "resolve"
  BY <1>0 DEF BudgetInv, Cancelled, ScanIface, AfterScan
<1>2. callAt <= pollAt + iface * Exec /\ now <= callAt + Exec
  BY <1>0, <1>1 DEF BudgetInv
<1>3. iface' * Exec = iface * Exec + Exec /\ iface * Exec \in Nat
  BY <1>0
<1>4. now <= pollAt + iface' * Exec
  BY <1>0, <1>2, <1>3
<1>5. pc' = "scan" \/ (pc' = "cell" /\ iface' = NIfaces)
  BY <1>0 DEF ScanIface, AfterScan
<1>. QED
  BY <1>4, <1>5

(* Every step preserves the budget's invariant. *)
LEMMA BudgetNext ==
  TypeOK /\ TypeOK' /\ IInv /\ BudgetInv /\ [Next]_vars => BudgetInv'
<1>. SUFFICES ASSUME TypeOK, TypeOK', IInv, BudgetInv, [Next]_vars PROVE BudgetInv'
  OBVIOUS
<1>. USE PollLoopAssumption
<1>0. /\ now \in Nat /\ callAt \in Nat /\ pollAt \in Nat /\ Exec \in Nat
      /\ NIfaces * Exec \in Nat /\ callAt <= now
  BY DEF TypeOK, Exec, IInv, CallInv
<1>1. CASE ScanIface
  BY <1>1, BudgetScan DEF IInv
<1>2. CASE ReadCell
  <2>1. pc = "cell" /\ callAt' = now /\ UNCHANGED <<now, cancelAt>>
    BY <1>2 DEF ReadCell
  <2>2. CASE pc' = "resolve" /\ UNCHANGED pollAt
    BY <1>0, <2>1, <2>2 DEF BudgetInv, Cancelled
  <2>3. CASE EndPoll(Cached)
    BY <2>3 DEF EndPoll, BudgetInv
  <2>. QED
    BY <1>2, <2>2, <2>3 DEF ReadCell
<1>3. CASE ResolveOK \/ ResolveErr
  BY <1>3 DEF ResolveOK, ResolveErr, EndPoll, BudgetInv
<1>4. CASE TakeTick
  <2>1. /\ callAt' = now /\ pollAt' = now /\ iface' = 0 /\ pc' # "resolve"
        /\ UNCHANGED now
    BY <1>4, FirstCall DEF TakeTick, BeginPoll
  <2>2. iface' * Exec = 0
    BY <1>0, <2>1
  <2>. QED
    BY <1>0, <2>1, <2>2 DEF BudgetInv, Exec
<1>5. CASE Stop
  BY <1>5 DEF Stop, BudgetInv
<1>6. CASE TickerFire \/ UNCHANGED vars
  BY <1>6 DEF TickerFire, vars, BudgetInv, Cancelled, Exec
<1>7. CASE Cancel
  BY <1>0, <1>7 DEF Cancel, BudgetInv, Cancelled, Never
<1>8. CASE Tick
  <2>1. /\ now' = now + 1
        /\ UNCHANGED <<pc, pollAt, callAt, iface, cancelAt>>
        /\ pc \in Calls => now < MustReturnBy
    BY <1>8 DEF Tick, Calls
  <2>2. CASE pc \in {"scan", "cell"}
    <3>1. now < MustReturnBy /\ MustReturnBy = LatestReturn(ExecTimeout, WaitDelay)
      BY <2>1, <2>2 DEF MustReturnBy, Calls
    <3>2. Deadline(ExecTimeout) <= callAt + ExecTimeout /\ Deadline(ExecTimeout) \in Int
      BY <1>0 DEF Deadline, Earlier, CtxDeadline, TypeOK, Never
    <3>3. now < callAt + Exec
      BY <1>0, <3>1, <3>2 DEF LatestReturn, Exec
    <3>. QED
      BY <1>0, <2>1, <2>2, <3>3 DEF BudgetInv, Cancelled, Exec
  <2>3. CASE pc \notin {"scan", "cell"}
    BY <2>1, <2>3 DEF BudgetInv, Cancelled, Exec
  <2>. QED
    BY <2>2, <2>3
<1>. QED
  BY <1>1, <1>2, <1>3, <1>4, <1>5, <1>6, <1>7, <1>8 DEF Next, Poller, Done

(* No hung call takes more from those after it than its timeout and its grace. *)
THEOREM RequestBudget == Spec => []BudgetKept
<1>. USE PollLoopAssumption
<1>1. Init => BudgetInv
  <2>. SUFFICES ASSUME Init PROVE BudgetInv
    OBVIOUS
  <2>1. iface * Exec = 0 /\ Exec \in Nat /\ NIfaces * Exec \in Nat
    BY DEF Init, Exec
  <2>. QED
    BY <2>1, FirstCall DEF Init, BudgetInv
<1>2. TypeOK /\ TypeOK' /\ IInv /\ BudgetInv /\ [Next]_vars => BudgetInv'
  BY BudgetNext
<1>3. TypeOK /\ BudgetInv => BudgetKept
  <2>. SUFFICES ASSUME TypeOK, BudgetInv, pc \in Calls, ~Cancelled
                PROVE  callAt <= pollAt + CallsBefore * Exec
    BY DEF BudgetKept, Exec
  <2>1. Exec \in Nat /\ NIfaces * Exec \in Nat /\ (NIfaces + 1) * Exec = NIfaces * Exec + Exec
    BY DEF Exec
  <2>2. CASE pc = "scan"
    BY <2>2 DEF BudgetInv, CallsBefore
  <2>3. CASE pc = "cell"
    BY <2>3 DEF BudgetInv, CallsBefore
  <2>4. CASE pc = "resolve"
    <3>1. CallsBefore = NIfaces + 1
      BY <2>4 DEF CallsBefore
    <3>2. callAt <= pollAt + NIfaces * Exec + Exec
      BY <2>4 DEF BudgetInv
    <3>3. callAt \in Nat /\ pollAt \in Nat
      BY DEF TypeOK
    <3>. QED
      BY <2>1, <3>1, <3>2, <3>3
  <2>. QED
    BY <2>2, <2>3, <2>4 DEF Calls
<1>. QED
  BY <1>1, <1>2, <1>3, TypeCorrect, Invariance, PTL DEF Spec

\* The subprocesses of a poll and the request fit into the poll's context.
TimeoutsFit == (NIfaces + 1) * Exec + HTTPTimeout <= PollTimeout

(* If the timeouts fit, no hung scan or modem ever shortens the request: with
   20 s + 1 s per subprocess, 15 s for the request and 60 s for the poll they
   fit for one interface and for no more. *)
THEOREM FullRequest ==
  ASSUME TimeoutsFit
  PROVE  Spec => [](pc = "resolve" /\ ~Cancelled => callAt + HTTPTimeout <= pollAt + PollTimeout)
<1>. USE PollLoopAssumption
<1>1. TypeOK /\ BudgetKept =>
        (pc = "resolve" /\ ~Cancelled => callAt + HTTPTimeout <= pollAt + PollTimeout)
  <2>. SUFFICES ASSUME TypeOK, BudgetKept, pc = "resolve", ~Cancelled
                PROVE  callAt + HTTPTimeout <= pollAt + PollTimeout
    OBVIOUS
  <2>1. callAt <= pollAt + (NIfaces + 1) * Exec
    BY DEF BudgetKept, CallsBefore, Calls, Exec
  <2>2. callAt \in Nat /\ pollAt \in Nat /\ Exec \in Nat /\ (NIfaces + 1) * Exec \in Nat
    BY DEF TypeOK, Exec
  <2>. QED
    BY <2>1, <2>2 DEF TimeoutsFit
<1>. QED
  BY <1>1, TypeCorrect, RequestBudget, PTL
-----------------------------------------------------------------------------
\* The signal that a fix names, as Attributed has it of the served one.
Names(f) == \/ f.source = "wifi" /\ f.aps >= MinAPs /\ f.cell = NoCell
            \/ f.source = "cell" /\ f.aps = 0 /\ f.cell \in Cells

\* The provider is asked only with enough access points or with a cell, and what
\* the cache keeps was resolved from one of them.
AttributionInv ==
  /\ pc = "resolve" => HaveAPs \/ cell # NoCell
  /\ HasFix(last) => Names(last)

(* Source.resolve falls back to the cell only where there is one. *)
LEMMA ResolvedNames ==
  ASSUME TypeOK, AttributionInv, pc = "resolve"
  PROVE  Names(Resolved)
<1>1. CASE HaveAPs
  BY <1>1 DEF Resolved, Names, HaveAPs
<1>2. CASE ~HaveAPs
  <2>1. cell \in Cells
    BY <1>2 DEF AttributionInv, TypeOK
  <2>. QED
    BY <1>2, <2>1 DEF Resolved, Names
<1>. QED
  BY <1>1, <1>2

(* Every action keeps AttributionInv: between the decision to ask and the answer
   neither the access points nor the cell change. *)
LEMMA AttributionStep == TypeOK /\ AttributionInv /\ [Next]_vars => AttributionInv'
<1>. SUFFICES ASSUME TypeOK, AttributionInv, [Next]_vars
              PROVE  AttributionInv'
  OBVIOUS
<1>1. CASE ScanIface
  BY <1>1 DEF ScanIface, AfterScan, AttributionInv, cache
<1>2. CASE ReadCell
  <2>1. last' = last /\ found' = found
    BY <1>2 DEF ReadCell, cache
  <2>2. pc' = "resolve" => HaveAPs \/ cell' # NoCell
    BY <1>2 DEF ReadCell, EndPoll
  <2>. QED
    BY <2>1, <2>2 DEF AttributionInv, HaveAPs
<1>3. CASE ResolveOK
  BY <1>3, ResolvedNames DEF ResolveOK, EndPoll, AttributionInv
<1>4. CASE ResolveErr
  BY <1>4 DEF ResolveErr, EndPoll, AttributionInv, cache
<1>5. CASE TakeTick
  BY <1>5, FirstCall DEF TakeTick, BeginPoll, AttributionInv, cache
<1>6. CASE Stop
  BY <1>6 DEF Stop, AttributionInv, cache
<1>7. CASE TickerFire \/ Cancel \/ Tick \/ UNCHANGED vars
  BY <1>7 DEF TickerFire, Cancel, Tick, vars, AttributionInv, HaveAPs, cache
<1>. QED
  BY <1>1, <1>2, <1>3, <1>4, <1>5, <1>6, <1>7 DEF Next, Poller, Done

(* A served fix names enough access points or a serving cell, never both. *)
THEOREM Attribution == Spec => []Attributed
<1>1. Init => AttributionInv
  <2>. SUFFICES ASSUME Init PROVE AttributionInv
    OBVIOUS
  <2>1. pc # "resolve" /\ last = NoFix
    BY FirstCall DEF Init
  <2>. QED
    BY <2>1, NoFixFacts DEF AttributionInv
<1>2. IInv /\ AttributionInv => Attributed
  <2>. SUFFICES ASSUME IInv, AttributionInv, HasFix(cur) PROVE Names(cur)
    BY DEF Attributed, Names
  <2>1. cur = last
    BY NoFixFacts DEF IInv, CacheInv
  <2>. QED
    BY <2>1 DEF AttributionInv
<1>. QED
  BY <1>1, <1>2, AttributionStep, TypeCorrect, Invariance, PTL DEF Spec
=============================================================================
