------------------------------ MODULE PollLoop ------------------------------
(***************************************************************************)
(* geolocd's position source and the goroutine that polls it:              *)
(* wifi.Source.Fix (scan every interface, read the serving cell, ask the   *)
(* provider, fall back to the cached fix) under pollOnce/pollLoop, which   *)
(* publish each outcome in the atomic `cur' that the gpsd server reads.    *)
(*                                                                         *)
(* A poll is a sequence of calls that each take time: one `iw scan' per    *)
(* interface, one AT command, one HTTP request.  Each has its own timeout  *)
(* and all share the poll's context.  The clock advances in units; a       *)
(* runnable goroutine acts before the next unit (scheduling delay and CPU  *)
(* time are below the unit).  The throttled log lines of logResolve and    *)
(* scanLogs are left out: they touch no state that is modelled here.       *)
(***************************************************************************)
EXTENDS FixData, FiniteSets

CONSTANTS APs,           \* access points (BSSIDs) that a scan can report
          NIfaces,       \* number of interfaces in wifi_iface
          MinAPs,        \* wifi_min_aps
          Interval,      \* wifi_interval, the ticker's period
          StaleFloor,    \* the two minutes below which StaleAfter never falls
          PollTimeout,   \* pollTimeout, the poll's context deadline
          ExecTimeout,   \* ExecTimeout of a subprocess
          WaitDelay,     \* cmd.WaitDelay: a killed helper's remaining pipes
          HTTPTimeout,   \* http.Client.Timeout of the provider request
          MaxTime        \* bound on the modelled clock

ASSUME PollLoopAssumption ==
  /\ IsFiniteSet(APs)
  /\ NIfaces \in Nat
  /\ MinAPs \in Nat \ {0}
  /\ Interval \in Nat \ {0}
  /\ StaleFloor \in Nat \ {0}
  /\ PollTimeout \in Nat
  /\ ExecTimeout \in Nat
  /\ WaitDelay \in Nat
  /\ HTTPTimeout \in Nat
  /\ MaxTime \in Nat

VARIABLES
  now,       \* the clock
  pc,        \* where the polling goroutine is
  pollAt,    \* when the current poll's context was created
  callAt,    \* when the current call (scan, AT command, request) began
  iface,     \* interfaces scanned so far in this poll
  found,     \* APs merged so far in this poll
  cell,      \* the serving cell read in this poll, or NoCell
  last,      \* Source.last, the cached fix
  lastAt,    \* Source.lastAt
  cur,       \* the published fix
  hadFix,    \* pollLoop's hadFix
  nextTick,  \* when the ticker fires next; Never before it is created
  tick,      \* a tick waits in the ticker's channel
  cancelAt,  \* when the daemon's context was cancelled, or Never
  requests   \* history: provider requests sent so far

ticker  == <<nextTick, tick>>
cache   == <<last, lastAt>>
publish == <<cur, hadFix>>
vars == <<now, pc, pollAt, callAt, iface, found, cell, cache, publish, ticker,
          cancelAt, requests>>

Calls   == {"scan", "cell", "resolve"}
PCs     == Calls \cup {"select", "stopped"}

Earlier(a, b) == IF a <= b THEN a ELSE b

StaleAfter == IF 2 * Interval < StaleFloor THEN StaleFloor ELSE 2 * Interval

Cancelled == cancelAt # Never

\* The instant at which the context of the current poll is done.
\* Mutant: the poll's context is not derived from the daemon's.
CtxDeadlineDetached == pollAt + PollTimeout
CtxDeadline == IF Cancelled THEN Earlier(cancelAt, pollAt + PollTimeout)
                            ELSE pollAt + PollTimeout

\* A call limited to `limit' succeeds only until Deadline(limit); it has
\* returned by LatestReturn(limit, grace), at once if the context was done.
Deadline(limit) == Earlier(callAt + limit, CtxDeadline)
LatestReturn(limit, grace) == IF CtxDeadline < callAt THEN callAt
                              ELSE Deadline(limit) + grace

\* Mutants: subprocesses without a timeout of their own; calls that ignore the
\* poll's context.
MustReturnByNoExecTimeout == IF pc = "resolve" THEN LatestReturn(HTTPTimeout, 0)
                             ELSE LatestReturn(PollTimeout, WaitDelay)
MustReturnByNoContext == IF pc = "resolve" THEN callAt + HTTPTimeout
                         ELSE callAt + ExecTimeout + WaitDelay
MustReturnBy == IF pc = "resolve" THEN LatestReturn(HTTPTimeout, 0)
                ELSE LatestReturn(ExecTimeout, WaitDelay)

HaveAPs == Cardinality(found) >= MinAPs

\* Scanner.Scan's loop after i interfaces.
AfterScan(i) == IF i = NIfaces THEN "cell" ELSE "scan"
-----------------------------------------------------------------------------
\* pollOnce and Source.resolve enter their first call.
BeginPoll == /\ pc' = AfterScan(0)
             /\ pollAt' = now
             /\ callAt' = now
             /\ iface' = 0
             /\ found' = {}
             /\ cell' = NoCell

Init == /\ now = 0
        /\ pc = AfterScan(0)
        /\ pollAt = 0 /\ callAt = 0
        /\ iface = 0 /\ found = {} /\ cell = NoCell
        /\ last = NoFix /\ lastAt = Never
        /\ cur = NoFix /\ hadFix = FALSE
        /\ nextTick = Never /\ tick = FALSE
        /\ cancelAt = Never
        /\ requests = 0

\* pollOnce publishes what Source.Fix returned and pollLoop is back at its
\* select; after the very first poll it creates the ticker.
EndPoll(f) == /\ cur' = f
              /\ hadFix' = HasFix(f)
              /\ pc' = "select"
              /\ nextTick' = IF nextTick = Never THEN now + Interval ELSE nextTick
              /\ UNCHANGED <<tick, pollAt>>

\* Source.cached: the cached fix while it is younger than StaleAfter.
\* Mutants: the age test off by one; the age not looked at; a cached fix
\* stamped with the current time.
CachedOffByOne == IF lastAt = Never \/ now - lastAt > StaleAfter
                  THEN NoFix ELSE last
CachedForever == IF lastAt = Never THEN NoFix ELSE last
CachedRestamped == IF lastAt = Never \/ now - lastAt >= StaleAfter
                   THEN NoFix ELSE [last EXCEPT !.time = now]
Cached == IF lastAt = Never \/ now - lastAt >= StaleAfter THEN NoFix ELSE last

\* The call of one interface's scan returns: a set of APs, or an error that
\* leaves what the other interfaces found.
ScanIface ==
  /\ pc = "scan"
  /\ \/ /\ now <= Deadline(ExecTimeout)
        /\ \E aps \in SUBSET APs : found' = found \cup aps
     \/ UNCHANGED found
  /\ iface' = iface + 1
  /\ pc' = AfterScan(iface + 1)
  /\ callAt' = now
  /\ UNCHANGED <<now, pollAt, cell, cache, publish, ticker, cancelAt, requests>>

\* The AT command returns a geolocatable serving cell, or none.  With neither
\* a cell nor enough APs the poll fails without asking the provider.
ReadCell ==
  /\ pc = "cell"
  /\ \E c \in Cells \cup {NoCell} :
       /\ c # NoCell => now <= Deadline(ExecTimeout)
       /\ cell' = c
       /\ callAt' = now
       /\ \/ /\ HaveAPs \/ c # NoCell
             /\ pc' = "resolve"
             /\ requests' = requests + 1
             /\ UNCHANGED <<pollAt, publish, ticker>>
          \/ /\ ~HaveAPs /\ c = NoCell
             /\ EndPoll(Cached)
             /\ UNCHANGED requests
  /\ UNCHANGED <<now, iface, found, cache, cancelAt>>

\* The fix that Source.resolve builds from the provider's location.
\* Mutant: any scanned AP makes it a WiFi fix.
ResolvedAnyAP == IF found # {}
  THEN [mode |-> 2, time |-> now, source |-> "wifi",
        aps |-> Cardinality(found), cell |-> NoCell]
  ELSE [mode |-> 2, time |-> now, source |-> "cell", aps |-> 0, cell |-> cell]
Resolved == IF HaveAPs
  THEN [mode |-> 2, time |-> now, source |-> "wifi",
        aps |-> Cardinality(found), cell |-> NoCell]
  ELSE [mode |-> 2, time |-> now, source |-> "cell", aps |-> 0, cell |-> cell]

\* The provider answers with a location: cache it and publish it.
ResolveOK ==
  /\ pc = "resolve"
  /\ now <= Deadline(HTTPTimeout)
  /\ last' = Resolved
  /\ lastAt' = now
  /\ EndPoll(Resolved)
  /\ UNCHANGED <<now, callAt, iface, found, cell, cancelAt, requests>>

\* The request fails or times out: publish the cached fix, if young enough.
ResolveErr ==
  /\ pc = "resolve"
  /\ EndPoll(Cached)
  /\ UNCHANGED <<now, callAt, iface, found, cell, cache, cancelAt, requests>>

\* pollLoop's select takes a tick.  Mutant: it polls without consuming it.
TakeTickAgain ==
  /\ pc = "select"
  /\ tick
  /\ BeginPoll
  /\ UNCHANGED <<now, cache, publish, ticker, cancelAt, requests>>
TakeTick ==
  /\ pc = "select"
  /\ tick
  /\ tick' = FALSE
  /\ BeginPoll
  /\ UNCHANGED <<now, cache, publish, nextTick, cancelAt, requests>>

\* pollLoop's select sees the cancelled context and returns.
Stop ==
  /\ pc = "select"
  /\ Cancelled
  /\ pc' = "stopped"
  /\ UNCHANGED <<now, pollAt, callAt, iface, found, cell, cache, publish,
                 ticker, cancelAt, requests>>

\* The runtime delivers a tick; one that finds the channel full is dropped.
\* Mutant: a timer that only a delivered tick sets anew.
TimerFire ==
  /\ pc # "stopped"
  /\ nextTick = now
  /\ tick' = TRUE
  /\ nextTick' = IF tick THEN 0 ELSE nextTick + Interval
  /\ UNCHANGED <<now, pc, pollAt, callAt, iface, found, cell, cache, publish,
                 cancelAt, requests>>
TickerFire ==
  /\ pc # "stopped"
  /\ nextTick = now
  /\ tick' = TRUE
  /\ nextTick' = nextTick + Interval
  /\ UNCHANGED <<now, pc, pollAt, callAt, iface, found, cell, cache, publish,
                 cancelAt, requests>>

\* SIGTERM or SIGINT cancels the daemon's context.
Cancel ==
  /\ pc # "stopped"
  /\ ~Cancelled
  /\ cancelAt' = now
  /\ UNCHANGED <<now, pc, pollAt, callAt, iface, found, cell, cache, publish,
                 ticker, requests>>

\* Time passes, unless a goroutine is runnable or the ticker is due.
Tick ==
  /\ now < MaxTime
  /\ nextTick # now
  /\ \/ pc = "select" /\ ~tick /\ ~Cancelled
     \/ pc \in Calls /\ now < MustReturnBy
  /\ now' = now + 1
  /\ UNCHANGED <<pc, pollAt, callAt, iface, found, cell, cache, publish, ticker,
                 cancelAt, requests>>

Poller == ScanIface \/ ReadCell \/ ResolveOK \/ ResolveErr \/ TakeTick \/ Stop

\* The process has returned, or the modelled clock is exhausted.
Done == /\ pc = "stopped" \/ now = MaxTime
        /\ UNCHANGED vars

Next == Poller \/ TickerFire \/ Cancel \/ Tick \/ Done

Spec == Init /\ [][Next]_vars

\* A call always returns (its context has a deadline), the runtime delivers due
\* ticks, a runnable goroutine runs, and time passes.
LiveSpec == Spec /\ WF_vars(Poller) /\ WF_vars(TickerFire) /\ WF_vars(Tick)
-----------------------------------------------------------------------------
(* Type invariant: every variable has its type, and the call counters are in
   range for the call in progress. *)
TypeOK ==
  /\ now \in 0..MaxTime
  /\ pc \in PCs
  /\ pollAt \in Nat /\ callAt \in Nat
  /\ iface \in 0..NIfaces
  /\ pc = "scan" => iface < NIfaces
  /\ found \in SUBSET APs
  /\ cell \in Cells \cup {NoCell}
  /\ last \in Fix /\ lastAt \in Nat \cup {Never}
  /\ cur \in Fix /\ hadFix \in BOOLEAN
  /\ nextTick \in Nat \cup {Never} /\ tick \in BOOLEAN
  /\ cancelAt \in Nat \cup {Never}
  /\ requests \in Nat

\* The age at which the oldest fix leaves the socket: staleness is only looked
\* at when a poll fails, so a fix just younger than StaleAfter is published
\* once more and stays until the next poll has run out of time.
MaxServedAge == StaleAfter + Interval + PollTimeout + WaitDelay

(* A fix is served for less than MaxServedAge: the next poll that can withdraw
   it starts within one interval and ends with its context (pollLoop, pollOnce
   and Source.cached together; no single one of them bounds the age). *)
ServedAgeBounded == HasFix(cur) => now - cur.time < MaxServedAge

(* A failed scan, AT command or request never blanks a position younger than
   StaleAfter: while the cached fix is that young it is what is served
   (Source.cached, pollOnce). *)
YoungFixServed == HasFix(last) /\ now - lastAt < StaleAfter => cur = last

(* The position's refinement: PollLoop serves fixes as PositionFeed says, so a
   withdrawn fix never reappears, an older one never replaces a newer one, and
   only a fix of at least StaleAfter is withdrawn. *)
Feed == INSTANCE PositionFeed
FeedSpec == Feed!FeedSpec

(* A served fix names the signal it was resolved from: "wifi" with at least
   MinAPs access points, or "cell" with a serving cell and no access points, so
   that a TPV always carries exactly one extension (Source.resolve). *)
Attributed ==
  HasFix(cur) => \/ /\ cur.source = "wifi"
                    /\ cur.aps >= MinAPs
                    /\ cur.cell = NoCell
                 \/ /\ cur.source = "cell"
                    /\ cur.aps = 0
                    /\ cur.cell \in Cells

(* The provider is asked at most once per interval, on top of the poll at
   start-up: an overrunning poll delays requests but a backlog of ticks never
   multiplies them (pollLoop's ticker; README.md:88, docs/INSTALL.md:100). *)
OneRequestPerInterval == (requests - 1) * Interval <= now

\* The number of calls before the current one in its poll.
CallsBefore == CASE pc = "scan" -> iface [] pc = "cell" -> NIfaces [] OTHER -> NIfaces + 1

(* A call that hangs costs those after it no more than its own timeout and grace:
   each scan, the AT command and the request begin by when the calls before them
   may have used these up. So a hung scanner leaves time for the other interfaces,
   the modem and the provider, as far as pollTimeout has any (ExecTimeout and
   WaitDelay against the poll's context). *)
BudgetKept ==
  pc \in Calls /\ ~Cancelled
    => callAt <= pollAt + CallsBefore * (ExecTimeout + WaitDelay)

(* Cancelling the daemon's context ends pollLoop within the time a killed
   helper may hold its pipes, whatever call is in progress and even when a
   tick competes with the cancellation in select. *)
StopsPromptly == Cancelled /\ pc # "stopped" => now <= cancelAt + WaitDelay

(* However many calls of a poll hang, and in whatever order, the poll has
   published when its context has been done for WaitDelay (pollOnce). *)
PollBounded == pc \in Calls => now <= pollAt + PollTimeout + WaitDelay

(* pollLoop never stops polling: until it is cancelled it takes another tick
   from its select, as long as the modelled clock allows for one. *)
KeepsPolling ==
  pc = "select" /\ now + Interval <= MaxTime ~> pc \in Calls \/ Cancelled

(* What docs/reference/gpsd.md:53-55 says: the no-fix report is served when the
   last fix is older than StaleAfter. *)
StaleIsNoFix == HasFix(cur) => now - cur.time <= StaleAfter
=============================================================================
