------------------------------ MODULE Uploader ------------------------------
(***************************************************************************)
(* geoinflux: run dials the router's gpsd again and again, stream reads    *)
(* its TPVs, and the uploader debounces two kinds of writes to InfluxDB,   *)
(* geo (a fix) and geo_status (a heartbeat).                               *)
(*                                                                         *)
(* One goroutine does all of it, so what matters is what it blocks in: the *)
(* dial, the read of the next report, an HTTP write, the wait before the   *)
(* next dial.  Meanwhile time passes and TPVs queue in the socket.  A step *)
(* that is not one of these takes no time.  A write's result is only       *)
(* logged, so it is not modelled; neither is fixState, which decides log   *)
(* lines.  Of a report the model keeps its kind: "fix" is a mode>=2 TPV    *)
(* with wifix or cellfix, for which FixLine has a line, "nofix" any other  *)
(* TPV, and "other" a report that is not a TPV.                            *)
(***************************************************************************)
EXTENDS Integers, Sequences

CONSTANTS MinInterval,   \* -min-interval
          WriteTimeout,  \* of the HTTP client
          ReadTimeout,   \* of one report
          RetryDelay,    \* between two connections
          DialTimeout,   \* of the kernel: Dial sets none
          FeedCap,       \* bound on the reports that wait in the socket
          MaxOthers,     \* bound on the reports between two TPVs
          MaxTime        \* bound on the clock

ASSUME UploaderAssumption ==
  /\ MinInterval \in Nat /\ WriteTimeout \in Nat /\ ReadTimeout \in Nat
  /\ RetryDelay \in Nat /\ DialTimeout \in Nat
  /\ FeedCap \in Nat /\ MaxOthers \in Nat /\ MaxTime \in Nat

Never == -1
TPVs == {"fix", "nofix"}
NoTPV == [kind |-> "nofix", at |-> 0]

VARIABLES
  now,            \* the clock
  cancelled,      \* the signal context is done
  pc,             \* what run does: see Blocked, and "top", "geo", "exited"
  deadline,       \* when the call it blocks in gives up
  link,           \* the connection: "none", "up", "down" (closed by either end)
  feed,           \* reports in the socket, each with the time it arrived
  others,         \* reports sent since the last TPV
  tpv,            \* onTPV's argument, while it runs
  captured,       \* onTPV's now, while it runs
  lastFix,        \* the uploader's fields
  lastStatus,
  lastConnected,
  geoAt,          \* history: when the last geo write began
  statusAt,       \* history: when the last geo_status write began
  lostAt          \* history: when the last connected=false write began

router == <<link, feed, others>>
fields == <<lastFix, lastStatus, lastConnected>>
call == <<tpv, captured>>
history == <<geoAt, statusAt, lostAt>>
vars == <<now, cancelled, pc, deadline, router, call, fields, history>>

Writing == {"status", "geoWrite", "lost"}
Blocked == {"dial", "read", "wait"} \cup Writing

Init ==
  /\ now = 0 /\ cancelled = FALSE /\ pc = "top" /\ deadline = 0
  /\ link = "none" /\ feed = <<>> /\ others = 0
  /\ tpv = NoTPV /\ captured = 0
  /\ lastFix = Never /\ lastStatus = Never /\ lastConnected = FALSE
  /\ geoAt = Never /\ statusAt = Never /\ lostAt = Never

\* run goes on in the call that pc names, for at most d.
Block(where, d) == pc' = where /\ deadline' = now + d
-----------------------------------------------------------------------------
(* uploader. *)

\* Mutants: always due; due one unit early; due only after a longer gap.
DueAlways(from, at) == TRUE
DueEarly(from, at) == from = Never \/ at - from >= MinInterval - 1
DueLate(from, at) == from = Never \/ at - from >= 2 * MinInterval + ReadTimeout
Due(from, at) == from = Never \/ at - from >= MinInterval

\* writeStatus starts a write.
WritesStatus(connected) == connected # lastConnected \/ Due(lastStatus, now)

WriteStatus(connected) ==
  /\ lastStatus' = now /\ lastConnected' = connected
  /\ statusAt' = now
  /\ lostAt' = IF connected THEN lostAt ELSE now

\* disconnected, and then run's wait.
Disconnected ==
  /\ IF WritesStatus(FALSE)
       THEN Block("lost", WriteTimeout) /\ WriteStatus(FALSE)
       ELSE Block("wait", RetryDelay) /\ UNCHANGED <<lastStatus, lastConnected, statusAt, lostAt>>
  /\ UNCHANGED <<lastFix, geoAt>>

\* ReadTPV returns a TPV: onTPV reads the clock and writes the status.
OnTPV ==
  /\ pc = "read" /\ feed # <<>> /\ Head(feed).kind \in TPVs
  /\ tpv' = Head(feed) /\ feed' = Tail(feed)
  /\ captured' = now
  /\ IF WritesStatus(TRUE)
       THEN Block("status", WriteTimeout) /\ WriteStatus(TRUE)
       ELSE pc' = "geo" /\ UNCHANGED <<deadline, lastStatus, lastConnected, statusAt, lostAt>>
  /\ UNCHANGED <<now, cancelled, link, others, lastFix, geoAt>>

\* The rest of onTPV, after writeStatus; it returns to ReadTPV.
GeoDue == tpv.kind = "fix" /\ Due(lastFix, captured)

WriteGeo ==
  /\ pc = "geo" /\ GeoDue
  /\ lastFix' = captured
  /\ Block("geoWrite", WriteTimeout)
  /\ geoAt' = now
  /\ UNCHANGED <<now, cancelled, router, call, lastStatus, lastConnected, statusAt, lostAt>>

Return == Block("read", ReadTimeout) /\ tpv' = NoTPV /\ captured' = 0

SkipGeo ==
  /\ pc = "geo" /\ ~GeoDue
  /\ Return
  /\ UNCHANGED <<now, cancelled, router, fields, history>>

\* Write returns, with or without an error.
WriteDone ==
  /\ pc \in Writing
  /\ \/ pc = "status" /\ pc' = "geo" /\ UNCHANGED <<deadline, call>>
     \/ pc = "geoWrite" /\ Return
     \/ pc = "lost" /\ Block("wait", RetryDelay) /\ UNCHANGED call
  /\ UNCHANGED <<now, cancelled, router, fields, history>>
-----------------------------------------------------------------------------
(* run and stream. *)

StartDial ==
  /\ pc = "top" /\ ~cancelled
  /\ Block("dial", DialTimeout)
  /\ UNCHANGED <<now, cancelled, router, call, fields, history>>

Exit ==
  /\ pc = "top" /\ cancelled
  /\ pc' = "exited"
  /\ UNCHANGED <<now, cancelled, deadline, router, call, fields, history>>

\* Dial and Watch succeed; ReadTPV waits for the first report.
Connect ==
  /\ pc = "dial" /\ ~cancelled
  /\ Block("read", ReadTimeout)
  /\ link' = "up" /\ feed' = <<>> /\ others' = 0
  /\ UNCHANGED <<now, cancelled, call, fields, history>>

\* ReadTPV's read fails: the connection is gone, or no report came in time.
ReadFails == pc = "read" /\ (link = "down" \/ (feed = <<>> /\ now >= deadline))

\* stream returns an error, and closes the connection.  Mutant: run waits for
\* the retry without disconnected.
StreamFailsSilently ==
  /\ pc = "dial" \/ ReadFails
  /\ link' = "none" /\ feed' = <<>> /\ UNCHANGED others
  /\ IF cancelled THEN pc' = "top" /\ UNCHANGED <<deadline, fields, history>>
                  ELSE Block("wait", RetryDelay) /\ UNCHANGED <<fields, history>>
  /\ UNCHANGED <<now, cancelled, call>>
StreamFails ==
  /\ pc = "dial" \/ ReadFails
  /\ link' = "none" /\ feed' = <<>> /\ UNCHANGED others
  /\ IF cancelled THEN pc' = "top" /\ UNCHANGED <<deadline, fields, history>>
                  ELSE Disconnected
  /\ UNCHANGED <<now, cancelled, call>>

\* ReadTPV discards a report that is not a TPV, and waits anew.
SkipReport ==
  /\ pc = "read" /\ feed # <<>> /\ Head(feed).kind = "other"
  /\ feed' = Tail(feed)
  /\ Block("read", ReadTimeout)
  /\ UNCHANGED <<now, cancelled, link, others, call, fields, history>>

\* The wait before the next dial ends.  Mutant: at once.
RetryAtOnce ==
  /\ pc = "wait"
  /\ pc' = "top"
  /\ UNCHANGED <<now, cancelled, deadline, router, call, fields, history>>
Retry ==
  /\ pc = "wait" /\ (cancelled \/ now >= deadline)
  /\ pc' = "top"
  /\ UNCHANGED <<now, cancelled, deadline, router, call, fields, history>>

\* stream's goroutine closes the connection once the context is done.  Mutant:
\* there is none.
CloseNever == FALSE /\ UNCHANGED vars
CloseOnDone ==
  /\ cancelled /\ link = "up"
  /\ link' = "down"
  /\ UNCHANGED <<now, cancelled, pc, deadline, feed, others, call, fields, history>>

Cancel ==
  /\ ~cancelled
  /\ cancelled' = TRUE
  /\ UNCHANGED <<now, pc, deadline, router, call, fields, history>>
-----------------------------------------------------------------------------
(* The router, the network and the clock. *)

Arrive(kind) ==
  /\ link = "up" /\ Len(feed) < FeedCap
  /\ kind = "other" => others < MaxOthers
  /\ feed' = Append(feed, [kind |-> kind, at |-> now])
  /\ others' = IF kind = "other" THEN others + 1 ELSE 0
  /\ UNCHANGED <<now, cancelled, pc, deadline, link, call, fields, history>>

Drop ==
  /\ link = "up"
  /\ link' = "down"
  /\ UNCHANGED <<now, cancelled, pc, deadline, feed, others, call, fields, history>>

\* Time passes while run blocks, no longer than the call takes to give up, to
\* see the context, or to return what has arrived.
Tick ==
  /\ now < MaxTime
  /\ pc \in Blocked /\ now < deadline /\ ~cancelled
  /\ pc = "read" => feed = <<>> /\ link = "up"
  /\ now' = now + 1
  /\ UNCHANGED <<cancelled, pc, deadline, router, call, fields, history>>
-----------------------------------------------------------------------------
Step == OnTPV \/ WriteGeo \/ SkipGeo \/ WriteDone \/ StartDial \/ Exit \/ Connect
        \/ StreamFails \/ SkipReport \/ Retry

Environment == (\E kind \in TPVs \cup {"other"} : Arrive(kind)) \/ Drop \/ Cancel \/ Tick

Exited == pc = "exited" /\ UNCHANGED vars

Next == Step \/ CloseOnDone \/ Environment \/ Exited

Spec == Init /\ [][Next]_vars

\* Runnable goroutines run.  Nothing is assumed of the router or the network,
\* only that a call returns once its context is done.
LiveSpec == Spec /\ WF_vars(Step) /\ WF_vars(CloseOnDone)
-----------------------------------------------------------------------------
Time == 0..MaxTime

(* Type invariant. *)
TypeOK ==
  /\ now \in Time /\ cancelled \in BOOLEAN
  /\ pc \in Blocked \cup {"top", "geo", "exited"}
  /\ deadline \in Nat
  /\ link \in {"none", "up", "down"}
  /\ link # "none" <=> pc \in {"read", "status", "geo", "geoWrite"}
  /\ feed \in Seq([kind : TPVs \cup {"other"}, at : Time])
  /\ others \in Nat
  /\ tpv \in [kind : TPVs, at : Time] /\ captured \in Time
  /\ lastFix \in Time \cup {Never} /\ lastStatus \in Time \cup {Never}
  /\ lastConnected \in BOOLEAN
  /\ geoAt \in Time \cup {Never} /\ statusAt \in Time \cup {Never}
  /\ lostAt \in Time \cup {Never}

StartsGeo == pc # "geoWrite" /\ pc' = "geoWrite"
StartsStatus == pc \notin {"status", "lost"} /\ pc' \in {"status", "lost"}

(* Geo writes begin at least MinInterval - WriteTimeout apart: onTPV reads the
   clock before it writes the status, so a slow status write takes from the
   gap to the next geo write, and nothing else does. *)
GeoSpacing ==
  [][StartsGeo /\ geoAt # Never => now - geoAt >= MinInterval - WriteTimeout]_vars

(* Status writes that report the same connection state begin at least
   MinInterval apart, however often the connection changes in between; a
   flapping connection is reported lost once per RetryDelay at most. *)
StatusPaced ==
  [][StartsStatus =>
       /\ lastStatus # Never /\ lastConnected' = lastConnected
            => now - statusAt >= MinInterval
       /\ pc' = "lost" /\ lostAt # Never => now - lostAt >= RetryDelay]_vars

(* InfluxDB is told of a lost connection before the next dial and of a
   re-established one before the first geo point: what was last reported is the
   truth whenever run waits, dials after a loss, or writes a fix. *)
StatusTells ==
  /\ pc \in {"wait", "top", "dial"} /\ statusAt # Never /\ ~cancelled => ~lastConnected
  /\ pc \in {"geo", "geoWrite"} => lastConnected

(* Reports do not queue up: with writes that fit twice into MinInterval, the TPV
   that onTPV handles arrived no more than two writes ago, so that neither a
   connected=true nor a point's mode is older news than that. *)
NoBacklog ==
  2 * WriteTimeout < MinInterval /\ pc \in {"status", "geo", "geoWrite"}
    => captured - tpv.at <= 2 * WriteTimeout

Later(x, y) == IF x <= y THEN y ELSE x

(* A running uploader is never silent for longer than it takes to give up a
   stalled read or dial: with or without fixes and connections the next
   geo_status write begins within this bound. (A write that is slower than the
   debounce, or than the way to the next connection, counts in its place.) *)
SilenceBound == Later(MinInterval, WriteTimeout) + Later(RetryDelay + DialTimeout, WriteTimeout)
                + (MaxOthers + 1) * ReadTimeout
SilenceBounded == now - (IF statusAt = Never THEN 0 ELSE statusAt) <= SilenceBound

(* A cancelled uploader exits, whatever it blocks in (stream's closer goroutine
   and the contexts). *)
Stops == cancelled ~> pc = "exited"
=============================================================================
