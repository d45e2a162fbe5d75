----------------------------- MODULE StreamFeed -----------------------------
(***************************************************************************)
(* geolocd's position on its way to InfluxDB: Uploader, the handler of its *)
(* connection, and the position that geolocd serves, as PositionFeed       *)
(* promises it, but with a daemon that may die and come back without its   *)
(* cached fix.                                                             *)
(*                                                                         *)
(* A position is the time of its fix, NoFix if there is none. On its way   *)
(* it is in flight (loaded by the handler, whose write may block, and then *)
(* in the two kernels and the network), in geoinflux's socket (cargo, in   *)
(* step with feed) and in onTPV (doing). The clocks of both machines are   *)
(* one and only go forward.                                                *)
(***************************************************************************)
EXTENDS Uploader

CONSTANTS StaleAfter, MaxServedAge,  \* of PositionFeed
          FlightCap                  \* bound on the TPVs in flight

ASSUME StreamAssumption == StaleAfter \in Nat /\ MaxServedAge \in Nat \ {0} /\ FlightCap \in Nat

NoFix == Never

VARIABLES
    served,  \* geolocd's cur
    handler, \* the connection's other end is still served: handleConn runs
    flight,  \* positions loaded and not yet arrived
    cargo,   \* the positions of the reports in feed
    doing,   \* the position of onTPV's argument, until it is written or skipped
    point,   \* history: the time of the last geo point
    told,    \* history: what the last geo_status said: "fix", "nofix" or "lost"
    goneAt   \* history: when the position now missing was last served

daemon == <<served, goneAt, handler>>
pipe == <<flight, cargo, doing>>
ledger == <<point, told>>
streamVars == <<vars, daemon, pipe, ledger>>

Kind(fix) == IF fix = NoFix THEN "nofix" ELSE "fix"

StreamInit ==
    /\ Init
    /\ served = NoFix /\ goneAt = Never /\ handler = FALSE
    /\ flight = <<>> /\ cargo = <<>> /\ doing = NoFix
    /\ point = Never /\ told = "lost"

-----------------------------------------------------------------------------
(* geolocd. *)

\* pollOnce publishes a fix just resolved, or withdraws a stale one.
Publish ==
    /\ served' = now /\ goneAt' = Never
    /\ UNCHANGED <<vars, handler, pipe, ledger>>

Withdraw ==
    /\ served # NoFix /\ now - served >= StaleAfter
    /\ served' = NoFix /\ goneAt' = now
    /\ UNCHANGED <<vars, handler, pipe, ledger>>

\* geolocd ends, for whatever reason, and is started again: its handlers are gone
\* and its fix forgotten. What they have sent is still on its way; that the
\* connection is closed arrives later (Lost), or never, if the network is down or
\* the router was without power.
Restart ==
    /\ served' = NoFix /\ goneAt' = IF served = NoFix THEN goneAt ELSE now
    /\ handler' = FALSE
    /\ UNCHANGED <<vars, pipe, ledger>>

\* sendFix in the connection's handler. Mutants: a position just sent is sent
\* again for one that is gone; TPVs written by a goroutine of their own, so that
\* one may overtake another.
SendLastKnown ==
    /\ link = "up" /\ handler /\ Len(flight) < FlightCap
    /\ flight' = Append(flight, IF served = NoFix /\ flight # <<>> THEN flight[Len(flight)]
                                ELSE served)
    /\ UNCHANGED <<vars, daemon, cargo, doing, ledger>>

SendConcurrent ==
    /\ link = "up" /\ handler /\ Len(flight) < FlightCap
    /\ flight' \in {Append(flight, served), <<served>> \o flight}
    /\ UNCHANGED <<vars, daemon, cargo, doing, ledger>>

Send ==
    /\ link = "up" /\ handler /\ Len(flight) < FlightCap
    /\ flight' = Append(flight, served)
    /\ UNCHANGED <<vars, daemon, cargo, doing, ledger>>

-----------------------------------------------------------------------------
(* The network, in order, and the clock. *)

Deliver ==
    /\ flight # <<>> /\ Arrive(Kind(Head(flight)))
    /\ cargo' = Append(cargo, Head(flight)) /\ flight' = Tail(flight)
    /\ UNCHANGED <<daemon, doing, ledger>>

DeliverOther ==
    /\ Arrive("other")
    /\ cargo' = Append(cargo, NoFix)
    /\ UNCHANGED <<daemon, flight, doing, ledger>>

\* The connection is closed or reset. What has not arrived by then is lost.
Lost ==
    /\ Drop
    /\ flight' = <<>> /\ handler' = FALSE
    /\ UNCHANGED <<served, goneAt, cargo, doing, ledger>>

\* PositionFeed: no position is served at MaxServedAge.
Pass ==
    /\ Tick
    /\ served # NoFix => now' - served < MaxServedAge
    /\ UNCHANGED <<daemon, pipe, ledger>>

-----------------------------------------------------------------------------
(* geoinflux. *)

Receive ==
    /\ OnTPV
    /\ doing' = Head(cargo) /\ cargo' = Tail(cargo)
    /\ told' = IF pc' = "status" THEN Kind(doing') ELSE told
    /\ UNCHANGED <<daemon, flight, point>>

Discard ==
    /\ SkipReport
    /\ cargo' = Tail(cargo)
    /\ UNCHANGED <<daemon, flight, doing, ledger>>

Point ==
    /\ WriteGeo
    /\ point' = doing /\ doing' = NoFix
    /\ UNCHANGED <<daemon, flight, cargo, told>>

NoPoint ==
    /\ SkipGeo
    /\ doing' = NoFix
    /\ UNCHANGED <<daemon, flight, cargo, ledger>>

\* A stream ends or begins, with nothing under way.
Disconnect ==
    /\ StreamFails \/ Connect
    /\ handler' = (link' = "up")
    /\ flight' = <<>> /\ cargo' = <<>>
    /\ told' = IF pc' = "lost" THEN "lost" ELSE told
    /\ UNCHANGED <<served, goneAt, doing, point>>

Elsewhere ==
    /\ WriteDone \/ StartDial \/ Exit \/ Retry \/ CloseOnDone \/ Cancel
    /\ UNCHANGED <<daemon, pipe, ledger>>

StreamNext ==
    \/ Publish \/ Withdraw \/ Restart \/ Send
    \/ Deliver \/ DeliverOther \/ Lost \/ Pass
    \/ Receive \/ Discard \/ Point \/ NoPoint \/ Disconnect \/ Elsewhere

StreamSpec == StreamInit /\ [][StreamNext]_streamVars

-----------------------------------------------------------------------------

\* x is no newer than y, if y is a fix.
Older(x, y) == y # NoFix => x <= y

\* No position overtakes another on its way: each is older than what comes after
\* it, up to what geolocd serves now; and a report is a fix if its position is.
Before(x) == Older(point, x) /\ Older(doing, x)
After(x) == Older(x, served) /\ x <= now

Pipeline ==
    /\ Len(cargo) = Len(feed)
    /\ \A i \in DOMAIN cargo : feed[i].kind = "fix" <=> cargo[i] # NoFix
    /\ pc \in {"status", "geo"} => (tpv.kind = "fix" <=> doing # NoFix)
    /\ \A i, j \in DOMAIN cargo : i < j => Older(cargo[i], cargo[j])
    /\ \A i, j \in DOMAIN flight : i < j => Older(flight[i], flight[j])
    /\ \A i \in DOMAIN cargo, j \in DOMAIN flight : Older(cargo[i], flight[j])
    /\ \A i \in DOMAIN cargo : Before(cargo[i]) /\ After(cargo[i])
    /\ \A i \in DOMAIN flight : Before(flight[i]) /\ After(flight[i])
    /\ Older(point, doing) /\ After(point) /\ After(doing) /\ After(served)

\* The points that are written never go back in time, across lost connections
\* and restarts of the daemon (sendFix loads under the handler's order; ReadTPV
\* and onTPV take the reports in order; nothing outlives its connection).
PointsAdvance == [][point' # point => point' >= point /\ point' <= now]_streamVars

\* The longest gap between two TPVs of a connection that lives: other reports let
\* the read begin anew, and onTPV may write twice.
Gap == (MaxOthers + 1) * ReadTimeout + 2 * WriteTimeout

\* How long a position takes to onTPV: the TPVs ahead of it in flight may each take
\* a Gap, those in the socket only their writes.
Transit == FlightCap * Gap + FeedCap * 2 * WriteTimeout

\* A point is older than PositionFeed allows by at most the way here, and the status
\* write before it: a stalled network cannot bring a position that was withdrawn
\* long ago.
PointAge == pc = "geoWrite" => geoAt - point < MaxServedAge + Transit + WriteTimeout

\* A position that geolocd withdraws, or takes with it when it dies, is not for
\* longer than this what InfluxDB was last told: a TPV without it gets there past
\* the debounce, or the connection is found dead and reported lost.
LossTold ==
    told = "fix" /\ goneAt # Never /\ ~cancelled
      => now - goneAt < Transit + Later(MinInterval, 1) + Gap

=============================================================================
