---------------------------- MODULE PositionFeed ----------------------------
(***************************************************************************)
(* What geolocd promises the clients of its gpsd socket about the position *)
(* it serves, whatever the scanner, the modem and the provider do: the     *)
(* served position only ever changes to a fix resolved at that very        *)
(* instant, or to "no fix" once the served one is StaleAfter old; and a    *)
(* fix is no longer served when it is MaxServedAge old.                    *)
(***************************************************************************)
EXTENDS FixData

CONSTANTS StaleAfter, MaxServedAge, MaxTime

VARIABLES now, cur

feedVars == <<now, cur>>

FeedInit == now = 0 /\ cur = NoFix

Acquire == /\ cur' \in ResolvedFix
           /\ cur'.time = now
           /\ UNCHANGED now

Withdraw == /\ HasFix(cur)
            /\ now - cur.time >= StaleAfter
            /\ cur' = NoFix
            /\ UNCHANGED now

Pass == /\ now < MaxTime
        /\ now' = now + 1
        /\ HasFix(cur) => now' - cur.time < MaxServedAge
        /\ UNCHANGED cur

FeedNext == Acquire \/ Withdraw \/ Pass

FeedSpec == FeedInit /\ [][FeedNext]_feedVars
=============================================================================
