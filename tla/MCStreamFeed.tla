---------------------------- MODULE MCStreamFeed ----------------------------
(***************************************************************************)
(* StreamFeed for TLC.  Two states count as one if they differ only in     *)
(* what no action here and no property of the run looks at: statusAt,      *)
(* lostAt and the arrival times of reports (which are for properties of    *)
(* Uploader's own run), a deadline while nothing blocks, and geoAt when no *)
(* geo write is under way.                                                 *)
(***************************************************************************)
EXTENDS StreamFeed

View == <<now, cancelled, pc, IF pc \in Blocked THEN deadline ELSE 0,
          link, [i \in DOMAIN feed |-> feed[i].kind], others, tpv.kind, captured, fields,
          IF pc = "geoWrite" THEN geoAt ELSE Never, daemon, pipe, ledger>>
=============================================================================
