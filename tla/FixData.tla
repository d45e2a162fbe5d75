------------------------------ MODULE FixData ------------------------------
(***************************************************************************)
(* The position estimate that every part of celloc hands on: source.Fix.   *)
(* Coordinates and error radii are carried along unchanged and are left    *)
(* out; a fix is told apart by the instant it was resolved, by the signal  *)
(* that dominated it and by the number of access points or the cell that   *)
(* its TPV extension names.  Time is a natural number of clock units and   *)
(* Never is Go's zero time.Time.                                           *)
(***************************************************************************)
EXTENDS Integers

CONSTANTS Cells,    \* the serving cells a modem can report
          NoCell    \* "no serving cell" (a nil *geoloc.CellTower)

ASSUME NoCellAssumption == NoCell \notin Cells

Never == -1

NoFix == [mode |-> 0, time |-> Never, source |-> "", aps |-> 0, cell |-> NoCell]

\* Fixes as wifi.Source.resolve builds them.
ResolvedFix == [mode : {2}, time : Nat, source : {"wifi", "cell"},
                aps : Nat, cell : Cells \cup {NoCell}]

Fix == ResolvedFix \cup {NoFix}

HasFix(f) == f.mode >= 2
=============================================================================
