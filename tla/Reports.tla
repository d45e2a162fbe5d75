------------------------------ MODULE Reports ------------------------------
(***************************************************************************)
(* A position's way from the router to InfluxDB as data: geolocd makes a   *)
(* TPV of a fix (gpsd.TPVFromFix), geoinflux a fix of the TPV              *)
(* (gpsd.FixFromTPV) and two points of that (influx.FixLine, StatusLine).  *)
(* The TPV may also come from another gpsd, with any of its fields.        *)
(*                                                                         *)
(* Time is counted in fractions of a millisecond, because TPVs carry       *)
(* milliseconds and fixes do not; 0 is Go's zero time. A cell stands for   *)
(* radio, MCC, MNC, CID and TAC, which are always copied together. Of the  *)
(* error radii, which are copied like the coordinates, none is kept, and   *)
(* of the JSON and line protocol texts which fields they have.             *)
(***************************************************************************)
EXTENDS Integers

CONSTANTS
    Instants,    \* the times a fix or a TPV may have
    Clock,       \* the readings of geoinflux's clock
    TicksPerMs,  \* clock units in a millisecond
    Coords,      \* latitudes and longitudes
    Cells,       \* cells with their identifiers
    NoCell,      \* zero identifiers
    Radioless,   \* those cells whose radio is ""
    MaxAPs,      \* bound on the number of access points
    Nil,         \* a JSON field that is absent
    Bad          \* a time that does not parse

ASSUME ReportsAssumption ==
    /\ TicksPerMs \in Nat \ {0} /\ MaxAPs \in Nat
    /\ \A t \in Instants : t \in Nat /\ t >= TicksPerMs /\ t - (t % TicksPerMs) \in Instants
    /\ Clock \subseteq Nat
    /\ Coords \subseteq Int /\ 0 \in Coords
    /\ NoCell \notin Cells /\ Radioless \subseteq Cells
    /\ Nil \notin Nat \cup Int \cup Cells \cup {NoCell, Bad}
    /\ Bad \notin Nat

Zero == 0
Fix == [Mode : 0..3, Time : Instants \cup {Zero}, Lat : Coords, Lon : Coords,
        Source : {"", "wifi", "cell"}, Cell : Cells \cup {NoCell}, APCount : 0..MaxAPs]

TPV == [Mode : 0..3, Time : Instants \cup {Zero, Nil, Bad},
        Lat : Coords \cup {Nil}, Lon : Coords \cup {Nil},
        CellFix : Cells \cup {NoCell, Nil}, WifiFix : 0..MaxAPs \cup {Nil}]

NoFix == [Mode |-> 0, Time |-> Zero, Lat |-> 0, Lon |-> 0, Source |-> "",
          Cell |-> NoCell, APCount |-> 0]

\* What geolocd serves: no fix, or one that Source.resolve built.
Served == {NoFix} \cup {f \in Fix : /\ f.Mode = 2 /\ f.Time # Zero
                                    /\ \/ f.Source = "wifi" /\ f.Cell = NoCell
                                       \/ f.Source = "cell" /\ f.Cell # NoCell /\ f.APCount = 0}

HasFix(f) == f.Mode >= 2

VARIABLES
    pc,      \* "idle", "sent" (a TPV is on its way) or "written"
    fix,     \* the fix that geolocd serves, or Nil: another gpsd sent the TPV
    tpv,     \* the TPV
    now,     \* geoinflux's clock when the TPV arrives
    got,     \* FixFromTPV's fix
    point,   \* the geo point as a set, empty if there is none
    status   \* the geo_status point

vars == <<pc, fix, tpv, now, got, point, status>>

-----------------------------------------------------------------------------

\* Time.Format(timeFormat) cuts off what is below a millisecond. Mutant: whole
\* seconds, as in RFC 3339.
FormatSeconds(t) == t - (t % (1000 * TicksPerMs))

Format(t) == t - (t % TicksPerMs)

\* A fix without a position carries nothing but its mode.
TPVFromFix(f) ==
    LET has == HasFix(f)
        wifi == has /\ f.Source = "wifi"
        cell == has /\ ~wifi /\ (f.Source = "cell" \/ f.Cell # NoCell)
    IN  [Mode    |-> f.Mode,
         Time    |-> IF has THEN Format(f.Time) ELSE Nil,
         Lat     |-> IF has THEN f.Lat ELSE Nil,
         Lon     |-> IF has THEN f.Lon ELSE Nil,
         WifiFix |-> IF wifi THEN f.APCount ELSE Nil,
         CellFix |-> IF cell THEN f.Cell ELSE Nil]

\* The value behind an optional field.
Deref(p, zero) == IF p = Nil THEN zero ELSE p

\* A position needs both coordinates. Mutant: the sender's mode is believed.
SentMode(t) == t.Mode

ModeOf(t) == IF t.Mode >= 2 /\ (t.Lat = Nil \/ t.Lon = Nil) THEN 0 ELSE t.Mode

\* The extension tells the source.
SourceOf(t) == IF t.WifiFix # Nil THEN "wifi" ELSE IF t.CellFix # Nil THEN "cell" ELSE ""

FixFromTPV(t) ==
    [Mode |-> ModeOf(t), Time |-> IF t.Time = Bad THEN Zero ELSE Deref(t.Time, Zero),
     Lat |-> Deref(t.Lat, 0), Lon |-> Deref(t.Lon, 0), Source |-> SourceOf(t),
     Cell |-> Deref(t.CellFix, NoCell), APCount |-> Deref(t.WifiFix, 0)]

\* A point's timestamp; InfluxDB takes its own time for a point without one.
timestamp(t) == IF t = Zero THEN Nil ELSE t

\* An empty tag is left out. Mutant: it is not.
anyTag(cell) == cell

radioTag(cell) == IF cell \in Radioless \cup {NoCell} THEN Nil ELSE cell

\* Only celloc's fixes have a geo line. Mutant: only those from access points.
FromWifi(f) == f.Source = "wifi"

Attributed(f) == f.Source \in {"wifi", "cell"}

FixLine(f) ==
    IF ~Attributed(f) THEN {}
    ELSE {[source |-> f.Source, lat |-> f.Lat, lon |-> f.Lon, time |-> timestamp(f.Time),
           radio  |-> IF f.Source = "cell" THEN radioTag(f.Cell) ELSE Nil,
           fields |-> IF f.Source = "cell" THEN f.Cell ELSE f.APCount]}

\* fix_age_s in clock units: math.Round to a millisecond, halves away from zero.
\* It is -1, here Nil, for a fix without a time. Mutant: the zero time is an
\* instant like any other.
Round(d) ==
    LET up(n) == ((2 * n + TicksPerMs) \div (2 * TicksPerMs)) * TicksPerMs
    IN  IF d >= 0 THEN up(d) ELSE -up(-d)

AgeOfAny(f, n) == Round(n - f.Time)

Age(f, n) == IF f.Time = Zero THEN Nil ELSE Round(n - f.Time)

StatusLine(f, n) == [mode |-> f.Mode, fix_age |-> Age(f, n), time |-> timestamp(n)]

-----------------------------------------------------------------------------

Init ==
    /\ pc = "idle" /\ fix = NoFix /\ tpv = TPVFromFix(NoFix) /\ now = 0
    /\ got = NoFix /\ point = {} /\ status = Nil

\* A TPV arrives.
Arrive(f, t) ==
    /\ pc = "idle" /\ pc' = "sent"
    /\ fix' = f /\ tpv' = t
    /\ UNCHANGED <<now, got, point, status>>

\* geolocd's sendFix.
SendFix == \E f \in Served : Arrive(f, TPVFromFix(f))

\* Another gpsd, external: a TPV with any fields.
OtherSends == \E t \in TPV : Arrive(Nil, t)

\* onTPV, as if both points were due: Uploader has when they are.
OnTPV(n) ==
    /\ pc = "sent" /\ pc' = "written"
    /\ now' = n
    /\ got' = FixFromTPV(tpv)
    /\ status' = StatusLine(got', n)
    /\ point' = IF HasFix(got') THEN FixLine(got') ELSE {}
    /\ UNCHANGED <<fix, tpv>>

Next ==
    \/ SendFix
    \/ OtherSends
    \/ \E n \in Clock : OnTPV(n)

Spec == Init /\ [][Next]_vars

-----------------------------------------------------------------------------

Point == [source : {"wifi", "cell"}, lat : Coords, lon : Coords,
          time : (Instants \ {Zero}) \cup {Nil}, radio : (Cells \ Radioless) \cup {Nil},
          fields : Cells \cup {NoCell} \cup 0..MaxAPs]

\* Types. Whatever a TPV lacks, the fix made of it has all its fields, and a point
\* no empty tag.
TypeOK ==
    /\ pc \in {"idle", "sent", "written"}
    /\ fix \in Served \cup {Nil} /\ tpv \in TPV /\ got \in Fix
    /\ point \subseteq Point
    /\ status # Nil => status.time \in Clock \cup {Nil}

\* What geoinflux reads is what geolocd served, but for the fraction of a
\* millisecond: FixFromTPV is "the inverse of TPVFromFix", report.go:131.
RoundTrip ==
    pc = "written" /\ fix # Nil =>
      got = [fix EXCEPT !.Time = @ - (@ % TicksPerMs)]

\* No point is invented: whoever sent the TPV, a point has the two coordinates
\* the TPV has, is attributed to the extension the TPV has, and is dated as the
\* TPV is, or not at all.
PointHonest ==
    pc = "written" =>
      \A p \in point :
        /\ tpv.Mode >= 2
        /\ p.lat = tpv.Lat /\ p.lon = tpv.Lon
        /\ p.fields = IF p.source = "wifi" THEN tpv.WifiFix ELSE tpv.CellFix
        /\ p.time \in {tpv.Time, Nil}

\* No position is lost on the way: a fix that geolocd serves becomes a point with
\* its source, identifiers and time, and no fix becomes none.
PointWritten ==
    pc = "written" /\ fix # Nil =>
      IF HasFix(fix)
        THEN \E p \in point :
               /\ p.source = fix.Source
               /\ p.fields = IF fix.Source = "wifi" THEN fix.APCount ELSE fix.Cell
               /\ fix.Time - p.time \in 0..TicksPerMs - 1
        ELSE point = {}

\* The age that InfluxDB is told differs from the served fix's by less than one
\* and a half milliseconds, and a position without a time has none.
AgeTrue ==
    pc = "written" /\ fix # Nil =>
      IF HasFix(fix)
        THEN 2 * (status.fix_age - (now - fix.Time)) \in -TicksPerMs..3 * TicksPerMs
        ELSE status.fix_age = Nil

=============================================================================
