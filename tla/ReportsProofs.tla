--------------------------- MODULE ReportsProofs ---------------------------
(***************************************************************************)
(* Theorems about Reports: what they say of one TPV holds for any times,   *)
(* coordinates, cells and numbers of access points.                        *)
(***************************************************************************)
EXTENDS Reports, TLAPS

USE ReportsAssumption

\* The TPV is that of the fix, if geolocd sent it, and what was written is made
\* of the TPV.
SentInv == fix # Nil => fix \in Served /\ tpv = TPVFromFix(fix)

WrittenInv ==
    pc = "written" =>
      /\ now \in Clock
      /\ got = FixFromTPV(tpv)
      /\ status = StatusLine(got, now)
      /\ point = IF HasFix(got) THEN FixLine(got) ELSE {}

IInv == SentInv /\ WrittenInv

\* Cutting off the fraction of a millisecond gives a time that is not zero.
LEMMA FormatBound ==
    ASSUME NEW t \in Instants
    PROVE  /\ t \in Nat /\ Format(t) \in Nat /\ Format(t) # Zero /\ Format(t) # Nil
           /\ Format(t) # Bad /\ t - Format(t) \in 0..TicksPerMs - 1
  <1>1. t % TicksPerMs \in 0..TicksPerMs - 1 /\ t >= TicksPerMs /\ t \in Nat
    OBVIOUS
  <1> QED BY <1>1 DEF Format, Zero

\* Rounding to a millisecond is off by at most half of one.
LEMMA Quotient ==
    ASSUME NEW k \in Nat \ {0}, NEW n \in Nat
    PROVE  (n \div k) \in Nat /\ (n \div k) * k <= n /\ n < (n \div k) * k + k
  OBVIOUS

LEMMA RoundBound ==
    ASSUME NEW d \in Int
    PROVE  Round(d) \in Int /\ 2 * (Round(d) - d) \in -TicksPerMs..TicksPerMs
  <1> DEFINE up(n) == ((2 * n + TicksPerMs) \div (2 * TicksPerMs)) * TicksPerMs
  <1>1. ASSUME NEW n \in Nat
        PROVE  up(n) \in Int /\ 2 * (up(n) - n) \in -TicksPerMs..TicksPerMs
    <2> DEFINE q == (2 * n + TicksPerMs) \div (2 * TicksPerMs)
    <2>1. 2 * n + TicksPerMs \in Nat /\ 2 * TicksPerMs \in Nat \ {0}
      OBVIOUS
    <2>2. /\ q \in Nat /\ q * (2 * TicksPerMs) <= 2 * n + TicksPerMs
          /\ 2 * n + TicksPerMs < q * (2 * TicksPerMs) + 2 * TicksPerMs
      BY <2>1, Quotient
    <2> HIDE DEF q
    <2>3. q * TicksPerMs \in Int /\ q * (2 * TicksPerMs) = 2 * (q * TicksPerMs)
      BY <2>2
    <2>4. up(n) = q * TicksPerMs
      BY DEF q
    <2> HIDE DEF up
    <2> QED BY <2>2, <2>3, <2>4
  <1>2. Round(d) = IF d >= 0 THEN up(d) ELSE -up(-d)
    BY DEF Round
  <1> HIDE DEF up
  <1>3. CASE d >= 0
    BY <1>1, <1>2, <1>3
  <1>4. CASE d < 0
    <2>1. -d \in Nat
      BY <1>4
    <2>2. up(-d) \in Int /\ 2 * (up(-d) + d) \in -TicksPerMs..TicksPerMs
      BY <1>1, <2>1
    <2> QED BY <1>2, <1>4, <2>2
  <1> QED BY <1>3, <1>4

\* What a fix of geolocd is after it went through a TPV.
LEMMA Inverse ==
    ASSUME NEW f \in Served
    PROVE  FixFromTPV(TPVFromFix(f)) = [f EXCEPT !.Time = @ - (@ % TicksPerMs)]
  <1>1. CASE f = NoFix
    <2>1. 0 % TicksPerMs = 0
      OBVIOUS
    <2>2. TPVFromFix(NoFix) = [Mode |-> 0, Time |-> Nil, Lat |-> Nil, Lon |-> Nil,
                               WifiFix |-> Nil, CellFix |-> Nil]
      BY DEF NoFix, TPVFromFix, HasFix
    <2>3. Nil # Bad
      OBVIOUS
    <2>4. FixFromTPV(TPVFromFix(NoFix)) = NoFix
      <3> DEFINE t == TPVFromFix(NoFix)
      <3>1. /\ t.Mode = 0 /\ t.Time = Nil /\ t.Lat = Nil /\ t.Lon = Nil
            /\ t.WifiFix = Nil /\ t.CellFix = Nil
        BY <2>2
      <3> HIDE DEF t
      <3>2. ModeOf(t) = 0
        BY <3>1 DEF ModeOf
      <3>3. SourceOf(t) = ""
        BY <3>1 DEF SourceOf
      <3>4. /\ t.Time # Bad
            /\ Deref(t.Time, Zero) = 0 /\ Deref(t.Lat, 0) = 0 /\ Deref(t.Lon, 0) = 0
            /\ Deref(t.CellFix, NoCell) = NoCell /\ Deref(t.WifiFix, 0) = 0
        BY <2>3, <3>1 DEF Deref, Zero
      <3> QED BY <3>2, <3>3, <3>4 DEF FixFromTPV, NoFix, Zero, t
    <2>5. NoFix = [NoFix EXCEPT !.Time = @ - (@ % TicksPerMs)]
      <3>1. NoFix.Time - (NoFix.Time % TicksPerMs) = NoFix.Time
        BY <2>1 DEF NoFix, Zero
      <3> QED BY <3>1 DEF NoFix
    <2> QED BY <1>1, <2>4, <2>5
  <1>2. CASE f # NoFix
    <2>1. /\ f \in Fix /\ f.Mode = 2 /\ f.Time # Zero
          /\ \/ f.Source = "wifi" /\ f.Cell = NoCell
             \/ f.Source = "cell" /\ f.Cell # NoCell /\ f.APCount = 0
      BY <1>2 DEF Served
    <2>2. /\ f.Time \in Instants /\ f.Lat \in Coords /\ f.Lon \in Coords
          /\ f.Lat # Nil /\ f.Lon # Nil
          /\ f.APCount \in 0..MaxAPs /\ f.APCount # Nil
          /\ f.Cell \in Cells \cup {NoCell} /\ f.Cell # Nil
      <3>1. /\ f.Time \in Instants \cup {Zero} /\ f.Lat \in Coords /\ f.Lon \in Coords
            /\ f.APCount \in 0..MaxAPs /\ f.Cell \in Cells \cup {NoCell}
        BY <2>1 DEF Fix
      <3>2. f.Lat \in Int /\ f.Lon \in Int /\ f.APCount \in Int
        <4>1. Coords \subseteq Int /\ MaxAPs \in Nat
          OBVIOUS
        <4>2. \A n \in 0..MaxAPs : n \in Int
          OBVIOUS
        <4> QED BY ONLY <3>1, <4>1, <4>2
      <3>3. \A x \in Int \cup Cells \cup {NoCell} : x # Nil
        OBVIOUS
      <3> QED BY <2>1, <3>1, <3>2, <3>3
    <2>3. Format(f.Time) # Nil /\ Format(f.Time) # Bad
      BY <2>2, FormatBound
    <2>4. f = [Mode |-> 2, Time |-> f.Time, Lat |-> f.Lat, Lon |-> f.Lon,
               Source |-> f.Source, Cell |-> f.Cell, APCount |-> f.APCount]
      BY <2>1 DEF Fix
    <2>5. CASE f.Source = "wifi"
      <3>1. TPVFromFix(f) = [Mode |-> 2, Time |-> Format(f.Time), Lat |-> f.Lat,
                             Lon |-> f.Lon, WifiFix |-> f.APCount, CellFix |-> Nil]
        BY <2>1, <2>5 DEF TPVFromFix, HasFix
      <3>2. FixFromTPV(TPVFromFix(f)) =
              [Mode |-> 2, Time |-> Format(f.Time), Lat |-> f.Lat, Lon |-> f.Lon,
               Source |-> "wifi", Cell |-> NoCell, APCount |-> f.APCount]
        BY <2>2, <2>3, <3>1 DEF FixFromTPV, ModeOf, SourceOf, Deref
      <3> QED BY ONLY <2>1, <2>4, <2>5, <3>2 DEF Format
    <2>6. CASE f.Source = "cell"
      <3>1. TPVFromFix(f) = [Mode |-> 2, Time |-> Format(f.Time), Lat |-> f.Lat,
                             Lon |-> f.Lon, WifiFix |-> Nil, CellFix |-> f.Cell]
        BY <2>1, <2>6 DEF TPVFromFix, HasFix
      <3>2. FixFromTPV(TPVFromFix(f)) =
              [Mode |-> 2, Time |-> Format(f.Time), Lat |-> f.Lat, Lon |-> f.Lon,
               Source |-> "cell", Cell |-> f.Cell, APCount |-> 0]
        BY <2>2, <2>3, <3>1 DEF FixFromTPV, ModeOf, SourceOf, Deref
      <3> QED BY ONLY <2>1, <2>4, <2>6, <3>2 DEF Format
    <2> QED BY <2>1, <2>5, <2>6
  <1> QED BY <1>1, <1>2

LEMMA Invariance == Spec => []IInv
  <1>1. Init => IInv
    BY DEF Init, IInv, SentInv, WrittenInv, Served
  <1>2. IInv /\ [Next]_vars => IInv'
    <2> SUFFICES ASSUME IInv, [Next]_vars PROVE IInv'
      OBVIOUS
    <2> USE DEF IInv, SentInv, WrittenInv
    <2>1. CASE SendFix
      BY <2>1 DEF SendFix, Arrive
    <2>2. CASE OtherSends
      BY <2>2 DEF OtherSends, Arrive
    <2>3. ASSUME NEW n \in Clock, OnTPV(n) PROVE IInv'
      BY <2>3 DEF OnTPV
    <2>4. CASE UNCHANGED vars
      BY <2>4 DEF vars
    <2> QED BY <2>1, <2>2, <2>3, <2>4 DEF Next
  <1> QED BY <1>1, <1>2, PTL DEF Spec

\* FixFromTPV inverts TPVFromFix on every fix that geolocd serves.
THEOREM TripRound == Spec => []RoundTrip
  <1>1. IInv => RoundTrip
    BY Inverse DEF IInv, SentInv, WrittenInv, RoundTrip
  <1> QED BY <1>1, Invariance, PTL

\* Whatever TPV arrives, no point is made of what it does not say.
THEOREM Honesty == Spec => []PointHonest
  <1>1. IInv => PointHonest
    <2> SUFFICES ASSUME IInv, pc = "written", NEW p \in point
                 PROVE  /\ tpv.Mode >= 2
                        /\ p.lat = tpv.Lat /\ p.lon = tpv.Lon
                        /\ p.fields = IF p.source = "wifi" THEN tpv.WifiFix ELSE tpv.CellFix
                        /\ p.time \in {tpv.Time, Nil}
      BY DEF PointHonest
    <2>1. got = FixFromTPV(tpv) /\ HasFix(got) /\ p \in FixLine(got) /\ Attributed(got)
      BY DEF IInv, WrittenInv, FixLine
    <2>2. tpv.Mode >= 2 /\ tpv.Lat # Nil /\ tpv.Lon # Nil
      BY <2>1 DEF HasFix, FixFromTPV, ModeOf
    <2>3. p.lat = tpv.Lat /\ p.lon = tpv.Lon
      BY <2>1, <2>2 DEF FixFromTPV, FixLine, Deref
    <2>4. /\ p.source = SourceOf(tpv) /\ got.Source = SourceOf(tpv)
          /\ got.Cell = Deref(tpv.CellFix, NoCell) /\ got.APCount = Deref(tpv.WifiFix, 0)
      BY <2>1 DEF FixFromTPV, FixLine
    <2>5. p.fields = IF p.source = "wifi" THEN tpv.WifiFix ELSE tpv.CellFix
      <3>1. p.fields = IF got.Source = "cell" THEN got.Cell ELSE got.APCount
        BY <2>1 DEF FixLine
      <3>2. CASE got.Source = "wifi"
        BY <2>4, <3>1, <3>2 DEF SourceOf, Deref
      <3>3. CASE got.Source = "cell"
        BY <2>4, <3>1, <3>3 DEF SourceOf, Deref
      <3> QED BY <2>1, <3>2, <3>3 DEF Attributed
    <2>6. p.time = timestamp(got.Time) /\ got.Time \in {Zero, tpv.Time}
      BY <2>1 DEF FixFromTPV, FixLine, Deref
    <2>7. p.time \in {tpv.Time, Nil}
      BY <2>6 DEF timestamp
    <2> QED BY <2>2, <2>3, <2>5, <2>7
  <1> QED BY <1>1, Invariance, PTL

\* Every fix that geolocd serves becomes a point with its source and time.
THEOREM NothingLost == Spec => []PointWritten
  <1>1. IInv => PointWritten
    <2> SUFFICES ASSUME IInv, pc = "written", fix # Nil
                 PROVE  PointWritten
      BY DEF PointWritten
    <2>1. /\ fix \in Served /\ got = [fix EXCEPT !.Time = Format(fix.Time)]
          /\ point = IF HasFix(got) THEN FixLine(got) ELSE {}
      BY Inverse DEF IInv, SentInv, WrittenInv, Format
    <2>2. CASE fix = NoFix
      <3>1. fix.Mode = 0 /\ got.Mode = 0
        BY <2>1, <2>2 DEF NoFix
      <3>2. ~HasFix(fix) /\ ~HasFix(got)
        BY <3>1 DEF HasFix
      <3> QED BY <2>1, <3>2 DEF PointWritten
    <2>3. CASE fix # NoFix
      <3>1. /\ fix \in Fix /\ fix.Mode = 2 /\ fix.Time # Zero
            /\ fix.Source \in {"wifi", "cell"}
        BY <2>1, <2>3 DEF Served
      <3>2. fix.Time \in Instants
        BY <3>1 DEF Fix
      <3>3. /\ got.Mode = 2 /\ got.Source = fix.Source /\ got.Cell = fix.Cell
            /\ got.APCount = fix.APCount /\ got.Time = Format(fix.Time)
        BY <2>1, <3>1 DEF Fix
      <3>4. HasFix(fix) /\ HasFix(got)
        BY <3>1, <3>3 DEF HasFix
      <3>5. PICK p \in point : /\ p.source = fix.Source
                               /\ p.time = timestamp(Format(fix.Time))
                               /\ p.fields = IF fix.Source = "cell" THEN fix.Cell ELSE fix.APCount
        BY <2>1, <3>1, <3>3, <3>4 DEF FixLine, Attributed
      <3>6. fix.Time - p.time \in 0..TicksPerMs - 1
        BY <3>2, <3>5, FormatBound DEF timestamp
      <3>7. p.fields = IF fix.Source = "wifi" THEN fix.APCount ELSE fix.Cell
        BY <3>1, <3>5
      <3>8. \E q \in point :
              /\ q.source = fix.Source
              /\ q.fields = IF fix.Source = "wifi" THEN fix.APCount ELSE fix.Cell
              /\ fix.Time - q.time \in 0..TicksPerMs - 1
        BY <3>5, <3>6, <3>7
      <3> QED BY <3>4, <3>8 DEF PointWritten
    <2> QED BY <2>2, <2>3
  <1> QED BY <1>1, Invariance, PTL

\* The age written is that of the fix served, up to one and a half milliseconds.
THEOREM AgesTold == Spec => []AgeTrue
  <1>1. IInv => AgeTrue
    <2> SUFFICES ASSUME IInv, pc = "written", fix # Nil
                 PROVE  AgeTrue
      BY DEF AgeTrue
    <2>1. /\ fix \in Served /\ got = [fix EXCEPT !.Time = Format(fix.Time)]
          /\ status = StatusLine(got, now) /\ now \in Clock
      BY Inverse DEF IInv, SentInv, WrittenInv, Format
    <2>2. CASE fix = NoFix
      <3>1. 0 % TicksPerMs = 0
        OBVIOUS
      <3>2. fix.Mode = 0 /\ fix.Time = Zero
        BY <2>2 DEF NoFix
      <3>3. got.Time = Zero
        <4>1. Format(fix.Time) = Zero
          BY <3>1, <3>2 DEF Format, Zero
        <4> QED BY <2>1, <2>2, <4>1 DEF NoFix
      <3>4. ~HasFix(fix)
        BY <3>2 DEF HasFix
      <3>5. status.fix_age = Nil
        BY <2>1, <3>3 DEF StatusLine, Age
      <3> QED BY <3>4, <3>5 DEF AgeTrue
    <2>3. CASE fix # NoFix
      <3>1. fix \in Fix /\ fix.Mode = 2 /\ fix.Time # Zero
        BY <2>1, <2>3 DEF Served
      <3>2. fix.Time \in Instants
        BY <3>1 DEF Fix
      <3>3. got.Time = Format(fix.Time) /\ HasFix(fix)
        <4>1. got.Time = Format(fix.Time)
          BY <2>1, <3>1 DEF Fix
        <4> QED BY <3>1, <4>1 DEF HasFix
      <3>4. /\ fix.Time \in Nat /\ got.Time \in Nat /\ got.Time # Zero /\ now \in Nat
            /\ fix.Time - got.Time \in 0..TicksPerMs - 1
        BY <2>1, <3>2, <3>3, FormatBound
      <3>5. status.fix_age = Round(now - got.Time)
        BY <2>1, <3>4 DEF StatusLine, Age
      <3>6. /\ status.fix_age \in Int
            /\ 2 * (status.fix_age - (now - got.Time)) \in -TicksPerMs..TicksPerMs
        BY <3>4, <3>5, RoundBound
      <3>7. 2 * (status.fix_age - (now - fix.Time)) \in -TicksPerMs..3 * TicksPerMs
        BY <3>4, <3>6
      <3> QED BY <3>3, <3>7 DEF AgeTrue
    <2> QED BY <2>2, <2>3
  <1> QED BY <1>1, Invariance, PTL
-----------------------------------------------------------------------------
\* Every fix geolocd serves has a TPV, and every TPV a fix with all its fields.
LEMMA TPVTypes ==
    ASSUME NEW f \in Served
    PROVE  TPVFromFix(f) \in TPV /\ f \in Fix
  <1>1. f \in Fix
    <2>1. NoFix \in Fix
      BY DEF NoFix, Fix, Zero
    <2> QED BY <2>1 DEF Served
  <1>2. HasFix(f) => f.Time \in Instants
    <2>1. CASE f = NoFix
      <3>1. f.Mode = 0
        BY <2>1 DEF NoFix
      <3> QED BY <3>1 DEF HasFix
    <2>2. CASE f # NoFix
      <3>1. f.Time # Zero /\ f.Time \in Instants \cup {Zero}
        BY <1>1, <2>2 DEF Served, Fix
      <3> QED BY <3>1
    <2> QED BY <2>1, <2>2
  <1>3. HasFix(f) => Format(f.Time) \in Instants
    BY <1>2 DEF Format
  <1>4. /\ f.Mode \in 0..3 /\ f.Lat \in Coords /\ f.Lon \in Coords
        /\ f.APCount \in 0..MaxAPs /\ f.Cell \in Cells \cup {NoCell}
    BY <1>1 DEF Fix
  <1> QED BY <1>1, <1>3, <1>4 DEF TPVFromFix, TPV

LEMMA FixTypes ==
    ASSUME NEW t \in TPV
    PROVE  FixFromTPV(t) \in Fix
  <1>1. /\ t.Mode \in 0..3 /\ t.Time \in Instants \cup {Zero, Nil, Bad}
        /\ t.Lat \in Coords \cup {Nil} /\ t.Lon \in Coords \cup {Nil}
        /\ t.CellFix \in Cells \cup {NoCell, Nil} /\ t.WifiFix \in 0..MaxAPs \cup {Nil}
    BY DEF TPV
  <1>2. ModeOf(t) \in 0..3 /\ SourceOf(t) \in {"", "wifi", "cell"}
    BY <1>1 DEF ModeOf, SourceOf
  <1>3. /\ (IF t.Time = Bad THEN Zero ELSE Deref(t.Time, Zero)) \in Instants \cup {Zero}
        /\ Deref(t.Lat, 0) \in Coords /\ Deref(t.Lon, 0) \in Coords
    BY <1>1 DEF Deref
  <1>4. Deref(t.CellFix, NoCell) \in Cells \cup {NoCell} /\ Deref(t.WifiFix, 0) \in 0..MaxAPs
    BY <1>1 DEF Deref
  <1> QED BY <1>2, <1>3, <1>4 DEF FixFromTPV, Fix

\* A fix's geo line has every field, and no empty tag.
LEMMA PointTypes ==
    ASSUME NEW f \in Fix
    PROVE  FixLine(f) \subseteq Point
  <1>1. /\ f.Lat \in Coords /\ f.Lon \in Coords /\ f.Time \in Instants \cup {Zero}
        /\ f.Cell \in Cells \cup {NoCell} /\ f.APCount \in 0..MaxAPs
    BY DEF Fix
  <1>2. timestamp(f.Time) \in (Instants \ {Zero}) \cup {Nil}
    BY <1>1 DEF timestamp
  <1>3. radioTag(f.Cell) \in (Cells \ Radioless) \cup {Nil}
    BY <1>1 DEF radioTag
  <1> QED BY <1>1, <1>2, <1>3 DEF FixLine, Attributed, Point

\* Every fix and TPV on the way is complete, and every point has all its fields.
THEOREM ReportTypes == Spec => []TypeOK
  <1>1. Init => TypeOK
    <2>1. NoFix \in Served
      BY DEF Served
    <2>2. TPVFromFix(NoFix) \in TPV /\ NoFix \in Fix
      BY <2>1, TPVTypes
    <2> QED BY <2>1, <2>2 DEF Init, TypeOK
  <1>2. TypeOK /\ [Next]_vars => TypeOK'
    <2> SUFFICES ASSUME TypeOK, [Next]_vars PROVE TypeOK'
      OBVIOUS
    <2>1. CASE SendFix
      <3>1. PICK f \in Served : Arrive(f, TPVFromFix(f))
        BY <2>1 DEF SendFix
      <3>2. TPVFromFix(f) \in TPV
        BY TPVTypes
      <3> QED BY <3>1, <3>2 DEF Arrive, TypeOK
    <2>2. CASE OtherSends
      BY <2>2 DEF OtherSends, Arrive, TypeOK
    <2>3. ASSUME NEW n \in Clock, OnTPV(n) PROVE TypeOK'
      <3>1. got' \in Fix /\ got' = FixFromTPV(tpv)
        BY <2>3, FixTypes DEF OnTPV, TypeOK
      <3>2. point' \subseteq Point
        BY <2>3, <3>1, PointTypes DEF OnTPV
      <3>3. status'.time \in Clock \cup {Nil}
        BY <2>3 DEF OnTPV, StatusLine, timestamp
      <3> QED BY <2>3, <3>1, <3>2, <3>3 DEF OnTPV, TypeOK
    <2>4. CASE UNCHANGED vars
      BY <2>4 DEF vars, TypeOK
    <2> QED BY <2>1, <2>2, <2>3, <2>4 DEF Next
  <1> QED BY <1>1, <1>2, PTL DEF Spec
=============================================================================
