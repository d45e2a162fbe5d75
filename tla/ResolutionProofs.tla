-------------------------- MODULE ResolutionProofs --------------------------
(***************************************************************************)
(* Theorems about ServingCell and Resolution, for replies of any number of *)
(* lines and any access points.                                            *)
(***************************************************************************)
EXTENDS Resolution, FiniteSetTheorems, WellFoundedInduction, TLAPS

\* The technologies whose cells have identifiers.
Standard == {RadioLTE, RadioNR5GSA}

\* A tower of one line, under the names that the modem gives its fields.
OneLine(t, n) ==
  /\ t.Radio \in Standard
  /\ t.MCC = [of |-> "MCC", line |-> n] /\ t.MNC = [of |-> "MNC", line |-> n]
  /\ t.CID = [of |-> "CID", line |-> n] /\ t.TAC = [of |-> "TAC", line |-> n]
  /\ t.Signal \in {Absent, [of |-> "RSRP", line |-> n]}
  /\ t = [Radio |-> t.Radio, MCC |-> t.MCC, MNC |-> t.MNC, CID |-> t.CID, TAC |-> t.TAC,
          Signal |-> t.Signal]

\* The first cell of a technology that can be located is the first tower described.
Match ==
  \A r \in Standard :
    LET usable == Usable(cells, r)
        described == DescribedAs(r)
    IN  /\ usable = {} <=> described = {}
        /\ usable # {} => Tower(cells[Min(usable)]) = said[Min(described)]

CellInv ==
  /\ lines \in Nat
  /\ pc = "run" => content = "other" /\ cells = <<>> /\ said = <<>>
  /\ content \in Contents
  /\ content # "plain" => cells = <<>>
  /\ content = "plain" => /\ \E T : cells \in Seq(T)
                          /\ \E T : said \in Seq(T)
                          /\ \A i \in DOMAIN said : \E n \in Nat : OneLine(said[i], n)
                          /\ Match
  /\ pc # "done" => tower = NoTower
  /\ AnchorRight

\* What a client asks, of what was scanned and read.
Asked ==
  LET aps == IF HaveAPs THEN scan.aps ELSE {}
  IN  IF provider = "google" THEN GoogleRequest(aps) ELSE UnwiredRequest(aps)

\* What becomes of an answer whose location is this, and otherwise of its failure.
Outcome(location, class) ==
  /\ fix = {FixOf(loc) : loc \in location}
  /\ location = {} => failure = class

ResolutionInv ==
  /\ CellInv
  /\ provider \in {"google", "unwiredlabs"}
  /\ scan.aps \in SUBSET APs
  /\ \/ step \in {"scan", "cell"} /\ request = Unsent /\ answer = Unanswered /\ fix = {}
     \/ step = "end" /\ request = Unsent /\ answer = Unanswered /\ fix = {}
     \/ /\ step \in {"sent", "end"} /\ request = Asked /\ pc = "done"
        /\ HaveAPs \/ tower # NoTower
        /\ \/ answer = Unanswered /\ fix = {}
           \/ /\ step = "end" /\ provider = "google" /\ answer \in GoogleAnswer
              /\ Outcome(GoogleLocation(answer), GoogleFailure(answer))
           \/ /\ step = "end" /\ provider = "unwiredlabs" /\ answer \in UnwiredAnswer
              /\ Outcome(UnwiredLocation(answer), UnwiredFailure(answer))
-----------------------------------------------------------------------------
(* Min of FiniteSetsExt, for natural numbers. *)
LEMMA MinIn ==
  ASSUME NEW S \in SUBSET Nat, S # {}
  PROVE  Min(S) \in S /\ \A x \in S : Min(S) <= x
<1>1. PICK m \in S : \A x \in S : ~(<<x, m>> \in OpToRel(<, Nat))
  BY WFMin, NatLessThanWellFounded
<1>2. \A x \in S : m <= x
  <2>1. ASSUME NEW x \in S PROVE m <= x
    <3>1. x \in Nat /\ m \in Nat
      OBVIOUS
    <3>2. ~(x < m)
      BY <1>1, <3>1 DEF OpToRel
    <3>. QED
      BY <3>1, <3>2
  <2>. QED
    BY <2>1
<1>. QED
  BY <1>2 DEF Min

LEMMA MinIs ==
  ASSUME NEW S \in SUBSET Nat, NEW m \in S, \A x \in S : m <= x
  PROVE  Min(S) = m
<1>1. Min(S) \in S /\ Min(S) <= m
  BY MinIn
<1>2. m <= Min(S) /\ m \in Nat /\ Min(S) \in Nat
  BY <1>1
<1>. QED
  BY <1>1, <1>2

LEMMA MinOfTwo ==
  ASSUME NEW a \in Nat, NEW b \in Nat
  PROVE  Min({a, b}) = IF a <= b THEN a ELSE b
<1>1. CASE a <= b
  BY <1>1, MinIs
<1>2. CASE ~(a <= b)
  BY <1>2, MinIs
<1>. QED
  BY <1>1, <1>2

(* The least of a set of numbers stays when a greater one joins. *)
LEMMA MinStays ==
  ASSUME NEW n \in Nat, NEW S \in SUBSET (1..n), NEW T, T = S \/ T = S \cup {n + 1}
  PROVE  /\ S # {} => Min(T) = Min(S) /\ Min(S) \in S
         /\ S = {} /\ T # {} => Min(T) = n + 1
<1>0. n + 1 \in Nat
  OBVIOUS
<1>1. S \in SUBSET Nat /\ T \in SUBSET Nat
  <2>1. \A x \in 1..n : x \in Nat
    OBVIOUS
  <2>. QED
    BY <1>0, <2>1
<1>2. CASE S # {}
  <2>1. Min(S) \in S /\ \A x \in S : Min(S) <= x
    BY <1>1, <1>2, MinIn
  <2>2. Min(S) \in 1..n
    BY <2>1
  <2>3. Min(S) <= n + 1
    BY <2>2
  <2>4. \A x \in T : Min(S) <= x
    BY <2>1, <2>3
  <2>. QED
    BY <1>1, <1>2, <2>1, <2>4, MinIs
<1>3. CASE S = {} /\ T # {}
  <2>1. T = {n + 1}
    BY <1>3
  <2>. QED
    BY <1>1, <1>3, <2>1, MinIs
<1>. QED
  BY <1>2, <1>3
-----------------------------------------------------------------------------
(* A line is of a technology that Format has, and says how many fields came. *)
LEMMA LineHas ==
  ASSUME NEW line \in Line
  PROVE  /\ line.radio \in {"LTE", "NR5G-NSA", "NR5G-SA", "WCDMA"}
         /\ line.prefix \in BOOLEAN /\ line.len \in Nat
<1>1. PICK r \in DOMAIN Format :
        line \in [radio : {r}, prefix : BOOLEAN, len : 0..Len(Format[r]) + 2,
                  junk : {J \in SUBSET {"MCC", "MNC", "CID", "TAC", "RSRP"} :
                            Cardinality(J) <= MaxJunk}]
  BY DEF Line
<1>. QED
  BY <1>1 DEF Format, RadioLTE, RadioNR5GNSA, RadioNR5GSA

(* The fields of each technology. *)
LEMMA Formats ==
  /\ Format["LTE"] = <<"LTE", "duplex", "MCC", "MNC", "CID", "PCID", "EARFCN", "band", "UL",
                       "DL", "TAC", "RSRP", "RSRQ">>
  /\ Format["NR5G-NSA"] = <<"NR5G-NSA", "MCC", "MNC", "PCID", "RSRP", "SINR">>
  /\ Format["NR5G-SA"] = <<"NR5G-SA", "duplex", "MCC", "MNC", "CID", "PCID", "TAC", "ARFCN">>
  /\ Format["WCDMA"] = <<"WCDMA", "MCC", "MNC", "LAC", "CID", "UARFCN", "PSC">>
BY DEF Format, RadioLTE, RadioNR5GNSA, RadioNR5GSA

FieldNames ==
  {"LTE", "NR5G-NSA", "NR5G-SA", "WCDMA", "duplex", "MCC", "MNC", "CID", "PCID", "EARFCN",
   "band", "UL", "DL", "TAC", "RSRP", "RSRQ", "SINR", "ARFCN", "LAC", "UARFCN", "PSC",
   "servingcell", "state"}

LEMMA FormatIs ==
  ASSUME NEW radio \in {"LTE", "NR5G-NSA", "NR5G-SA", "WCDMA"}
  PROVE  /\ Format[radio] \in Seq(FieldNames) /\ Len(Format[radio]) \in Nat
         /\ DOMAIN Format[radio] = 1..Len(Format[radio])
         /\ Format[radio][1] = radio /\ 1 \in DOMAIN Format[radio]
<1>1. CASE radio = "LTE"
  <2>1. Format["LTE"] \in Seq(FieldNames)
    BY Formats DEF FieldNames
  <2>2. Len(Format["LTE"]) >= 1 /\ Format["LTE"][1] = "LTE"
    BY Formats
  <2>. QED
    BY <1>1, <2>1, <2>2
<1>2. CASE radio = "NR5G-NSA"
  <2>1. Format["NR5G-NSA"] \in Seq(FieldNames)
    BY Formats DEF FieldNames
  <2>2. Len(Format["NR5G-NSA"]) >= 1 /\ Format["NR5G-NSA"][1] = "NR5G-NSA"
    BY Formats
  <2>. QED
    BY <1>2, <2>1, <2>2
<1>3. CASE radio = "NR5G-SA"
  <2>1. Format["NR5G-SA"] \in Seq(FieldNames)
    BY Formats DEF FieldNames
  <2>2. Len(Format["NR5G-SA"]) >= 1 /\ Format["NR5G-SA"][1] = "NR5G-SA"
    BY Formats
  <2>. QED
    BY <1>3, <2>1, <2>2
<1>4. CASE radio = "WCDMA"
  <2>1. Format["WCDMA"] \in Seq(FieldNames)
    BY Formats DEF FieldNames
  <2>2. Len(Format["WCDMA"]) >= 1 /\ Format["WCDMA"][1] = "WCDMA"
    BY Formats
  <2>. QED
    BY <1>4, <2>1, <2>2
<1>. QED
  BY <1>1, <1>2, <1>3, <1>4

(* What comes of a line: its first fields, behind the prefix if it has that. *)
LEMMA NamesAre ==
  ASSUME NEW line \in Line, NEW p \in Nat, p = IF line.prefix THEN 2 ELSE 0
  PROVE  /\ Names(line) \in Seq(FieldNames) /\ Len(Names(line)) = p + Len(Format[line.radio])
         /\ \A i \in 1..Len(Format[line.radio]) : Names(line)[p + i] = Format[line.radio][i]
         /\ line.prefix => Names(line)[1] = "servingcell" /\ Names(line)[2] = "state"
<1>. DEFINE F == Format[line.radio]
<1>1. F \in Seq(FieldNames)
  BY LineHas, FormatIs
<1>2. CASE line.prefix
  <2>1. Names(line) = <<"servingcell", "state">> \o F
    BY <1>2 DEF Names, servingCellPrefix
  <2>2. <<"servingcell", "state">> \in Seq(FieldNames)
    BY DEF FieldNames
  <2>. QED
    BY <1>1, <1>2, <2>1, <2>2
<1>3. CASE ~line.prefix
  <2>1. Names(line) = F
    BY <1>1, <1>3 DEF Names
  <2>. QED
    BY <1>1, <1>3, <2>1
<1>. QED
  BY <1>2, <1>3

LEMMA FirstOf ==
  ASSUME NEW S, NEW s \in Seq(S), NEW e \in 0..Len(s)
  PROVE  /\ Len(SubSeq(s, 1, e)) = e /\ DOMAIN SubSeq(s, 1, e) = 1..e
         /\ \A i \in 1..e : SubSeq(s, 1, e)[i] = s[i]
         /\ SubSeq(s, 1, e) \in Seq(S)
         /\ SubSeq(s, 1, e) = <<>> <=> e = 0
<1>1. CASE e = 0
  <2>1. SubSeq(s, 1, 0) = <<>>
    OBVIOUS
  <2>. QED
    BY <1>1, <2>1
<1>2. CASE e # 0
  <2>1. Len(SubSeq(s, 1, e)) = e
    BY <1>2
  <2>2. \A i \in 1..e : SubSeq(s, 1, e)[i] = s[i]
    BY <1>2
  <2>3. SubSeq(s, 1, e) \in Seq(S)
    BY <1>2
  <2>. QED
    BY <1>2, <2>1, <2>2, <2>3
<1>. QED
  BY <1>1, <1>2

LEMMA SentIs ==
  ASSUME NEW line \in Line, NEW m, m = Len(Sent(line))
  PROVE  /\ m \in Nat /\ m <= Len(Names(line)) /\ DOMAIN Sent(line) = 1..m
         /\ \A i \in 1..m : Sent(line)[i] = Names(line)[i]
         /\ Sent(line) = <<>> <=> m = 0
<1>. DEFINE L == Len(Names(line))
<1>1. Names(line) \in Seq(FieldNames) /\ L \in Nat /\ line.len \in Nat
  BY NamesAre, LineHas
<1>2. PICK e \in Nat : e = Min({line.len, L}) /\ e <= L
  BY <1>1, MinOfTwo
<1>3. Sent(line) = SubSeq(Names(line), 1, e)
  BY <1>2 DEF Sent
<1>4. /\ Len(SubSeq(Names(line), 1, e)) = e
      /\ \A i \in 1..e : SubSeq(Names(line), 1, e)[i] = Names(line)[i]
      /\ DOMAIN SubSeq(Names(line), 1, e) = 1..e
      /\ SubSeq(Names(line), 1, e) \in Seq(FieldNames)
      /\ SubSeq(Names(line), 1, e) = <<>> <=> e = 0
  <2>1. e \in 0..Len(Names(line))
    BY <1>1, <1>2
  <2>. QED
    BY <1>1, <2>1, FirstOf
<1>5. m = e
  BY <1>3, <1>4
<1>. QED
  BY <1>2, <1>3, <1>4, <1>5

\* The i-th field behind the prefix, of the n-th line.
FieldAt(line, n, i) ==
  [of |-> Format[line.radio][i], line |-> n, digits |-> Digits(line, Format[line.radio][i])]

\* The first k fields behind the prefix came, and nothing else that decode looks at.
Came(line, n, k) ==
  LET f == Body(splitFields(line, n))
  IN  /\ f # <<>> /\ Len(f) = k /\ DOMAIN f = 1..k
      /\ \A i \in 1..k : f[i] = FieldAt(line, n, i)
      /\ \A x \in FieldNames \ {"servingcell", "state"} :
           x \in ToSet(Sent(line)) <=> \E i \in 1..k : Format[line.radio][i] = x

LEMMA Bodies ==
  ASSUME NEW line \in Line, NEW n \in Nat, content = "plain"
  PROVE  \/ /\ decode(splitFields(line, n)) = {}
            /\ "MCC" \notin ToSet(Sent(line))
         \/ \E k \in 1..Len(Format[line.radio]) : Came(line, n, k)
<1>. DEFINE g == splitFields(line, n)
            F == Format[line.radio]
            m == Len(Sent(line))
<1>1. PICK p \in Nat : p = IF line.prefix THEN 2 ELSE 0
  OBVIOUS
<1>2. /\ F \in Seq(FieldNames) /\ Len(F) \in Nat /\ DOMAIN F = 1..Len(F) /\ F[1] = line.radio
      /\ line.radio \in {"LTE", "NR5G-NSA", "NR5G-SA", "WCDMA"} /\ line.prefix \in BOOLEAN
  BY LineHas, FormatIs
<1>3. /\ Len(Names(line)) = p + Len(F)
      /\ \A i \in 1..Len(F) : Names(line)[p + i] = F[i]
      /\ line.prefix => Names(line)[1] = "servingcell" /\ Names(line)[2] = "state"
  BY <1>1, NamesAre
<1>4. /\ m \in Nat /\ m <= p + Len(F) /\ DOMAIN Sent(line) = 1..m
      /\ \A i \in 1..m : Sent(line)[i] = Names(line)[i]
      /\ Sent(line) = <<>> <=> m = 0
  BY <1>3, SentIs
<1>5. \A x : x \in ToSet(Sent(line)) <=> \E i \in 1..m : Sent(line)[i] = x
  BY <1>4 DEF ToSet
<1>6. CASE m = 0
  <2>1. g = <<[of |-> "", line |-> n, digits |-> "junk"]>>
    BY <1>4, <1>6 DEF splitFields
  <2>. HIDE DEF g
  <2>2. g # <<>> /\ g[1].of = ""
    BY <2>1
  <2>3. Body(g) = g
    BY <2>2 DEF Body, servingCellPrefix
  <2>4. decode(g) = {}
    BY <2>2, <2>3 DEF decode, RadioLTE, RadioNR5GNSA, RadioNR5GSA
  <2>5. "MCC" \notin ToSet(Sent(line))
    BY <1>5, <1>6
  <2>. QED
    BY <2>4, <2>5 DEF g
<1>7. CASE m # 0
  <2>1. g = [i \in 1..m |-> [of |-> Sent(line)[i], line |-> n, digits |-> Digits(line, Sent(line)[i])]]
    BY <1>4, <1>7, content = "plain" DEF splitFields
  <2>2. Len(g) = m /\ DOMAIN g = 1..m /\ 1 \in 1..m
        /\ \A i \in 1..m : g[i] = [of |-> Sent(line)[i], line |-> n, digits |-> Digits(line, Sent(line)[i])]
    BY <1>4, <1>7, <2>1
  <2>. HIDE DEF g
  <2>3. CASE line.prefix /\ m <= 2
    <3>1. p = 2 /\ g[1].of = "servingcell"
      BY <1>1, <1>3, <1>4, <2>2, <2>3
    <3>2. Body(g) = <<>>
      BY <1>4, <2>2, <2>3, <3>1 DEF Body, servingCellPrefix
    <3>3. decode(g) = {}
      BY <3>2 DEF decode
    <3>4. \A i \in 1..m : Sent(line)[i] \in {"servingcell", "state"}
      BY <1>3, <1>4, <2>3
    <3>5. "MCC" \notin ToSet(Sent(line))
      BY <1>5, <3>4
    <3>. QED
      BY <3>3, <3>5 DEF g
  <2>4. CASE line.prefix /\ m > 2
    <3>. DEFINE k == m - 2
                f == Body(g)
    <3>1. p = 2 /\ g[1].of = "servingcell" /\ k \in 1..Len(F)
      BY <1>1, <1>2, <1>3, <1>4, <2>2, <2>4
    <3>2. f = SubSeq(g, 3, m)
      BY <2>2, <3>1 DEF Body, servingCellPrefix
    <3>3. Len(f) = k /\ DOMAIN f = 1..k /\ \A i \in 1..k : f[i] = g[i + 2]
      BY <1>4, <2>2, <2>4, <3>2
    <3>4. \A i \in 1..k : Sent(line)[i + 2] = F[i] /\ i + 2 \in 1..m
      <4>1. ASSUME NEW i \in 1..k PROVE Sent(line)[i + 2] = F[i] /\ i + 2 \in 1..m
        <5>1. i \in 1..Len(F) /\ i + 2 \in 1..m /\ p + i = i + 2
          BY <1>2, <1>4, <2>4, <3>1
        <5>. QED
          BY <1>3, <1>4, <5>1
      <4>. HIDE DEF k, F
      <4>. QED
        BY <4>1
    <3>5. \A i \in 1..k : f[i] = FieldAt(line, n, i)
      BY <2>2, <3>3, <3>4 DEF FieldAt
    <3>6. ASSUME NEW x \in FieldNames \ {"servingcell", "state"}
          PROVE  x \in ToSet(Sent(line)) <=> \E i \in 1..k : F[i] = x
      <4>1. ASSUME NEW j \in 1..m, Sent(line)[j] = x PROVE \E i \in 1..k : F[i] = x
        <5>1. j # 1 /\ j # 2
          BY <1>3, <1>4, <2>4, <3>6, <4>1
        <5>2. j - 2 \in 1..k /\ (j - 2) + 2 = j
          BY <1>4, <5>1
        <5>. QED
          BY <3>4, <4>1, <5>2
      <4>. QED
        BY <1>5, <3>4, <4>1
    <3>7. f # <<>>
      BY <3>1, <3>3
    <3>. HIDE DEF k
    <3>. QED
      BY <3>1, <3>3, <3>5, <3>6, <3>7 DEF Came, g
  <2>5. CASE ~line.prefix
    <3>1. p = 0 /\ m \in 1..Len(F)
      BY <1>1, <1>2, <1>4, <1>7, <2>5
    <3>2. \A i \in 1..m : Sent(line)[i] = F[i]
      BY <1>2, <1>3, <1>4, <3>1
    <3>3. g[1].of # "servingcell"
      BY <1>2, <2>2, <3>1, <3>2
    <3>4. Body(g) = g
      BY <3>3 DEF Body, servingCellPrefix
    <3>5. \A i \in 1..m : g[i] = FieldAt(line, n, i)
      BY <2>2, <3>2 DEF FieldAt
    <3>6. \A x : x \in ToSet(Sent(line)) <=> \E i \in 1..m : F[i] = x
      BY <1>5, <3>2
    <3>7. g # <<>>
      BY <2>2
    <3>. HIDE DEF m
    <3>. QED
      BY <2>2, <3>1, <3>4, <3>5, <3>6, <3>7 DEF Came, g
  <2>. QED
    BY <1>2, <1>4, <2>3, <2>4, <2>5
<1>. QED
  BY <1>4, <1>6, <1>7
-----------------------------------------------------------------------------
-----------------------------------------------------------------------------
(* What decode makes of a line, whose first k fields came. *)

\* The field names that came and can be read.
Readable(line) == ToSet(Sent(line)) \ line.junk

\* The i-th field of a technology, and no other, is x.
At(radio, i, x) ==
  /\ x \in {"MCC", "MNC", "CID", "TAC", "RSRP"}
  /\ i \in 1..Len(Format[radio])
  /\ \A j \in 1..Len(Format[radio]) : Format[radio][j] = x <=> j = i

\* Field i of line n, of which k came, is read as what x is.
Reads(line, n, k, f, i, x) ==
  /\ i \in DOMAIN f <=> i <= k
  /\ x \in ToSet(Sent(line)) <=> i <= k
  /\ i <= k /\ x \in {"MCC", "MNC", "RSRP"} => (isDec(f[i]) <=> x \in Readable(line))
  /\ i <= k /\ x \in {"CID", "TAC"} => (isHex(f[i]) <=> x \in Readable(line))
  /\ i <= k => Value(f[i]) = [of |-> x, line |-> n]

LEMMA FieldRead ==
  ASSUME NEW line \in Line, NEW n \in Nat, NEW k, k \in 1..Len(Format[line.radio]),
         Came(line, n, k), NEW i, NEW x, At(line.radio, i, x),
         NEW f, f = Body(splitFields(line, n))
  PROVE  Reads(line, n, k, f, i, x)
<1>. USE DEF At
<1>1. Len(Format[line.radio]) \in Nat
  BY LineHas, FormatIs
<1>2. DOMAIN f = 1..k /\ (i \in 1..k <=> i <= k)
  BY <1>1 DEF Came
<1>3. x \in ToSet(Sent(line)) <=> i <= k
  <2>1. x \in FieldNames \ {"servingcell", "state"}
    BY DEF FieldNames
  <2>2. x \in ToSet(Sent(line)) <=> \E j \in 1..k : Format[line.radio][j] = x
    BY <2>1 DEF Came
  <2>3. \A j \in 1..k : j \in 1..Len(Format[line.radio])
    BY <1>1
  <2>. QED
    BY <1>2, <2>2, <2>3
<1>4. ASSUME i <= k
      PROVE  f[i] = [of |-> x, line |-> n, digits |-> Digits(line, x)]
  <2>1. f[i] = FieldAt(line, n, i)
    BY <1>2, <1>4 DEF Came
  <2>. QED
    BY <2>1 DEF FieldAt
<1>5. Digits(line, x) = IF x \in line.junk THEN "junk"
                        ELSE IF x \in {"CID", "TAC"} THEN "hex" ELSE "dec"
  BY DEF Digits
<1>. QED
  BY <1>2, <1>3, <1>4, <1>5 DEF isDec, isHex, Value, Readable, Reads

\* decode and Describes agree on a line: nothing, a cell that cannot be located, or
\* the same tower.
Agree(line, n) ==
  LET cs == decode(splitFields(line, n))
      ts == Describes(line, n)
  IN  \/ cs = {} /\ ts = {}
      \/ \E c : cs = {c} /\ c.HasID = FALSE /\ ts = {}
      \/ \E c, t : /\ cs = {c} /\ c.HasID = TRUE /\ ts = {t}
                   /\ c.Radio = t.Radio /\ Tower(c) = t /\ OneLine(t, n)

\* What a technology with identifiers has at which place.
Places(line, f, k, n, cid, tac, rsrp) ==
  /\ k \in Nat /\ Len(f) = k /\ f[1].of = line.radio
  /\ line.radio \in Standard
  /\ 3 < cid /\ cid < tac /\ 4 < tac
  /\ \A x \in {"MCC", "MNC", "CID", "TAC"} :
       LET i == IF x = "MCC" THEN 3 ELSE IF x = "MNC" THEN 4 ELSE IF x = "CID" THEN cid ELSE tac
       IN  /\ x \in ToSet(Sent(line)) <=> i <= k
           /\ i <= k /\ x \in {"MCC", "MNC"} => (isDec(f[i]) <=> x \in Readable(line))
           /\ i <= k /\ x \in {"CID", "TAC"} => (isHex(f[i]) <=> x \in Readable(line))
           /\ i <= k => Value(f[i]) = [of |-> x, line |-> n]
  /\ rsrp \in DOMAIN f /\ isDec(f[rsrp]) <=> "RSRP" \in Readable(line)
  /\ rsrp \in DOMAIN f => Value(f[rsrp]) = [of |-> "RSRP", line |-> n]

LEMMA WithIDsAgree ==
  ASSUME NEW line \in Line, NEW n \in Nat, NEW k, NEW f, f = Body(splitFields(line, n)),
         NEW cid \in Nat, NEW tac \in Nat, NEW rsrp, Places(line, f, k, n, cid, tac, rsrp),
         decode(splitFields(line, n)) = WithIDs(f, cid, tac, rsrp)
  PROVE  Agree(line, n)
<1>. DEFINE cs == decode(splitFields(line, n))
            ts == Describes(line, n)
            has == Readable(line)
            whole == {"MCC", "MNC", "CID", "TAC"} \subseteq has
            signal == IF "RSRP" \in has THEN [of |-> "RSRP", line |-> n] ELSE Absent
            t == [Radio |-> line.radio, MCC |-> [of |-> "MCC", line |-> n],
                  MNC |-> [of |-> "MNC", line |-> n], CID |-> [of |-> "CID", line |-> n],
                  TAC |-> [of |-> "TAC", line |-> n], Signal |-> signal]
<1>1. ts = IF whole THEN {t} ELSE {}
  BY DEF Places, Standard, Describes, Readable
<1>2. CASE Len(f) < tac \/ ~isDec(f[3]) \/ ~isDec(f[4])
  <2>1. cs = {}
    BY <1>2 DEF WithIDs
  <2>2. ~whole
    BY <1>2 DEF Places, Readable
  <2>. QED
    BY <1>1, <2>1, <2>2 DEF Agree
<1>3. CASE ~(Len(f) < tac \/ ~isDec(f[3]) \/ ~isDec(f[4]))
  <2>1. tac <= k /\ cid <= k /\ 3 <= k /\ 4 <= k
    BY <1>3 DEF Places
  <2>2. /\ "MCC" \in has /\ "MNC" \in has
        /\ Value(f[3]) = [of |-> "MCC", line |-> n] /\ Value(f[4]) = [of |-> "MNC", line |-> n]
    BY <1>3, <2>1 DEF Places
  <2>3. /\ Value(f[cid]) = [of |-> "CID", line |-> n] /\ Value(f[tac]) = [of |-> "TAC", line |-> n]
        /\ isHex(f[cid]) <=> "CID" \in has
        /\ isHex(f[tac]) <=> "TAC" \in has
    BY <2>1 DEF Places
  <2>4. (IF rsrp \in DOMAIN f /\ isDec(f[rsrp]) THEN Value(f[rsrp]) ELSE Absent) = signal
    BY DEF Places
  <2>5. whole <=> isHex(f[cid]) /\ isHex(f[tac])
    BY <2>2, <2>3
  <2>. DEFINE ids == IDs({f[cid], f[tac]})
              c == [Radio |-> f[1].of, MCC |-> Value(f[3]), MNC |-> Value(f[4]),
                    CID |-> IF f[cid] \in ids THEN Value(f[cid]) ELSE Absent,
                    TAC |-> IF f[tac] \in ids THEN Value(f[tac]) ELSE Absent,
                    Signal |-> IF rsrp \in DOMAIN f /\ isDec(f[rsrp]) THEN Value(f[rsrp]) ELSE Absent,
                    HasID |-> ids # {}]
  <2>6. cs = {c}
    BY <1>3 DEF WithIDs
  <2>7. CASE whole
    <3>1. ids = {f[cid], f[tac]}
      BY <2>5, <2>7 DEF IDs
    <3>2. /\ c.HasID = TRUE /\ c.Radio = line.radio /\ c.MCC = [of |-> "MCC", line |-> n]
          /\ c.MNC = [of |-> "MNC", line |-> n] /\ c.CID = [of |-> "CID", line |-> n]
          /\ c.TAC = [of |-> "TAC", line |-> n] /\ c.Signal = signal
      BY <2>2, <2>3, <2>4, <3>1 DEF Places
    <3>3. Tower(c) = t
      <4>. HIDE DEF c, signal
      <4>. QED
        BY <3>2 DEF Tower, NoTower
    <3>4. OneLine(t, n)
      BY DEF OneLine, Places
    <3>. QED
      <4>. HIDE DEF c
      <4>1. ts = {t} /\ c.Radio = t.Radio
        BY <1>1, <2>7, <3>2
      <4>. HIDE DEF t
      <4>. QED
        BY <2>6, <3>2, <3>3, <3>4, <4>1 DEF Agree
  <2>8. CASE ~whole
    <3>1. ids = {}
      BY <2>5, <2>8 DEF IDs
    <3>2. c.HasID = FALSE
      BY <3>1
    <3>. HIDE DEF c
    <3>. QED
      BY <1>1, <2>6, <2>8, <3>2 DEF Agree
  <2>. QED
    BY <2>7, <2>8
<1>. QED
  BY <1>2, <1>3

(* The positions that decode looks at are those of the modem's fields. *)
LEMMA PlacesLTE ==
  ASSUME NEW line \in Line, NEW n \in Nat, NEW k \in 1..Len(Format[line.radio]), Came(line, n, k),
         NEW f, f = Body(splitFields(line, n)), line.radio = "LTE"
  PROVE  Places(line, f, k, n, 5, 11, 12)
<1>1. Len(Format["LTE"]) = 13 /\ k \in Nat /\ k <= 13
  BY Formats
<1>2. \A j \in 1..13 : /\ Format["LTE"][j] = "MCC" <=> j = 3
                       /\ Format["LTE"][j] = "MNC" <=> j = 4
                       /\ Format["LTE"][j] = "CID" <=> j = 5
                       /\ Format["LTE"][j] = "TAC" <=> j = 11
                       /\ Format["LTE"][j] = "RSRP" <=> j = 12
  <2>1. ASSUME NEW j \in 1..13
        PROVE  j = 1 \/ j = 2 \/ j = 3 \/ j = 4 \/ j = 5 \/ j = 6 \/ j = 7 \/ j = 8 \/ j = 9
               \/ j = 10 \/ j = 11 \/ j = 12 \/ j = 13
    OBVIOUS
  <2>. QED
    BY <2>1, Formats
<1>3. f # <<>> /\ Len(f) = k /\ DOMAIN f = 1..k /\ f[1].of = "LTE"
  <2>1. f[1] = FieldAt(line, n, 1) /\ f # <<>> /\ Len(f) = k /\ DOMAIN f = 1..k
    BY <1>1 DEF Came
  <2>. QED
    BY <2>1, Formats DEF FieldAt
<1>4. ASSUME NEW x \in {"MCC", "MNC", "CID", "TAC", "RSRP"}, NEW i \in 1..13,
             \A j \in 1..13 : Format["LTE"][j] = x <=> j = i
      PROVE  Reads(line, n, k, f, i, x)
  <2>1. At(line.radio, i, x)
    BY <1>1, <1>4, line.radio = "LTE" DEF At
  <2>. QED
    BY <2>1, FieldRead
<1>5. /\ 12 \in DOMAIN f /\ isDec(f[12]) <=> "RSRP" \in Readable(line)
      /\ 12 \in DOMAIN f => Value(f[12]) = [of |-> "RSRP", line |-> n]
  BY <1>2, <1>4 DEF Reads, Readable
<1>6. /\ "MCC" \in ToSet(Sent(line)) <=> 3 <= k
      /\ "MNC" \in ToSet(Sent(line)) <=> 4 <= k
      /\ "CID" \in ToSet(Sent(line)) <=> 5 <= k
      /\ "TAC" \in ToSet(Sent(line)) <=> 11 <= k
      /\ 3 <= k => (isDec(f[3]) <=> "MCC" \in Readable(line)) /\ Value(f[3]) = [of |-> "MCC", line |-> n]
      /\ 4 <= k => (isDec(f[4]) <=> "MNC" \in Readable(line)) /\ Value(f[4]) = [of |-> "MNC", line |-> n]
      /\ 5 <= k => (isHex(f[5]) <=> "CID" \in Readable(line)) /\ Value(f[5]) = [of |-> "CID", line |-> n]
      /\ 11 <= k => (isHex(f[11]) <=> "TAC" \in Readable(line)) /\ Value(f[11]) = [of |-> "TAC", line |-> n]
  BY <1>2, <1>4 DEF Reads
<1>. QED
  BY <1>1, <1>3, <1>5, <1>6 DEF Places, Standard, RadioLTE

LEMMA PlacesSA ==
  ASSUME NEW line \in Line, NEW n \in Nat, NEW k \in 1..Len(Format[line.radio]), Came(line, n, k),
         NEW f, f = Body(splitFields(line, n)), line.radio = "NR5G-SA"
  PROVE  Places(line, f, k, n, 5, 7, 0)
<1>1. Len(Format["NR5G-SA"]) = 8 /\ k \in Nat /\ k <= 8
  BY Formats
<1>2. \A j \in 1..8 : /\ Format["NR5G-SA"][j] = "MCC" <=> j = 3
                      /\ Format["NR5G-SA"][j] = "MNC" <=> j = 4
                      /\ Format["NR5G-SA"][j] = "CID" <=> j = 5
                      /\ Format["NR5G-SA"][j] = "TAC" <=> j = 7
                      /\ Format["NR5G-SA"][j] # "RSRP"
  <2>1. ASSUME NEW j \in 1..8
        PROVE  j = 1 \/ j = 2 \/ j = 3 \/ j = 4 \/ j = 5 \/ j = 6 \/ j = 7 \/ j = 8
    OBVIOUS
  <2>. QED
    BY <2>1, Formats
<1>3. f # <<>> /\ Len(f) = k /\ DOMAIN f = 1..k /\ f[1].of = "NR5G-SA"
  <2>1. f[1] = FieldAt(line, n, 1) /\ f # <<>> /\ Len(f) = k /\ DOMAIN f = 1..k
    BY <1>1 DEF Came
  <2>. QED
    BY <2>1, Formats DEF FieldAt
<1>4. ASSUME NEW x \in {"MCC", "MNC", "CID", "TAC"}, NEW i \in 1..8,
             \A j \in 1..8 : Format["NR5G-SA"][j] = x <=> j = i
      PROVE  Reads(line, n, k, f, i, x)
  <2>1. At(line.radio, i, x)
    BY <1>1, <1>4, line.radio = "NR5G-SA" DEF At
  <2>. QED
    BY <2>1, FieldRead
<1>5. 0 \notin DOMAIN f /\ "RSRP" \notin Readable(line)
  <2>1. "RSRP" \in FieldNames \ {"servingcell", "state"} /\ \A j \in 1..k : j \in 1..8
    BY <1>1 DEF FieldNames
  <2>2. "RSRP" \in ToSet(Sent(line)) <=> \E j \in 1..k : Format[line.radio][j] = "RSRP"
    BY <2>1 DEF Came
  <2>3. "RSRP" \notin ToSet(Sent(line))
    BY <1>2, <2>1, <2>2, line.radio = "NR5G-SA"
  <2>4. 0 \notin DOMAIN f
    BY <1>1, <1>3
  <2>. QED
    BY <2>3, <2>4 DEF Readable
<1>6. /\ "MCC" \in ToSet(Sent(line)) <=> 3 <= k
      /\ "MNC" \in ToSet(Sent(line)) <=> 4 <= k
      /\ "CID" \in ToSet(Sent(line)) <=> 5 <= k
      /\ "TAC" \in ToSet(Sent(line)) <=> 7 <= k
      /\ 3 <= k => (isDec(f[3]) <=> "MCC" \in Readable(line)) /\ Value(f[3]) = [of |-> "MCC", line |-> n]
      /\ 4 <= k => (isDec(f[4]) <=> "MNC" \in Readable(line)) /\ Value(f[4]) = [of |-> "MNC", line |-> n]
      /\ 5 <= k => (isHex(f[5]) <=> "CID" \in Readable(line)) /\ Value(f[5]) = [of |-> "CID", line |-> n]
      /\ 7 <= k => (isHex(f[7]) <=> "TAC" \in Readable(line)) /\ Value(f[7]) = [of |-> "TAC", line |-> n]
  BY <1>2, <1>4 DEF Reads
<1>. QED
  BY <1>1, <1>3, <1>5, <1>6 DEF Places, Standard, RadioNR5GSA

(* decode takes from a line the tower that the line describes. *)
LEMMA LineRight ==
  ASSUME NEW line \in Line, NEW n \in Nat, content = "plain"
  PROVE  Agree(line, n)
<1>. DEFINE g == splitFields(line, n)
            f == Body(g)
            cs == decode(g)
<1>1. CASE decode(splitFields(line, n)) = {} /\ "MCC" \notin ToSet(Sent(line))
  <2>1. Describes(line, n) = {}
    BY <1>1 DEF Describes
  <2>. QED
    BY <1>1, <2>1 DEF Agree
<1>2. ASSUME NEW k \in 1..Len(Format[line.radio]), Came(line, n, k) PROVE Agree(line, n)
  <2>1. f # <<>> /\ f[1].of = line.radio
    <3>1. f # <<>> /\ f[1] = FieldAt(line, n, 1)
      BY <1>2, FormatIs, LineHas DEF Came
    <3>2. Format[line.radio][1] = line.radio
      BY LineHas, FormatIs
    <3>. QED
      BY <3>1, <3>2 DEF FieldAt
  <2>. HIDE DEF f
  <2>2. cs = IF line.radio = "LTE" THEN WithIDs(f, 5, 11, 12)
             ELSE IF line.radio = "NR5G-NSA" THEN NSA(f)
             ELSE IF line.radio = "NR5G-SA" THEN WithIDs(f, 5, 7, 0)
             ELSE {}
    BY <2>1 DEF decode, f, RadioLTE, RadioNR5GNSA, RadioNR5GSA
  <2>. HIDE DEF g
  <2>3. CASE line.radio = "LTE"
    <3>1. Places(line, f, k, n, 5, 11, 12)
      BY <1>2, <2>3, PlacesLTE DEF f, g
    <3>. QED
      BY <2>2, <2>3, <3>1, WithIDsAgree DEF f, g
  <2>4. CASE line.radio = "NR5G-SA"
    <3>1. Places(line, f, k, n, 5, 7, 0)
      BY <1>2, <2>4, PlacesSA DEF f, g
    <3>. QED
      BY <2>2, <2>4, <3>1, WithIDsAgree DEF f, g
  <2>5. CASE line.radio \notin {"LTE", "NR5G-SA"}
    <3>1. Describes(line, n) = {}
      BY <2>5 DEF Describes, RadioLTE, RadioNR5GSA
    <3>2. cs = {} \/ cs = NSA(f)
      BY <2>2, <2>5
    <3>3. NSA(f) = {} \/ \E c : NSA(f) = {c} /\ c.HasID = FALSE
      <4>. DEFINE c == [Radio |-> RadioNR5GNSA, MCC |-> Value(f[2]), MNC |-> Value(f[3]),
                        CID |-> Absent, TAC |-> Absent, Signal |-> Absent, HasID |-> FALSE]
      <4>1. (NSA(f) = {} \/ NSA(f) = {c}) /\ c.HasID = FALSE
        BY DEF NSA
      <4>. HIDE DEF c
      <4>. QED
        BY <4>1
    <3>. QED
      BY <3>1, <3>2, <3>3 DEF Agree, g
  <2>. QED
    BY <2>3, <2>4, <2>5
<1>. QED
  BY <1>1, <1>2, Bodies, content = "plain"

(* Of a line whose quotes are escaped decode takes nothing. *)
LEMMA NoneEscaped ==
  ASSUME NEW line \in Line, NEW n \in Nat, content = "escaped"
  PROVE  decode(splitFields(line, n)) = {}
<1>. DEFINE g == splitFields(line, n)
            m == Len(Sent(line))
<1>1. m \in Nat /\ DOMAIN Sent(line) = 1..m /\ (Sent(line) = <<>> <=> m = 0)
  BY SentIs
<1>2. g # <<>> /\ g[1].of \in {"", "quoted"}
  <2>1. CASE m = 0
    <3>1. g = <<[of |-> "", line |-> n, digits |-> "junk"]>>
      BY <1>1, <2>1 DEF splitFields
    <3>. HIDE DEF g
    <3>. QED
      BY <3>1
  <2>2. CASE m # 0
    <3>1. g = [i \in 1..m |-> [of |-> "quoted", line |-> n, digits |-> Digits(line, Sent(line)[i])]]
      BY <1>1, <2>2, content = "escaped" DEF splitFields
    <3>. HIDE DEF g
    <3>2. 1 \in 1..m
      BY <1>1, <2>2
    <3>. HIDE DEF m
    <3>3. g[1].of = "quoted" /\ 1 \in DOMAIN g
      BY <3>1, <3>2
    <3>4. g # <<>>
      BY <3>3
    <3>. QED
      BY <3>3, <3>4
  <2>. HIDE DEF g, m
  <2>. QED
    BY <2>1, <2>2
<1>. HIDE DEF g
<1>3. Body(g) = g
  BY <1>2 DEF Body, servingCellPrefix
<1>4. decode(g) = {}
  BY <1>2, <1>3 DEF decode, RadioLTE, RadioNR5GNSA, RadioNR5GSA
<1>. QED
  BY <1>4 DEF g
-----------------------------------------------------------------------------
(* A reply, line by line. *)
LEMMA Added ==
  ASSUME NEW T, NEW seq \in Seq(T), NEW x
  PROVE  /\ AddTo(seq, {}) = seq
         /\ \E U : AddTo(seq, {x}) \in Seq(U)
         /\ Len(seq) \in Nat /\ DOMAIN seq = 1..Len(seq)
         /\ DOMAIN AddTo(seq, {x}) = 1..(Len(seq) + 1)
         /\ AddTo(seq, {x})[Len(seq) + 1] = x
         /\ \A i \in 1..Len(seq) : AddTo(seq, {x})[i] = seq[i]
<1>. DEFINE U == T \cup {x}
<1>1. seq \in Seq(U)
  OBVIOUS
<1>2. AddTo(seq, {x}) = Append(seq, x)
  BY DEF AddTo
<1>3. Append(seq, x) \in Seq(U)
  BY <1>1
<1>. QED
  BY <1>1, <1>2, <1>3 DEF AddTo

LEMMA UsableMore ==
  ASSUME NEW T, NEW seq \in Seq(T), NEW x, NEW r
  PROVE  /\ Usable(seq, r) \in SUBSET (1..Len(seq))
         /\ Usable(AddTo(seq, {x}), r) =
              IF x.Radio = r /\ x.HasID THEN Usable(seq, r) \cup {Len(seq) + 1} ELSE Usable(seq, r)
<1>. DEFINE more == AddTo(seq, {x})
<1>1. /\ Len(seq) \in Nat /\ DOMAIN seq = 1..Len(seq) /\ DOMAIN more = 1..(Len(seq) + 1)
      /\ more[Len(seq) + 1] = x /\ \A i \in 1..Len(seq) : more[i] = seq[i]
  BY Added
<1>2. 1..(Len(seq) + 1) = (1..Len(seq)) \cup {Len(seq) + 1} /\ Len(seq) + 1 \notin 1..Len(seq)
  BY <1>1
<1>. HIDE DEF more
<1>3. Usable(more, r) =
        IF x.Radio = r /\ x.HasID THEN Usable(seq, r) \cup {Len(seq) + 1} ELSE Usable(seq, r)
  BY <1>1, <1>2 DEF Usable
<1>. QED
  BY <1>1, <1>3 DEF Usable, more

(* A line that decode and Describes agree on keeps the match. *)
LEMMA MatchStep ==
  ASSUME NEW T, cells \in Seq(T), NEW U, said \in Seq(U), Match, NEW line, NEW n, Agree(line, n),
         cells' = AddTo(cells, decode(splitFields(line, n))),
         said' = AddTo(said, Describes(line, n))
  PROVE  Match'
<1>. DEFINE cs == decode(splitFields(line, n))
            ts == Describes(line, n)
<1>. SUFFICES ASSUME NEW r \in Standard
              PROVE  /\ Usable(cells', r) = {} <=> DescribedAs(r)' = {}
                     /\ Usable(cells', r) # {} =>
                          Tower(cells'[Min(Usable(cells', r))]) = said'[Min(DescribedAs(r)')]
  BY DEF Match
<1>. DEFINE us == Usable(cells, r)
            ds == DescribedAs(r)
<1>1. /\ Len(cells) \in Nat /\ DOMAIN cells = 1..Len(cells) /\ us \in SUBSET (1..Len(cells))
      /\ Len(said) \in Nat /\ DOMAIN said = 1..Len(said) /\ ds \in SUBSET (1..Len(said))
  <2>1. us \in SUBSET DOMAIN cells /\ ds \in SUBSET DOMAIN said
    BY DEF Usable, DescribedAs
  <2>. QED
    BY <2>1
<1>2. /\ us = {} <=> ds = {}
      /\ us # {} => Tower(cells[Min(us)]) = said[Min(ds)]
  BY DEF Match
<1>3. us # {} => Min(us) \in us /\ Min(ds) \in ds
  BY <1>1, <1>2, MinStays
<1>4. CASE cs = {} /\ ts = {}
  <2>1. cells' = cells /\ said' = said
    BY <1>4 DEF AddTo
  <2>. QED
    BY <1>2, <2>1 DEF DescribedAs
<1>5. ASSUME NEW c, cs = {c}, c.HasID = FALSE, ts = {}
      PROVE  /\ Usable(cells', r) = {} <=> DescribedAs(r)' = {}
             /\ Usable(cells', r) # {} =>
                  Tower(cells'[Min(Usable(cells', r))]) = said'[Min(DescribedAs(r)')]
  <2>1. said' = said /\ DescribedAs(r)' = ds
    BY <1>5 DEF AddTo, DescribedAs
  <2>0. cells' = AddTo(cells, {c})
    BY <1>5
  <2>. HIDE DEF cs
  <2>2. Usable(cells', r) = us
    <3>1. Usable(AddTo(cells, {c}), r)
            = IF c.Radio = r /\ c.HasID THEN Usable(cells, r) \cup {Len(cells) + 1} ELSE Usable(cells, r)
      BY UsableMore
    <3>. QED
      BY <1>5, <2>0, <3>1
  <2>3. \A i \in 1..Len(cells) : cells'[i] = cells[i]
    <3>1. \A i \in 1..Len(cells) : AddTo(cells, {c})[i] = cells[i]
      BY Added
    <3>. QED
      BY <2>0, <3>1
  <2>. HIDE DEF us, ds
  <2>. QED
    BY <1>1, <1>2, <1>3, <2>1, <2>2, <2>3
<1>6. ASSUME NEW c, NEW t, cs = {c}, c.HasID = TRUE, ts = {t}, c.Radio = t.Radio, Tower(c) = t
      PROVE  /\ Usable(cells', r) = {} <=> DescribedAs(r)' = {}
             /\ Usable(cells', r) # {} =>
                  Tower(cells'[Min(Usable(cells', r))]) = said'[Min(DescribedAs(r)')]
  <2>. DEFINE vs == Usable(cells', r)
              es == DescribedAs(r)'
  <2>0. cells' = AddTo(cells, {c}) /\ said' = AddTo(said, {t})
    BY <1>6
  <2>. HIDE DEF cs, ts
  <2>1. /\ \A i \in 1..Len(cells) : cells'[i] = cells[i]
        /\ cells'[Len(cells) + 1] = c
    <3>1. /\ \A i \in 1..Len(cells) : AddTo(cells, {c})[i] = cells[i]
          /\ AddTo(cells, {c})[Len(cells) + 1] = c
      BY Added
    <3>. QED
      BY <2>0, <3>1
  <2>2. /\ \A i \in 1..Len(said) : said'[i] = said[i]
        /\ said'[Len(said) + 1] = t /\ DOMAIN said' = 1..(Len(said) + 1)
    <3>1. /\ \A i \in 1..Len(said) : AddTo(said, {t})[i] = said[i]
          /\ AddTo(said, {t})[Len(said) + 1] = t
          /\ DOMAIN AddTo(said, {t}) = 1..(Len(said) + 1)
      BY Added
    <3>. QED
      BY <2>0, <3>1
  <2>3. vs = IF c.Radio = r THEN us \cup {Len(cells) + 1} ELSE us
    <3>1. Usable(AddTo(cells, {c}), r)
            = IF c.Radio = r /\ c.HasID THEN Usable(cells, r) \cup {Len(cells) + 1} ELSE Usable(cells, r)
      BY UsableMore
    <3>. QED
      BY <1>6, <2>0, <3>1
  <2>4. es = IF t.Radio = r THEN ds \cup {Len(said) + 1} ELSE ds
    <3>1. 1..(Len(said) + 1) = (1..Len(said)) \cup {Len(said) + 1} /\ Len(said) + 1 \notin 1..Len(said)
      BY <1>1
    <3>. QED
      BY <1>1, <2>2, <3>1 DEF DescribedAs
  <2>. HIDE DEF us, ds, vs, es
  <2>5. /\ us # {} => Min(vs) = Min(us) /\ Min(us) \in us
        /\ us = {} /\ vs # {} => Min(vs) = Len(cells) + 1
    <3>1. vs = us \/ vs = us \cup {Len(cells) + 1}
      BY <2>3
    <3>. QED
      BY <1>1, <3>1, MinStays
  <2>6. /\ ds # {} => Min(es) = Min(ds) /\ Min(ds) \in ds
        /\ ds = {} /\ es # {} => Min(es) = Len(said) + 1
    <3>1. es = ds \/ es = ds \cup {Len(said) + 1}
      BY <2>4
    <3>. QED
      BY <1>1, <3>1, MinStays
  <2>7. vs = {} <=> es = {}
    BY <1>2, <1>6, <2>3, <2>4
  <2>8. ASSUME us # {} PROVE Tower(cells'[Min(vs)]) = said'[Min(es)]
    BY <1>1, <1>2, <2>1, <2>2, <2>5, <2>6, <2>8
  <2>9. ASSUME us = {}, vs # {} PROVE Tower(cells'[Min(vs)]) = said'[Min(es)]
    BY <1>2, <1>6, <2>1, <2>2, <2>5, <2>6, <2>7, <2>9
  <2>. QED
    BY <2>7, <2>8, <2>9 DEF vs, es
<1>. QED
  BY <1>4, <1>5, <1>6 DEF Agree

(* What is described once stays so, and what a line adds is of that line. *)
LEMMA SaidStep ==
  ASSUME NEW T, cells \in Seq(T), NEW U, said \in Seq(U), NEW line, NEW n \in Nat, Agree(line, n),
         \A i \in DOMAIN said : \E m \in Nat : OneLine(said[i], m),
         cells' = AddTo(cells, decode(splitFields(line, n))),
         said' = AddTo(said, Describes(line, n))
  PROVE  /\ \E V : cells' \in Seq(V)
         /\ \E V : said' \in Seq(V)
         /\ \A i \in DOMAIN said' : \E m \in Nat : OneLine(said'[i], m)
<1>. DEFINE cs == decode(splitFields(line, n))
            ts == Describes(line, n)
<1>1. cs = {} \/ \E c : cs = {c}
  BY DEF Agree
<1>2. ts = {} \/ \E t : ts = {t} /\ OneLine(t, n)
  BY DEF Agree
<1>. HIDE DEF cs, ts
<1>3. AddTo(cells, {}) = cells /\ AddTo(said, {}) = said
  BY DEF AddTo
<1>4. \E V : cells' \in Seq(V)
  <2>1. CASE cs = {}
    BY <1>3, <2>1 DEF cs
  <2>2. ASSUME NEW c, cs = {c} PROVE \E V : cells' \in Seq(V)
    <3>1. \E V : AddTo(cells, {c}) \in Seq(V)
      BY Added
    <3>2. cells' = AddTo(cells, {c})
      BY <2>2 DEF cs
    <3>. QED
      BY <3>1, <3>2
  <2>. QED
    BY <1>1, <2>1, <2>2
<1>5. CASE ts = {}
  <2>1. said' = said
    BY <1>3, <1>5 DEF ts
  <2>. QED
    BY <1>4, <2>1
<1>6. ASSUME NEW t, ts = {t}, OneLine(t, n)
      PROVE  /\ \E V : said' \in Seq(V)
             /\ \A i \in DOMAIN said' : \E m \in Nat : OneLine(said'[i], m)
  <2>1. said' = AddTo(said, {t})
    BY <1>6 DEF ts
  <2>2. \E V : AddTo(said, {t}) \in Seq(V)
    BY Added
  <2>3. /\ \A i \in 1..Len(said) : AddTo(said, {t})[i] = said[i]
        /\ AddTo(said, {t})[Len(said) + 1] = t
        /\ DOMAIN AddTo(said, {t}) = 1..(Len(said) + 1)
        /\ Len(said) \in Nat /\ DOMAIN said = 1..Len(said)
    BY Added
  <2>4. \A i \in 1..(Len(said) + 1) : i \in DOMAIN said \/ i = Len(said) + 1
    BY <2>3
  <2>5. ASSUME NEW i \in DOMAIN said' PROVE \E m \in Nat : OneLine(said'[i], m)
    <3>1. CASE i \in DOMAIN said
      <4>1. said'[i] = said[i]
        BY <2>1, <2>3, <3>1
      <4>. QED
        BY <3>1, <4>1
    <3>2. CASE i = Len(said) + 1
      <4>1. said'[i] = t
        BY <2>1, <2>3, <3>2
      <4>. QED
        BY <1>6, <4>1
    <3>. QED
      BY <2>1, <2>3, <2>4, <3>1, <3>2
  <2>. QED
    BY <2>1, <2>2, <2>5
<1>. QED
  BY <1>2, <1>4, <1>5, <1>6

(* At the end of the text, the first cell of the best technology is chosen. *)
LEMMA SelectRight ==
  ASSUME CellInv, Select
  PROVE  AnchorRight'
<1>. DEFINE lte == Usable(cells, RadioLTE)
            sa  == Usable(cells, RadioNR5GSA)
<1>1. /\ pc' = "done" /\ content' = content /\ said' = said
      /\ tower' = IF SelectGeolocatable(cells) = {} THEN NoTower
                  ELSE Tower(CHOOSE c \in SelectGeolocatable(cells) : TRUE)
  BY DEF Select
<1>2. Best' = Best
  BY <1>1 DEF Best, DescribedAs
<1>3. SelectGeolocatable(cells) = IF lte # {} THEN {cells[Min(lte)]}
                                  ELSE IF sa # {} THEN {cells[Min(sa)]} ELSE {}
  BY DEF SelectGeolocatable
<1>4. tower' = IF lte # {} THEN Tower(cells[Min(lte)])
               ELSE IF sa # {} THEN Tower(cells[Min(sa)]) ELSE NoTower
  <2>. HIDE DEF lte, sa
  <2>. QED
    BY <1>1, <1>3
<1>5. CASE content = "plain"
  <2>1. Match
    BY <1>5 DEF CellInv
  <2>2. /\ lte = {} <=> DescribedAs(RadioLTE) = {}
        /\ lte # {} => Tower(cells[Min(lte)]) = said[Min(DescribedAs(RadioLTE))]
    BY <2>1 DEF Match, Standard
  <2>3. /\ sa = {} <=> DescribedAs(RadioNR5GSA) = {}
        /\ sa # {} => Tower(cells[Min(sa)]) = said[Min(DescribedAs(RadioNR5GSA))]
    BY <2>1 DEF Match, Standard
  <2>. HIDE DEF lte, sa
  <2>4. tower' = Best
    BY <1>4, <2>2, <2>3 DEF Best
  <2>. QED
    BY <1>1, <1>2, <1>5, <2>4 DEF AnchorRight
<1>6. CASE content # "plain"
  <2>1. cells = <<>>
    BY <1>6 DEF CellInv
  <2>2. lte = {} /\ sa = {}
    BY <2>1 DEF Usable
  <2>. HIDE DEF lte, sa
  <2>3. tower' = NoTower
    BY <1>4, <2>2
  <2>. QED
    BY <1>1, <1>6, <2>3 DEF AnchorRight
<1>. QED
  BY <1>5, <1>6

LEMMA CellInit == Init => CellInv
<1>. SUFFICES ASSUME Init PROVE CellInv
  OBVIOUS
<1>1. <<>> \in Seq({})
  OBVIOUS
<1>2. pc = "run" /\ content = "other" /\ lines = 0 /\ cells = <<>> /\ said = <<>> /\ tower = NoTower
  BY DEF Init
<1>. QED
  BY <1>1, <1>2 DEF CellInv, AnchorRight, Contents

LEMMA CellStepKeeps == CellInv /\ [Next]_vars => CellInv'
<1>. SUFFICES ASSUME CellInv, [Next]_vars PROVE CellInv'
  OBVIOUS
<1>0. /\ lines \in Nat
      /\ pc = "run" => content = "other" /\ cells = <<>> /\ said = <<>>
      /\ content \in Contents
      /\ content # "plain" => cells = <<>>
      /\ content = "plain" => /\ \E T : cells \in Seq(T)
                              /\ \E T : said \in Seq(T)
                              /\ \A i \in DOMAIN said : \E n \in Nat : OneLine(said[i], n)
                              /\ Match
      /\ pc # "done" => tower = NoTower
  BY DEF CellInv
<1>1. CASE RunFails
  <2>1. pc = "run" /\ pc' = "done" /\ UNCHANGED <<content, lines, cells, tower, said>>
    BY <1>1 DEF RunFails
  <2>2. content # "plain" /\ tower = NoTower
    BY <1>0, <2>1
  <2>. QED
    BY <1>0, <2>1, <2>2 DEF CellInv, AnchorRight
<1>2. CASE GlModemRuns \/ UbusRuns
  <2>1. /\ pc = "run" /\ pc' = "parse"
        /\ lines' = lines /\ cells' = cells /\ tower' = tower /\ said' = said
    BY <1>2 DEF GlModemRuns, UbusRuns
  <2>2. cells = <<>> /\ said = <<>>
    BY <1>0, <2>1
  <2>3. \A r : Usable(cells', r) = {} /\ DescribedAs(r)' = {}
    BY <2>1, <2>2 DEF Usable, DescribedAs
  <2>4. Match'
    BY <2>3 DEF Match
  <2>5. <<>> \in Seq({})
    OBVIOUS
  <2>6. content' \in Contents
    BY <1>2 DEF GlModemRuns, UbusRuns, extractUbusAT, Contents
  <2>. QED
    BY <1>0, <2>1, <2>2, <2>4, <2>5, <2>6 DEF CellInv, AnchorRight
<1>3. ASSUME NEW line \in Line, ReadLine(line) PROVE CellInv'
  <2>1. PICK n \in Nat : n = lines + 1
    BY <1>0
  <2>2. /\ pc = "parse" /\ pc' = pc /\ content' = content /\ tower' = tower /\ lines' = n
        /\ cells' = AddTo(cells, decode(splitFields(line, n)))
        /\ said' = AddTo(said, Describes(line, n))
    BY <1>3, <2>1 DEF ReadLine
  <2>3. content # "other"
    <3>1. content = "other" => lines < 0
      BY <1>3 DEF ReadLine
    <3>. QED
      BY <1>0, <3>1
  <2>4. CASE content = "plain"
    <3>1. Agree(line, n)
      BY <2>4, LineRight
    <3>2. PICK T : cells \in Seq(T)
      BY <1>0, <2>4
    <3>3. PICK U : said \in Seq(U)
      BY <1>0, <2>4
    <3>4. /\ \E V : cells' \in Seq(V)
          /\ \E V : said' \in Seq(V)
          /\ \A i \in DOMAIN said' : \E m \in Nat : OneLine(said'[i], m)
      BY <1>0, <2>2, <2>4, <3>1, <3>2, <3>3, SaidStep
    <3>5. Match'
      BY <1>0, <2>2, <2>4, <3>1, <3>2, <3>3, MatchStep
    <3>6. \A i \in DOMAIN said' : \E m \in Nat : OneLine(said[i], m)'
      BY <3>4 DEF OneLine
    <3>. QED
      BY <1>0, <2>1, <2>2, <2>4, <3>4, <3>5, <3>6 DEF CellInv, AnchorRight
  <2>5. CASE content = "escaped"
    <3>1. decode(splitFields(line, n)) = {}
      BY <2>5, NoneEscaped
    <3>2. cells' = cells
      BY <2>2, <3>1 DEF AddTo
    <3>. QED
      BY <1>0, <2>1, <2>2, <2>5, <3>2 DEF CellInv, AnchorRight
  <2>. QED
    BY <1>0, <2>3, <2>4, <2>5 DEF Contents
<1>4. CASE Select
  <2>1. AnchorRight'
    BY <1>4, SelectRight
  <2>2. pc' = "done" /\ UNCHANGED <<content, lines, cells, said>>
    BY <1>4 DEF Select
  <2>3. Match => Match'
    BY <2>2 DEF Match, DescribedAs
  <2>. QED
    BY <1>0, <2>1, <2>2, <2>3 DEF CellInv
<1>5. CASE UNCHANGED vars
  <2>1. UNCHANGED <<pc, content, lines, cells, tower, said>>
    BY <1>5 DEF vars
  <2>. QED
    BY <1>0, <2>1 DEF CellInv, Match, DescribedAs, AnchorRight, Best
<1>. QED
  BY <1>1, <1>2, <1>3, <1>4, <1>5 DEF Next

(* The anchor is the tower that the modem described first of the best technology,
   and its identifiers are of one line; without a reply that can be read there is
   none: AnchorRight, of ServingCell by itself. *)
THEOREM Anchor == Spec => []AnchorRight
<1>1. CellInv => AnchorRight
  BY DEF CellInv
<1>. QED
  BY CellInit, CellStepKeeps, <1>1, PTL DEF Spec
-----------------------------------------------------------------------------
(* One resolve. *)

(* What the modem described is one line's tower, or none. *)
LEMMA DescribedIs ==
  ASSUME CellInv
  PROVE  /\ pc = "done" => tower = Described
         /\ Described = NoTower \/ \E n \in Nat : OneLine(Described, n)
<1>1. CASE content = "plain"
  <2>1. \A i \in DOMAIN said : \E n \in Nat : OneLine(said[i], n)
    BY <1>1 DEF CellInv
  <2>2. PICK U : said \in Seq(U)
    BY <1>1 DEF CellInv
  <2>3. DOMAIN said \in SUBSET Nat
    BY <2>2
  <2>4. \A r : DescribedAs(r) # {} => Min(DescribedAs(r)) \in DOMAIN said
    <3>1. \A r : DescribedAs(r) \in SUBSET DOMAIN said
      BY DEF DescribedAs
    <3>2. \A r : DescribedAs(r) \in SUBSET Nat
      BY <2>3, <3>1
    <3>. QED
      BY <3>1, <3>2, MinIn
  <2>5. Best = NoTower \/ \E i \in DOMAIN said : Best = said[i]
    BY <2>4 DEF Best
  <2>. QED
    BY <1>1, <2>1, <2>5 DEF Described, CellInv, AnchorRight
<1>2. CASE content # "plain"
  BY <1>2 DEF Described, CellInv, AnchorRight
<1>. QED
  BY <1>1, <1>2

LEMMA ResolutionStart == ResolutionInit => ResolutionInv
<1>. SUFFICES ASSUME ResolutionInit PROVE ResolutionInv
  OBVIOUS
<1>1. CellInv
  BY CellInit DEF ResolutionInit
<1>. QED
  BY <1>1 DEF ResolutionInit, ResolutionInv

LEMMA ResolutionStep == ResolutionInv /\ [ResolutionNext]_allVars => ResolutionInv'
<1>. SUFFICES ASSUME ResolutionInv, [ResolutionNext]_allVars PROVE ResolutionInv'
  OBVIOUS
<1>0. CellInv'
  <2>1. [Next]_vars
    BY DEF ResolutionNext, ScanReturns, CellStep, NothingToSend, Send, TransportFails,
           GoogleAnswers, UnwiredAnswers, Parsed, modem, vars, allVars
  <2>. QED
    BY <2>1, CellStepKeeps DEF ResolutionInv
<1>1. CASE ScanReturns
  <2>1. scan'.aps \in SUBSET APs /\ step = "scan" /\ step' = "cell"
        /\ UNCHANGED <<provider, request, answer, fix>>
    BY <1>1 DEF ScanReturns, outcome
  <2>. QED
    BY <1>0, <2>1 DEF ResolutionInv
<1>2. CASE CellStep
  <2>1. step = "cell" /\ UNCHANGED <<provider, step, scan, request, answer, fix>>
    BY <1>2 DEF CellStep, outcome
  <2>. QED
    BY <1>0, <2>1 DEF ResolutionInv
<1>3. CASE NothingToSend
  <2>1. step = "cell" /\ step' = "end" /\ UNCHANGED <<provider, scan, request, answer, fix>>
    BY <1>3 DEF NothingToSend, Fail
  <2>. QED
    BY <1>0, <2>1 DEF ResolutionInv
<1>4. CASE Send
  <2>1. /\ step = "cell" /\ step' = "sent" /\ pc = "done" /\ (HaveAPs \/ tower # NoTower)
        /\ UNCHANGED <<pc, content, lines, cells, tower, said>>
        /\ UNCHANGED <<provider, scan, answer, fix>> /\ request' = Asked
    BY <1>4 DEF Send, modem, outcome, Asked
  <2>2. Asked' = Asked /\ HaveAPs' = HaveAPs
    BY <2>1 DEF Asked, GoogleRequest, UnwiredRequest, Radio, RadioOf, HaveAPs
  <2>. QED
    BY <1>0, <2>1, <2>2 DEF ResolutionInv
<1>5. CASE TransportFails
  <2>1. /\ step = "sent" /\ step' = "end"
        /\ UNCHANGED <<pc, content, lines, cells, tower, said>>
        /\ UNCHANGED <<provider, scan, request, answer, fix>>
    BY <1>5 DEF TransportFails, Fail, modem
  <2>2. Asked' = Asked /\ HaveAPs' = HaveAPs
    BY <2>1 DEF Asked, GoogleRequest, UnwiredRequest, Radio, RadioOf, HaveAPs
  <2>. QED
    BY <1>0, <2>1, <2>2 DEF ResolutionInv
<1>6. ASSUME NEW a, NEW location, NEW class, Parsed(a, location, class), step = "sent"
      PROVE  /\ step' = "end" /\ answer' = a /\ provider' = provider
             /\ scan' = scan /\ request' = Asked' /\ pc' = "done" /\ (HaveAPs \/ tower # NoTower)'
             /\ Outcome(location, class)'
  <2>1. /\ step' = "end" /\ answer' = a
        /\ UNCHANGED <<pc, content, lines, cells, tower, said>>
        /\ UNCHANGED <<provider, scan, request>>
    BY <1>6 DEF Parsed, Fail, modem
  <2>2. Asked' = Asked /\ HaveAPs' = HaveAPs /\ \A loc : FixOf(loc)' = FixOf(loc)
    BY <2>1 DEF Asked, GoogleRequest, UnwiredRequest, Radio, RadioOf, HaveAPs, FixOf
  <2>3. fix = {} /\ request = Asked /\ pc = "done" /\ (HaveAPs \/ tower # NoTower)
    BY <1>6 DEF ResolutionInv
  <2>4. Outcome(location, class)'
    <3>1. CASE location = {}
      BY <1>6, <2>3, <3>1 DEF Parsed, Fail, Outcome
    <3>2. CASE location # {}
      BY <1>6, <2>2, <3>2 DEF Parsed, Outcome
    <3>. QED
      BY <3>1, <3>2
  <2>. QED
    BY <2>1, <2>2, <2>3, <2>4
<1>7. CASE GoogleAnswers
  <2>1. PICK a \in GoogleAnswer : Parsed(a, GoogleLocation(a), GoogleFailure(a))
    BY <1>7 DEF GoogleAnswers
  <2>2. step = "sent" /\ provider = "google"
    BY <1>7 DEF GoogleAnswers
  <2>3. /\ step' = "end" /\ answer' = a /\ provider' = provider
        /\ scan' = scan /\ request' = Asked' /\ pc' = "done" /\ (HaveAPs \/ tower # NoTower)'
        /\ Outcome(GoogleLocation(a), GoogleFailure(a))'
    BY <1>6, <2>1, <2>2
  <2>. QED
    BY <1>0, <2>2, <2>3 DEF ResolutionInv, Outcome
<1>8. CASE UnwiredAnswers
  <2>1. PICK a \in UnwiredAnswer : Parsed(a, UnwiredLocation(a), UnwiredFailure(a))
    BY <1>8 DEF UnwiredAnswers
  <2>2. step = "sent" /\ provider = "unwiredlabs"
    BY <1>8 DEF UnwiredAnswers
  <2>3. /\ step' = "end" /\ answer' = a /\ provider' = provider
        /\ scan' = scan /\ request' = Asked' /\ pc' = "done" /\ (HaveAPs \/ tower # NoTower)'
        /\ Outcome(UnwiredLocation(a), UnwiredFailure(a))'
    BY <1>6, <2>1, <2>2
  <2>. QED
    BY <1>0, <2>2, <2>3 DEF ResolutionInv, Outcome
<1>9. CASE UNCHANGED allVars
  <2>1. /\ UNCHANGED <<pc, content, lines, cells, tower, said>>
        /\ UNCHANGED <<provider, step, scan, request, answer, fix, failure>>
    BY <1>9 DEF allVars, modem, outcome
  <2>2. Asked' = Asked /\ HaveAPs' = HaveAPs /\ \A loc : FixOf(loc)' = FixOf(loc)
    BY <2>1 DEF Asked, GoogleRequest, UnwiredRequest, Radio, RadioOf, HaveAPs, FixOf
  <2>3. \A location, class : Outcome(location, class) => Outcome(location, class)'
    BY <2>1, <2>2 DEF Outcome
  <2>. QED
    BY <1>0, <2>1, <2>2, <2>3 DEF ResolutionInv
<1>. QED
  BY <1>1, <1>2, <1>3, <1>4, <1>5, <1>7, <1>8, <1>9 DEF ResolutionNext

THEOREM Resolving == ResolutionSpec => []ResolutionInv
BY ResolutionStart, ResolutionStep, PTL DEF ResolutionSpec

(* The same of one resolve: AnchorRight, as the run checks it. *)
THEOREM AnchorOfResolve == ResolutionSpec => []AnchorRight
<1>1. ResolutionInv => AnchorRight
  BY DEF ResolutionInv, CellInv
<1>. QED
  BY Resolving, <1>1, PTL

LEMMA CountOfScan ==
  ASSUME ResolutionInv
  PROVE  Cardinality(scan.aps) \in Nat
<1>1. IsFiniteSet(scan.aps)
  BY ResolutionAssumption, FS_Subset DEF ResolutionInv
<1>. QED
  BY <1>1, FS_CardinalityType

LEMMA AskedIsRight ==
  ASSUME ResolutionInv, request = Asked, pc = "done"
  PROVE  RequestTells
<1>. DEFINE google == provider = "google"
            towers == IF google THEN request.cellTowers ELSE request.cells
            aps == IF google THEN request.wifiAccessPoints ELSE request.wifi
            d == Described
<1>0. provider \in {"google", "unwiredlabs"}
  BY DEF ResolutionInv
<1>1. tower = d /\ (d = NoTower \/ \E n \in Nat : OneLine(d, n))
  BY DescribedIs DEF ResolutionInv
<1>2. aps = IF scan.err \/ Cardinality(scan.aps) < MinAPs THEN {} ELSE scan.aps
  <2>1. HaveAPs <=> ~(scan.err \/ Cardinality(scan.aps) < MinAPs)
    BY CountOfScan, ResolutionAssumption DEF HaveAPs
  <2>2. aps = IF HaveAPs THEN scan.aps ELSE {}
    BY <1>0 DEF Asked, GoogleRequest, UnwiredRequest
  <2>. QED
    BY <2>1, <2>2
<1>. HIDE DEF d
<1>3. request.radio = CASE d.Radio = "LTE" -> "lte"
                        [] d.Radio = "NR5G-SA" -> "nr"
                        [] OTHER -> "none"
  <2>1. request.radio = Radio
    BY <1>0 DEF Asked, GoogleRequest, UnwiredRequest
  <2>2. CASE d = NoTower
    <3>1. d.Radio = "none" /\ Radio = "none"
      BY <1>1, <2>2 DEF Radio, NoTower
    <3>. QED
      BY <2>1, <3>1
  <2>3. CASE d # NoTower
    <3>1. d.Radio \in {"LTE", "NR5G-SA"}
      BY <1>1, <2>3 DEF OneLine, Standard, RadioLTE, RadioNR5GSA
    <3>2. Radio = IF d.Radio = "LTE" THEN "lte" ELSE "nr"
      BY <1>1, <2>3, <3>1 DEF Radio, RadioOf, RadioNR5GNSA, RadioNR5GSA
    <3>. QED
      BY <2>1, <3>1, <3>2
  <2>. QED
    BY <2>2, <2>3
<1>. DEFINE gt == [cellId |-> d.CID, locationAreaCode |-> d.TAC, mobileCountryCode |-> d.MCC,
                   mobileNetworkCode |-> d.MNC, signalStrength |-> d.Signal]
            ut == [lac |-> d.TAC, cid |-> d.CID, mcc |-> d.MCC, mnc |-> d.MNC, signal |-> d.Signal]
<1>4. towers = IF d = NoTower THEN {} ELSE IF google THEN {gt} ELSE {ut}
  BY <1>0, <1>1 DEF Asked, GoogleRequest, UnwiredRequest
<1>5. Cardinality(towers) = IF d = NoTower THEN 0 ELSE 1
  <2>1. Cardinality({}) = 0 /\ Cardinality({gt}) = 1 /\ Cardinality({ut}) = 1
    BY FS_EmptySet, FS_Singleton
  <2>. HIDE DEF gt, ut, towers
  <2>. QED
    BY <1>4, <2>1
<1>6. CASE d = NoTower
  <2>1. towers = {}
    BY <1>4, <1>6
  <2>. QED
    BY <1>2, <1>3, <1>5, <1>6, <2>1 DEF RequestTells, d
<1>7. CASE d # NoTower
  <2>1. PICK n \in Nat : OneLine(d, n)
    BY <1>1, <1>7
  <2>2. /\ d.CID = [of |-> "CID", line |-> d.CID.line] /\ d.TAC = [of |-> "TAC", line |-> d.CID.line]
        /\ d.MCC = [of |-> "MCC", line |-> d.CID.line] /\ d.MNC = [of |-> "MNC", line |-> d.CID.line]
    BY <2>1 DEF OneLine
  <2>3. Intact(gt, DOMAIN gt)
    BY <2>2 DEF Intact, Meaning, d
  <2>4. Intact(ut, DOMAIN ut)
    BY <2>2 DEF Intact, Meaning, d
  <2>5. ~google => request.mcc = d.MCC /\ request.mnc = d.MNC
    BY <1>0, <1>1 DEF Asked, UnwiredRequest
  <2>6. ~google => Intact(request, {"mcc", "mnc"})
    <3>1. Meaning["mcc"] = "MCC" /\ Meaning["mnc"] = "MNC"
      BY DEF Meaning
    <3>. QED
      BY <2>2, <2>5, <3>1 DEF Intact, d
  <2>7. \A t \in towers : Intact(t, DOMAIN t)
    <3>. HIDE DEF gt, ut, towers
    <3>. QED
      BY <1>4, <2>3, <2>4
  <2>. QED
    BY <1>2, <1>3, <1>5, <1>7, <2>6, <2>7 DEF RequestTells, d
<1>. QED
  BY <1>6, <1>7

(* The provider is asked about what the modem and the scan said, and about nothing
   else (both clients, resolve, qeng): RequestTells. *)
THEOREM Tells == ResolutionSpec => []RequestTells
<1>1. ResolutionInv => RequestTells
  <2>. SUFFICES ASSUME ResolutionInv PROVE RequestTells
    OBVIOUS
  <2>1. CASE request = Unsent
    BY <2>1 DEF RequestTells
  <2>2. CASE request = Asked /\ pc = "done"
    BY <2>2, AskedIsRight
  <2>. QED
    BY <2>1, <2>2 DEF ResolutionInv
<1>. QED
  BY Resolving, <1>1, PTL

(* A location has the coordinates of its answer. *)
Same(loc, a) ==
  /\ loc.lat = "given" <=> a.lat = "given"
  /\ loc.lon = "given" <=> a.lon = "given"

(* The location that a client takes out of an answer: there is one if and only if
   the code is 200 and the answer has it, and it has the answer's coordinates. *)
LEMMA Located ==
  /\ \A a \in GoogleAnswer : /\ GoogleLocation(a) # {} <=> a.code = 200 /\ a.location
                             /\ \A loc \in GoogleLocation(a) : Same(loc, a)
  /\ \A a \in UnwiredAnswer :
       /\ UnwiredLocation(a) # {} <=> /\ a.code = 200 /\ a.json /\ a.status = "ok"
                                      /\ {a.lat, a.lon} = {"given"}
       /\ \A loc \in UnwiredLocation(a) : Same(loc, a)
<1>1. \A a \in GoogleAnswer : GoogleLocation(a) # {} <=> a.code = 200 /\ a.location
  BY DEF GoogleLocation
<1>2. \A a \in GoogleAnswer : \A loc \in GoogleLocation(a) : Same(loc, a)
  BY DEF GoogleLocation, Same
<1>3. ASSUME NEW a \in UnwiredAnswer
      PROVE  /\ UnwiredLocation(a) # {} <=> /\ a.code = 200 /\ a.json /\ a.status = "ok"
                                            /\ {a.lat, a.lon} = {"given"}
             /\ \A loc \in UnwiredLocation(a) : Same(loc, a)
  <2>1. {a.lat, a.lon} = {"given"} <=> a.lat = "given" /\ a.lon = "given"
    OBVIOUS
  <2>2. \A loc \in UnwiredLocation(a) : Same(loc, a)
    BY DEF UnwiredLocation, Same
  <2>. QED
    BY <2>1, <2>2 DEF UnwiredLocation
<1>. QED
  BY <1>1, <1>2, <1>3

(* A fix comes only of an answer that has a location, and every such answer gives
   one; it has the coordinates that the answer has and names the anchor of the
   request (both ParseResponse, resolve): FixFromAnswer. *)
THEOREM Fixes == ResolutionSpec => []FixFromAnswer
<1>1. ResolutionInv => FixFromAnswer
  <2>. SUFFICES ASSUME ResolutionInv, step = "end" PROVE FixFromAnswer
    BY DEF FixFromAnswer
  <2>. DEFINE located == /\ answer.code = 200
                         /\ IF provider = "google" THEN answer.location
                            ELSE /\ answer.json /\ answer.status = "ok"
                                 /\ {answer.lat, answer.lon} = {"given"}
              named(f) == IF f.source = "wifi" THEN f.APCount = Cardinality(scan.aps) /\ f.APCount >= MinAPs
                          ELSE f.cell = [Described EXCEPT !.Signal = Absent] /\ Described # NoTower
  <2>1. CASE answer = Unanswered /\ fix = {}
    <3>1. answer.code # 200
      BY <2>1 DEF Unanswered
    <3>. QED
      BY <2>1, <3>1 DEF FixFromAnswer
  <2>2. ASSUME pc = "done", HaveAPs \/ tower # NoTower, NEW loc
        PROVE  named(FixOf(loc)) /\ FixOf(loc).lat = loc.lat /\ FixOf(loc).lon = loc.lon
    <3>1. tower = Described
      BY <2>2, DescribedIs DEF ResolutionInv
    <3>2. CASE HaveAPs
      BY <3>2 DEF FixOf, HaveAPs
    <3>3. CASE ~HaveAPs
      BY <2>2, <3>1, <3>3 DEF FixOf
    <3>. QED
      BY <3>2, <3>3
  <2>3. ASSUME pc = "done", HaveAPs \/ tower # NoTower, NEW location,
               fix = {FixOf(loc) : loc \in location}, location # {} <=> located,
               \A loc \in location : Same(loc, answer)
        PROVE  FixFromAnswer
    <3>1. \A f \in fix : named(f) /\ Same(f, answer)
      <4>1. ASSUME NEW f \in fix PROVE named(f) /\ Same(f, answer)
        <5>1. PICK loc \in location : f = FixOf(loc)
          BY <2>3
        <5>2. named(f) /\ f.lat = loc.lat /\ f.lon = loc.lon
          BY <2>2, <2>3, <5>1
        <5>. QED
          BY <2>3, <5>2 DEF Same
      <4>. QED
        BY <4>1
    <3>2. fix = {} <=> ~located
      BY <2>3
    <3>. QED
      BY <3>1, <3>2 DEF FixFromAnswer, Same
  <2>4. CASE /\ pc = "done" /\ (HaveAPs \/ tower # NoTower)
             /\ provider = "google" /\ answer \in GoogleAnswer
             /\ Outcome(GoogleLocation(answer), GoogleFailure(answer))
    <3>1. /\ GoogleLocation(answer) # {} <=> located
          /\ \A loc \in GoogleLocation(answer) : Same(loc, answer)
      BY <2>4, Located
    <3>. QED
      BY <2>3, <2>4, <3>1 DEF Outcome
  <2>5. CASE /\ pc = "done" /\ (HaveAPs \/ tower # NoTower)
             /\ provider = "unwiredlabs" /\ answer \in UnwiredAnswer
             /\ Outcome(UnwiredLocation(answer), UnwiredFailure(answer))
    <3>1. /\ UnwiredLocation(answer) # {} <=> located
          /\ \A loc \in UnwiredLocation(answer) : Same(loc, answer)
      BY <2>5, Located
    <3>. QED
      BY <2>3, <2>5, <3>1 DEF Outcome
  <2>. QED
    BY <2>1, <2>4, <2>5 DEF ResolutionInv
<1>. QED
  BY Resolving, <1>1, PTL

LEMMA CodesApart ==
  ASSUME NEW code, NEW full \in BOOLEAN, code = 429 \/ (code = 403 /\ full)
  PROVE  /\ code # 200 /\ code # 404
         /\ code = 429 \/ (code # 404 /\ full)
         /\ ~(code \in {400, 403} /\ ~full)
<1>1. code = 429 => code # 200 /\ code # 404 /\ code \notin {400, 403}
  OBVIOUS
<1>2. code = 403 => code # 200 /\ code # 404
  OBVIOUS
<1>. QED
  BY <1>1, <1>2

(* What Google's ParseResponse makes of a used-up quota. *)
LEMMA CapOfGoogle ==
  ASSUME NEW a
  PROVE  a.code = 429 \/ (a.code = 403 /\ a.reason = "limit exceeded") =>
           GoogleLocation(a) = {} /\ GoogleFailure(a) = "rate limited"
<1>. DEFINE code == a.code
            full == a.reason = "limit exceeded"
            unknown == code = 404
            capped == code = 429 \/ (code # 404 /\ full)
            refused == code \in {400, 403} /\ ~full
<1>1. GoogleFailure(a) = CASE unknown -> "not found"
                           [] capped -> "rate limited"
                           [] refused -> "auth"
                           [] OTHER -> "server"
  BY DEF GoogleFailure
<1>2. GoogleLocation(a) = IF code = 200 /\ a.location THEN GoogleLocation(a) ELSE {}
  BY DEF GoogleLocation
<1>3. full \in BOOLEAN
  OBVIOUS
<1>. HIDE DEF code, full
<1>4. ASSUME code = 429 \/ (code = 403 /\ full)
      PROVE  code # 200 /\ ~unknown /\ capped /\ ~refused
  BY <1>3, <1>4, CodesApart
<1>. HIDE DEF unknown, capped, refused
<1>5. code = 429 \/ (code = 403 /\ full) => GoogleLocation(a) = {} /\ GoogleFailure(a) = "rate limited"
  BY <1>1, <1>2, <1>4
<1>. QED
  BY <1>5 DEF code, full

(* A used-up quota is reported as that, however the provider says so (both
   ParseResponse, classify): QuotaNamed. *)
THEOREM Quota == ResolutionSpec => []QuotaNamed
<1>1. ResolutionInv => QuotaNamed
  <2>. SUFFICES ASSUME ResolutionInv, step = "end", answer # Unanswered PROVE QuotaNamed
    BY DEF QuotaNamed
  <2>1. CASE /\ provider = "google" /\ answer \in GoogleAnswer
             /\ Outcome(GoogleLocation(answer), GoogleFailure(answer))
    <3>1. ASSUME answer.code = 429 \/ (answer.code = 403 /\ answer.reason = "limit exceeded")
          PROVE  failure = "rate limited"
      <4>1. GoogleLocation(answer) = {} /\ GoogleFailure(answer) = "rate limited"
        BY <3>1, CapOfGoogle
      <4>. QED
        BY <2>1, <4>1 DEF Outcome
    <3>. QED
      BY <2>1, <3>1 DEF QuotaNamed
  <2>2. CASE /\ provider = "unwiredlabs" /\ answer \in UnwiredAnswer
             /\ Outcome(UnwiredLocation(answer), UnwiredFailure(answer))
    <3>1. ASSUME \/ answer.code = 429
                 \/ answer.code = 200 /\ answer.json /\ answer.status = "error"
                    /\ answer.message = {"credit"}
          PROVE  failure = "rate limited"
      <4>1. UnwiredLocation(answer) = {}
        BY <3>1 DEF UnwiredLocation
      <4>2. UnwiredFailure(answer) = "rate limited"
        BY <3>1 DEF UnwiredFailure, classify
      <4>. QED
        BY <2>2, <4>1, <4>2 DEF Outcome
    <3>. QED
      BY <2>2, <3>1 DEF QuotaNamed
  <2>. QED
    BY <2>1, <2>2 DEF ResolutionInv
<1>. QED
  BY Resolving, <1>1, PTL
=============================================================================
