---------------------------- MODULE ServingCell ----------------------------
(***************************************************************************)
(* ServingCellReader.ServingCell: runs AT+QENG="servingcell", decodes the  *)
(* +QENG lines of the reply and returns the cell to anchor a request with. *)
(*                                                                         *)
(* A field of a line is not text here but which field the modem meant, of  *)
(* which line, and which digits it has. So a decoder that reads the wrong  *)
(* field or mixes lines is told from one that reads the right one. Lines   *)
(* without +QENG (echo, OK) are skipped by the code and left out.          *)
(***************************************************************************)
EXTENDS Integers, FiniteSetsExt, SequencesExt

CONSTANTS
    MaxLines,  \* bound: +QENG lines in a reply
    MaxJunk    \* bound: fields of a line with neither decimal nor hex digits

ASSUME ServingCellAssumption == MaxLines \in Nat /\ MaxJunk \in Nat

RadioLTE == "LTE"
RadioNR5GNSA == "NR5G-NSA"
RadioNR5GSA == "NR5G-SA"
servingCellPrefix == "servingcell"

\* The fields a modem sends for each technology, as the package comment of qeng
\* lists them; a technology the package does not know has some other fields.
Format ==
    [radio \in {RadioLTE, RadioNR5GNSA, RadioNR5GSA, "WCDMA"} |->
       CASE radio = RadioLTE ->
              <<"LTE", "duplex", "MCC", "MNC", "CID", "PCID", "EARFCN", "band", "UL",
                "DL", "TAC", "RSRP", "RSRQ">>
         [] radio = RadioNR5GNSA -> <<"NR5G-NSA", "MCC", "MNC", "PCID", "RSRP", "SINR">>
         [] radio = RadioNR5GSA ->
              <<"NR5G-SA", "duplex", "MCC", "MNC", "CID", "PCID", "TAC", "ARFCN">>
         [] radio = "WCDMA" -> <<"WCDMA", "MCC", "MNC", "LAC", "CID", "UARFCN", "PSC">>]

\* A line may lack its prefix, end early, and have unreadable numbers.
Line == UNION {[radio : {r}, prefix : BOOLEAN, len : 0..Len(Format[r]) + 2,
                junk : {J \in SUBSET {"MCC", "MNC", "CID", "TAC", "RSRP"} :
                          Cardinality(J) <= MaxJunk}] : r \in DOMAIN Format}

Absent == [of |-> "absent", line |-> 0]  \* the zero value

\* What Run makes of a reply: the modem's text, that text as a JSON string with
\* its quotes escaped, or another text.
Contents == {"plain", "escaped", "other"}

NoTower == [Radio |-> "none", MCC |-> Absent, MNC |-> Absent, CID |-> Absent,
            TAC |-> Absent, Signal |-> Absent]

VARIABLES
    pc,       \* "run", "parse" or "done"
    content,  \* what Run returned
    lines,    \* how many +QENG lines were read
    cells,    \* ParseServingCell's result so far
    tower,    \* what ServingCell returned; NoTower if ok is false
    said      \* history: the towers that the lines read so far describe

vars == <<pc, content, lines, cells, tower, said>>

-----------------------------------------------------------------------------

Names(line) == (IF line.prefix THEN <<servingCellPrefix, "state">> ELSE <<>>)
               \o Format[line.radio]

\* Those that came before the line ended.
Sent(line) == SubSeq(Names(line), 1, Min({line.len, Len(Names(line))}))

Digits(line, name) ==
    IF name \in {"CID", "TAC"} \ line.junk THEN "hex"
    ELSE IF name \in {"MCC", "MNC", "PCID", "EARFCN", "band", "UL", "DL", "RSRP", "RSRQ"}
                     \ line.junk THEN "dec"
    ELSE "junk"

\* splitFields: the fields of a line, which is the n-th. An empty body has one,
\* empty, field; an escaped quote is not trimmed.
splitFields(line, n) ==
    IF Sent(line) = <<>> THEN <<[of |-> "", line |-> n, digits |-> "junk"]>>
    ELSE [i \in DOMAIN Sent(line) |->
            [of |-> IF content = "escaped" THEN "quoted" ELSE Sent(line)[i],
             line |-> n, digits |-> Digits(line, Sent(line)[i])]]

isDec(field) == field.digits = "dec"
isHex(field) == field.digits \in {"dec", "hex"}
Value(field) == [of |-> field.of, line |-> field.line]

\* Which of the IDs of a line are decoded: both or none.
IDs(ids) == IF \A id \in ids : isHex(id) THEN ids ELSE {}

\* A line that may carry IDs. The positions are those of the CID, the TAC, which
\* is the last that must be there, and the RSRP. The result is a set: empty if
\* the line does not decode.
WithIDs(f, cid, tac, rsrp) ==
    IF Len(f) < tac \/ ~isDec(f[3]) \/ ~isDec(f[4]) THEN {}
    ELSE LET ids == IDs({f[cid], f[tac]}) IN
         {[Radio |-> f[1].of, MCC |-> Value(f[3]), MNC |-> Value(f[4]),
           CID |-> IF f[cid] \in ids THEN Value(f[cid]) ELSE Absent,
           TAC |-> IF f[tac] \in ids THEN Value(f[tac]) ELSE Absent,
           Signal |-> IF rsrp \in DOMAIN f /\ isDec(f[rsrp]) THEN Value(f[rsrp]) ELSE Absent,
           HasID |-> ids # {}]}

NSA(f) ==
    IF Len(f) < 3 \/ ~isDec(f[2]) \/ ~isDec(f[3]) THEN {}
    ELSE {[Radio |-> RadioNR5GNSA, MCC |-> Value(f[2]), MNC |-> Value(f[3]),
           CID |-> Absent, TAC |-> Absent, Signal |-> Absent, HasID |-> FALSE]}

\* The fields without the prefix and the state.
Body(g) == IF g[1].of = servingCellPrefix THEN SubSeq(g, 3, Len(g)) ELSE g

\* Positions count from 1, those of the code from 0.
decode(g) ==
    LET f == Body(g)
    IN  CASE f = <<>> -> {}
          [] f # <<>> /\ f[1].of = RadioLTE -> WithIDs(f, 5, 11, 12)
          [] f # <<>> /\ f[1].of = RadioNR5GNSA -> NSA(f)
          [] f # <<>> /\ f[1].of = RadioNR5GSA -> WithIDs(f, 5, 7, 0)
          [] OTHER -> {}

\* The first cell of the best technology. Mutant: the first of any.
SelectFirst(cs) ==
    LET usable == {i \in DOMAIN cs : cs[i].HasID}
    IN  IF usable = {} THEN {} ELSE {cs[Min(usable)]}

Usable(cs, radio) == {i \in DOMAIN cs : cs[i].Radio = radio /\ cs[i].HasID}

SelectGeolocatable(cs) ==
    LET lte == Usable(cs, RadioLTE)
        sa  == Usable(cs, RadioNR5GSA)
    IN  CASE lte # {} -> {cs[Min(lte)]}
          [] lte = {} /\ sa # {} -> {cs[Min(sa)]}
          [] OTHER -> {}

\* The geoloc.CellTower of a cell.
Tower(c) == [x \in DOMAIN NoTower |-> c[x]]

\* The text taken from a ubus reply that is a JSON object m: the first known key
\* with a non-empty string, else the reply as it is. A key that is absent or not
\* a string counts as empty.
KnownKeys == <<"result", "data", "value", "AT", "at">>

Replies == [ToSet(KnownKeys) \cup {"reply"} -> {"", "modem's text", "status"}]

extractUbusAT(m) ==
    LET hits == {i \in DOMAIN KnownKeys : m[KnownKeys[i]] # ""}
    IN  CASE hits = {} -> "escaped"
          [] hits # {} /\ m[KnownKeys[Min(hits)]] = "modem's text" -> "plain"
          [] OTHER -> "other"

-----------------------------------------------------------------------------

Init ==
    /\ pc = "run" /\ content = "other" /\ lines = 0
    /\ cells = <<>> /\ tower = NoTower /\ said = <<>>

\* Runner.Run fails: there is no cell.
RunFails ==
    /\ pc = "run"
    /\ pc' = "done"
    /\ UNCHANGED <<content, lines, cells, tower, said>>

\* GlModem.Run returns the output, Ubus.Run what extractUbusAT finds in it.
GlModemRuns ==
    /\ pc = "run"
    /\ pc' = "parse" /\ content' = "plain"
    /\ UNCHANGED <<lines, cells, tower, said>>

UbusRuns ==
    /\ pc = "run"
    /\ pc' = "parse"
    /\ \/ content' = "plain"
       \/ \E m \in Replies : content' = extractUbusAT(m)
    /\ UNCHANGED <<lines, cells, tower, said>>

\* The tower that a line describes, by the names of its fields; a set.
Describes(line, n) ==
    LET has == ToSet(Sent(line)) \ line.junk
        Name(x) == IF x \in has THEN [of |-> x, line |-> n] ELSE Absent
    IN  IF line.radio \in {RadioLTE, RadioNR5GSA} /\ {"MCC", "MNC", "CID", "TAC"} \subseteq has
          THEN {[Radio |-> line.radio, MCC |-> Name("MCC"), MNC |-> Name("MNC"),
                 CID |-> Name("CID"), TAC |-> Name("TAC"), Signal |-> Name("RSRP")]}
          ELSE {}

\* A sequence with what was found, if anything, at its end.
AddTo(seq, found) == IF found = {} THEN seq ELSE Append(seq, CHOOSE x \in found : TRUE)

\* One iteration of ParseServingCell's loop. A JSON string is one line.
ReadLine(line) ==
    /\ pc = "parse"
    /\ lines < (CASE content = "plain" -> MaxLines
                  [] content = "escaped" -> 1
                  [] content = "other" -> 0)
    /\ lines' = lines + 1
    /\ cells' = AddTo(cells, decode(splitFields(line, lines')))
    /\ said' = AddTo(said, Describes(line, lines'))
    /\ UNCHANGED <<pc, content, tower>>

\* The text ends: without cells ParseServingCell returns ErrNoCells.
Select ==
    /\ pc = "parse"
    /\ pc' = "done"
    /\ tower' = IF SelectGeolocatable(cells) = {} THEN NoTower
                ELSE Tower(CHOOSE c \in SelectGeolocatable(cells) : TRUE)
    /\ UNCHANGED <<content, lines, cells, said>>

Next ==
    \/ RunFails
    \/ GlModemRuns
    \/ UbusRuns
    \/ \E line \in Line : ReadLine(line)
    \/ Select

Spec == Init /\ [][Next]_vars

-----------------------------------------------------------------------------

DescribedAs(radio) == {i \in DOMAIN said : said[i].Radio = radio}

\* The best of the towers described: the first of LTE, else the first of SA.
Best ==
    IF DescribedAs(RadioLTE) # {} THEN said[Min(DescribedAs(RadioLTE))]
    ELSE IF DescribedAs(RadioNR5GSA) # {} THEN said[Min(DescribedAs(RadioNR5GSA))]
    ELSE NoTower

\* The anchor of a request is the one the modem described: its identifiers are
\* those of one line, none is taken from the field beside it or from a line that
\* ended early or has none (NSA), LTE goes before SA whatever the order of the
\* lines, and if any line is intact there is an anchor. Without a reply that can
\* be read there is none: that includes the JSON body that extractUbusAT falls
\* back to, in which the lines' quotes are escaped and no line decodes.
AnchorRight == pc = "done" => tower = IF content = "plain" THEN Best ELSE NoTower

=============================================================================
