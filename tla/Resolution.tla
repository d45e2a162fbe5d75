----------------------------- MODULE Resolution -----------------------------
(***************************************************************************)
(* One Source.resolve from the modem's text to the fix: the scan, the      *)
(* serving cell (ServingCell, of which every step is a step here), the     *)
(* request that a provider's client builds of them, and what ParseResponse *)
(* makes of the answer.                                                    *)
(*                                                                         *)
(* A request is a record of its JSON fields; Absent is one that is left    *)
(* out because it is zero (omitempty). An answer, external, is its code    *)
(* and what the parsers look at in its body. A coordinate is "given" or    *)
(* "missing" (absent, null, or for Google not a number); the location has  *)
(* it, or "zero".                                                          *)
(***************************************************************************)
EXTENDS ServingCell

CONSTANTS APs,     \* access points that may be scanned
          MinAPs   \* wifi_min_aps

ASSUME ResolutionAssumption == IsFiniteSet(APs) /\ MinAPs \in Nat \ {0}

VARIABLES
    provider,  \* the Resolver: "google" or "unwiredlabs"
    step,      \* "scan", "cell", "sent" or "end"
    scan,      \* what Scanner.Scan returned
    request,   \* the body sent, or Unsent
    answer,    \* the answer, or Unanswered
    fix,       \* the fix as a set, empty if resolve failed
    failure    \* the class of resolve's error, or "none"

modem == <<pc, content, lines, cells, tower, said>>
outcome == <<fix, failure>>
allVars == <<modem, provider, step, scan, request, answer, outcome>>

Unsent == [radio |-> "none"]
Unanswered == [code |-> 0]

-----------------------------------------------------------------------------
(* The clients. *)

\* radioType and radioParam. Mutant: only the non-standalone technology is new
\* radio.
RadioOfNSA(radio) == IF radio = RadioNR5GNSA THEN "nr" ELSE "lte"

RadioOf(radio) == IF radio \in {RadioNR5GNSA, RadioNR5GSA} THEN "nr" ELSE "lte"

Radio == IF tower = NoTower THEN "none" ELSE RadioOf(tower.Radio)

GoogleRequest(aps) ==
    [radio |-> Radio, wifiAccessPoints |-> aps,
     cellTowers |-> IF tower = NoTower THEN {}
                    ELSE {[cellId |-> tower.CID, locationAreaCode |-> tower.TAC,
                           mobileCountryCode |-> tower.MCC, mobileNetworkCode |-> tower.MNC,
                           signalStrength |-> tower.Signal]}]

UnwiredRequest(aps) ==
    [radio |-> Radio, wifi |-> aps, mcc |-> tower.MCC, mnc |-> tower.MNC,
     cells |-> IF tower = NoTower THEN {}
               ELSE {[lac |-> tower.TAC, cid |-> tower.CID, mcc |-> tower.MCC,
                      mnc |-> tower.MNC, signal |-> tower.Signal]}]

\* The codes that the parsers tell apart.
Codes == {200, 400, 401, 403, 404, 429, 503}
Coordinate == {"given", "missing"}

\* Google: a body has a location object or not, and a reason for an error.
GoogleAnswer ==
    [code : {200}, location : BOOLEAN, lat : Coordinate, lon : Coordinate, reason : {""}]
    \cup [code : Codes \ {200}, location : {FALSE}, lat : {"missing"}, lon : {"missing"},
          reason : {"", "limit exceeded", "other"}]

\* Unwired Labs: the body, which is not looked at unless the code is 200, is JSON
\* or not, and an error's message speaks of some of these.
UnwiredAnswer ==
    [code : {200}, json : BOOLEAN, status : {"ok", "error", "other"},
     lat : Coordinate, lon : Coordinate, message : SUBSET {"token", "credit"}]
    \cup [code : Codes \ {200}, json : {FALSE}, status : {"other"},
          lat : {"missing"}, lon : {"missing"}, message : {{}}]

\* ParseResponse: the location as a set, and the class of the error otherwise.
GoogleLocation(a) ==
    IF a.code = 200 /\ a.location
    THEN {[lat |-> IF a.lat = "given" THEN "given" ELSE "zero",
           lon |-> IF a.lon = "given" THEN "given" ELSE "zero"]}
    ELSE {}

\* Mutant: the code decides before the reason does.
GoogleFailureByCode(a) ==
    CASE a.code = 200 -> "server"
      [] a.code = 404 -> "not found"
      [] a.code \in {400, 403} -> "auth"
      [] a.code = 429 \/ (a.code \notin {400, 403, 404} /\ a.reason = "limit exceeded") -> "rate limited"
      [] OTHER -> "server"

GoogleFailure(a) ==
    CASE a.code = 404 -> "not found"
      [] a.code = 429 \/ (a.code # 404 /\ a.reason = "limit exceeded") -> "rate limited"
      [] a.code \in {400, 403} /\ a.reason # "limit exceeded" -> "auth"
      [] OTHER -> "server"

\* Mutant: the coordinates are not looked for.
UnwiredLocationOK(a) ==
    IF a.code = 200 /\ a.json /\ a.status = "ok" THEN {[lat |-> a.lat, lon |-> a.lon]} ELSE {}

UnwiredLocation(a) ==
    IF a.code = 200 /\ a.json /\ a.status = "ok" /\ a.lat = "given" /\ a.lon = "given"
    THEN {[lat |-> "given", lon |-> "given"]}
    ELSE {}

classify(message) ==
    IF "token" \in message THEN "auth"
    ELSE IF "credit" \in message THEN "rate limited" ELSE "not found"

UnwiredFailure(a) ==
    CASE a.code \in {401, 403} -> "auth"
      [] a.code = 429 -> "rate limited"
      [] a.code >= 500 -> "server"
      [] a.code < 500 /\ a.code \notin {200, 401, 403, 429} -> "not found"
      [] a.code = 200 /\ a.json /\ a.status = "error" -> classify(a.message)
      [] OTHER -> "server"

-----------------------------------------------------------------------------
(* Source.resolve. *)

\* A set below the threshold is not sent. Mutant: any access point is enough.
HaveAnyAPs == ~scan.err /\ scan.aps # {}

HaveAPs == ~scan.err /\ Cardinality(scan.aps) >= MinAPs

ResolutionInit ==
    /\ Init
    /\ provider \in {"google", "unwiredlabs"}
    /\ step = "scan" /\ scan = [aps |-> {}, err |-> FALSE]
    /\ request = Unsent /\ answer = Unanswered
    /\ fix = {} /\ failure = "none"

\* Scanner.Scan returns: an error only without access points.
ScanReturns ==
    /\ step = "scan" /\ step' = "cell"
    /\ \/ \E aps \in SUBSET APs : scan' = [aps |-> aps, err |-> FALSE]
       \/ scan' = [aps |-> {}, err |-> TRUE]
    /\ UNCHANGED <<modem, provider, request, answer, outcome>>

\* ServingCell runs.
CellStep ==
    /\ step = "cell" /\ Next
    /\ UNCHANGED <<provider, step, scan, request, answer, outcome>>

Fail(class) == step' = "end" /\ failure' = class /\ UNCHANGED fix

NothingToSend ==
    /\ step = "cell" /\ pc = "done"
    /\ ~HaveAPs /\ tower = NoTower
    /\ Fail(IF scan.err THEN "wifi scan" ELSE "too few access points")
    /\ UNCHANGED <<modem, provider, scan, request, answer>>

Send ==
    /\ step = "cell" /\ pc = "done"
    /\ HaveAPs \/ tower # NoTower
    /\ step' = "sent"
    /\ LET aps == IF HaveAPs THEN scan.aps ELSE {} IN
         request' = IF provider = "google" THEN GoogleRequest(aps) ELSE UnwiredRequest(aps)
    /\ UNCHANGED <<modem, provider, scan, answer, outcome>>

\* Do or ReadAll fails.
TransportFails ==
    /\ step = "sent"
    /\ Fail("transport")
    /\ UNCHANGED <<modem, provider, scan, request, answer>>

\* The fix of a location: from access points if any were sent, else from the cell.
FixOf(loc) ==
    [lat |-> loc.lat, lon |-> loc.lon,
     source |-> IF HaveAPs THEN "wifi" ELSE "cell",
     APCount |-> IF HaveAPs THEN Cardinality(scan.aps) ELSE 0,
     cell |-> IF HaveAPs THEN NoTower ELSE [tower EXCEPT !.Signal = Absent]]

Parsed(a, location, class) ==
    /\ answer' = a
    /\ IF location = {} THEN Fail(class)
       ELSE step' = "end" /\ fix' = {FixOf(loc) : loc \in location} /\ UNCHANGED failure
    /\ UNCHANGED <<modem, provider, scan, request>>

GoogleAnswers ==
    /\ step = "sent" /\ provider = "google"
    /\ \E a \in GoogleAnswer : Parsed(a, GoogleLocation(a), GoogleFailure(a))

UnwiredAnswers ==
    /\ step = "sent" /\ provider = "unwiredlabs"
    /\ \E a \in UnwiredAnswer : Parsed(a, UnwiredLocation(a), UnwiredFailure(a))

ResolutionNext ==
    \/ ScanReturns
    \/ CellStep
    \/ NothingToSend
    \/ Send
    \/ TransportFails
    \/ GoogleAnswers
    \/ UnwiredAnswers

ResolutionSpec == ResolutionInit /\ [][ResolutionNext]_allVars

-----------------------------------------------------------------------------

Described == IF content = "plain" THEN Best ELSE NoTower

\* The modem's names of the fields of a request's cell.
Meaning ==
    [cellId |-> "CID", locationAreaCode |-> "TAC", mobileCountryCode |-> "MCC",
     mobileNetworkCode |-> "MNC", signalStrength |-> "RSRP",
     cid |-> "CID", lac |-> "TAC", mcc |-> "MCC", mnc |-> "MNC", signal |-> "RSRP"]

Intact(record, fields) ==
    \A f \in fields : \/ record[f] = [of |-> Meaning[f], line |-> Described.CID.line]
                      \/ f \in {"signal", "signalStrength"} /\ record[f] = Described.Signal

\* Whatever the modem and the scan say, the provider is asked about exactly that:
\* the cell of the request has each identifier under the provider's name for it,
\* all of one line of the modem's, and the radio type of that line; its access
\* points are those of the scan, or none if they are fewer than MinAPs or the scan
\* failed (both clients, resolve, qeng).
RequestTells ==
    request # Unsent =>
      LET google == provider = "google"
          towers == IF google THEN request.cellTowers ELSE request.cells
          aps    == IF google THEN request.wifiAccessPoints ELSE request.wifi
      IN  /\ aps = IF scan.err \/ Cardinality(scan.aps) < MinAPs THEN {} ELSE scan.aps
          /\ Cardinality(towers) = IF Described = NoTower THEN 0 ELSE 1
          /\ \A t \in towers : Intact(t, DOMAIN t)
          /\ ~google /\ Described # NoTower => Intact(request, {"mcc", "mnc"})
          /\ request.radio = CASE Described.Radio = "LTE" -> "lte"
                               [] Described.Radio = "NR5G-SA" -> "nr"
                               [] OTHER -> "none"

\* A fix comes only of an answer with code 200 that has a location, never of an
\* error that the provider sends with code 200, and every such answer gives one. It
\* has the coordinates that the answer has, each as itself, and names the anchor
\* that the request had (both ParseResponse, resolve). What it has for a coordinate
\* that Google's location lacks is NoFabricatedCoordinate's question.
FixFromAnswer ==
    step = "end" =>
      LET located == /\ answer.code = 200
                     /\ IF provider = "google" THEN answer.location
                        ELSE /\ answer.json /\ answer.status = "ok"
                             /\ {answer.lat, answer.lon} = {"given"}
      IN  /\ fix = {} <=> ~located
          /\ \A f \in fix :
               /\ f.lat = "given" <=> answer.lat = "given"
               /\ f.lon = "given" <=> answer.lon = "given"
               /\ IF f.source = "wifi" THEN f.APCount = Cardinality(scan.aps) /\ f.APCount >= MinAPs
                  ELSE f.cell = [Described EXCEPT !.Signal = Absent] /\ Described # NoTower

\* A provider that refuses because the quota is used up is reported as that, by
\* whichever of code, reason and message it says so, unless the message also
\* speaks of the token: the operator looks for the cap and not for the key.
QuotaNamed ==
    step = "end" /\ answer # Unanswered =>
      /\ answer.code = 429 => failure = "rate limited"
      /\ provider = "google" /\ answer.code = 403 /\ answer.reason = "limit exceeded"
           => failure = "rate limited"
      /\ provider = "unwiredlabs" /\ answer.code = 200 /\ answer.json
         /\ answer.status = "error" /\ answer.message = {"credit"}
           => failure = "rate limited"

\* docs/ARCHITECTURE.md, section 9: "a missing coordinate is never turned into
\* 0,0". Google's ParseResponse does so with a location object that lacks one.
NoFabricatedCoordinate == \A f \in fix : f.lat # "zero" /\ f.lon # "zero"

=============================================================================
