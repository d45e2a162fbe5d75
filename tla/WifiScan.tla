------------------------------ MODULE WifiScan ------------------------------
(***************************************************************************)
(* Scanner.Scan: runs `iw dev <if> scan' for each interface, parses each   *)
(* output line by line into access points and merges them by BSSID.        *)
(*                                                                         *)
(* An output is a sequence of lines that ParseScan tells apart, in any     *)
(* order: a line with a BSSID, one with a signal, one with an SSID. Lines  *)
(* it ignores are left out, and so are upper and lower case: a BSSID is    *)
(* what parseBSSID returns.                                                *)
(***************************************************************************)
EXTENDS Integers, FiniteSetsExt, SequencesExt

CONSTANTS
    NumIfaces,  \* len(s.Ifaces)
    BSSIDs,     \* the BSSIDs that may be heard
    NoBSSID,    \* "": a line `BSS ' without an address
    Signals,    \* the signals in dBm that a line may carry
    noSignal,   \* the level of an access point without one
    SSIDs,      \* the names that may be heard
    NoMap,      \* those of them that end in "_nomap"
    NoSSID,     \* "": no SSID line, or a hidden network
    MaxLines    \* bound: lines in one output

ASSUME WifiScanAssumption ==
    /\ NumIfaces \in Nat
    /\ MaxLines \in Nat
    /\ noSignal \in Int
    /\ Signals \subseteq Int
    /\ NoBSSID \notin BSSIDs
    /\ NoMap \subseteq SSIDs
    /\ NoSSID \notin SSIDs

Line == [kind : {"BSS"}, val : BSSIDs \cup {NoBSSID}]
        \cup [kind : {"signal"}, val : Signals \cup {noSignal}]
        \cup [kind : {"SSID"}, val : SSIDs \cup {NoSSID}]

AP == [BSSID : BSSIDs \cup {NoBSSID},
       Signal : Signals \cup {noSignal},
       SSID : SSIDs \cup {NoSSID}]

\* The zero value of Signal is 0 dBm; no access point is kept with it.
ZeroAP == [BSSID |-> NoBSSID, Signal |-> 0, SSID |-> NoSSID]

\* What Scan returns: access points and whether there was an error.
Returned == [aps : Seq(AP), err : BOOLEAN]

VARIABLES
    pc,       \* "exec", "parse", "merge" or "done"
    iface,    \* the interface being scanned
    have,     \* ParseScan: a BSS line was seen
    cur,      \* ParseScan: the access point being read
    aps,      \* ParseScan's result so far
    next,     \* Scan: index of the access point merged next
    byBSSID,  \* Scan: a function from the BSSIDs seen so far
    order,    \* Scan: those BSSIDs in the order they were first seen
    failed,   \* the interfaces whose command failed; firstErr # nil if any
    result,   \* what Scan returned
    text,     \* history: the lines of the output being parsed
    heard     \* history: the access points that ParseScan returned

parser == <<have, cur, text>>
merged == <<byBSSID, order>>
vars == <<pc, iface, parser, aps, next, merged, failed, result, heard>>

-----------------------------------------------------------------------------

Usable(ap) == ap.BSSID # NoBSSID /\ ap.SSID \notin NoMap

\* The closure flush: the access points after it. Mutant: it keeps those that
\* opted out.
flushAll == IF have /\ cur.BSSID # NoBSSID THEN Append(aps, cur) ELSE aps

flush == IF have /\ Usable(cur) THEN Append(aps, cur) ELSE aps

\* What an output says: an access point for each BSS line, with the last signal
\* and the last name that stand before the next one.
Starts(txt) == {i \in DOMAIN txt : txt[i].kind = "BSS"}

Of(txt, i, kind) == {j \in DOMAIN txt : /\ j > i /\ txt[j].kind = kind
                                        /\ Starts(txt) \cap (i + 1)..j = {}}

Said(txt, i, kind, default) ==
    LET J == Of(txt, i, kind) IN IF J = {} THEN default ELSE txt[Max(J)].val

Entry(txt, i) == [BSSID  |-> txt[i].val,
                  Signal |-> Said(txt, i, "signal", noSignal),
                  SSID   |-> Said(txt, i, "SSID", NoSSID)]

Kept(txt) == {i \in Starts(txt) : Usable(Entry(txt, i))}

\* The access points that the lines K start, in their order.
Lists(seq, K, txt) ==
    /\ Len(seq) = Cardinality(K)
    /\ \A i \in K : seq[Cardinality({j \in K : j <= i})] = Entry(txt, i)

\* The i-th access point heard is the strongest with its BSSID, the earliest of
\* equals; and a is heard before b is.
Strongest(i) ==
    \A j \in DOMAIN heard : heard[j].BSSID = heard[i].BSSID =>
        heard[j].Signal < heard[i].Signal \/ (heard[j].Signal = heard[i].Signal /\ i <= j)

HeardBefore(a, b) ==
    \E i \in DOMAIN heard : heard[i].BSSID = a /\ \A j \in 1..i : heard[j].BSSID # b

-----------------------------------------------------------------------------

\* The access point that a BSS line starts. Mutant: its level is not set.
StartedZero(line) == [ZeroAP EXCEPT !.BSSID = line.val]

Started(line) == [BSSID |-> line.val, Signal |-> noSignal, SSID |-> NoSSID]

\* Whether an access point replaces the one with its BSSID. Mutant: equals do.
StrongerOrEqual(ap, old) == ap.Signal >= old.Signal

Stronger(ap, old) == ap.Signal > old.Signal

Put(ap) == [b \in DOMAIN byBSSID \cup {ap.BSSID} |-> IF b = ap.BSSID THEN ap ELSE byBSSID[b]]

\* The loop goes to the next interface, or Scan returns.
NextIface ==
    /\ iface' = iface + 1
    /\ IF iface < NumIfaces
         THEN pc' = "exec" /\ UNCHANGED result
         ELSE /\ pc' = "done"
              /\ result' = [aps |-> [i \in DOMAIN order' |-> byBSSID'[order'[i]]],
                            err |-> order' = <<>> /\ failed' # {}]

-----------------------------------------------------------------------------

Init ==
    /\ iface = 1
    /\ have = FALSE /\ cur = ZeroAP /\ text = <<>>
    /\ aps = <<>> /\ next = 1
    /\ byBSSID = <<>> /\ order = <<>> /\ failed = {} /\ heard = <<>>
    /\ pc = IF NumIfaces = 0 THEN "done" ELSE "exec"
    /\ result = [aps |-> <<>>, err |-> FALSE]

\* s.Exec fails or is killed: the interface is skipped.
ExecFails ==
    /\ pc = "exec"
    /\ failed' = failed \cup {iface}
    /\ UNCHANGED <<parser, aps, next, merged, heard>>
    /\ NextIface

\* s.Exec returns an output: ParseScan starts.
ExecOK ==
    /\ pc = "exec"
    /\ pc' = "parse"
    /\ UNCHANGED <<iface, parser, aps, next, merged, failed, result, heard>>

\* ParseScan's loop reads one line.
ReadLine(line) ==
    /\ pc = "parse"
    /\ Len(text) < MaxLines
    /\ \/ /\ line.kind = "BSS"
          /\ aps' = flush /\ cur' = Started(line) /\ have' = TRUE
       \/ /\ line.kind = "signal"
          /\ cur' = [cur EXCEPT !.Signal = line.val]
          /\ UNCHANGED <<aps, have>>
       \/ /\ line.kind = "SSID"
          /\ cur' = [cur EXCEPT !.SSID = line.val]
          /\ UNCHANGED <<aps, have>>
    /\ text' = Append(text, line)
    /\ UNCHANGED <<pc, iface, next, merged, failed, result, heard>>

\* The last line was read: ParseScan returns, its locals are gone, and Scan
\* ranges over the result.
ParseScanReturns ==
    /\ pc = "parse"
    /\ pc' = "merge"
    /\ aps' = flush
    /\ have' = FALSE /\ cur' = ZeroAP /\ text' = <<>>
    /\ heard' = heard \o flush
    /\ UNCHANGED <<iface, next, merged, failed, result>>

\* One iteration of the merging loop.
Merge ==
    /\ pc = "merge"
    /\ next \in DOMAIN aps
    /\ LET ap == aps[next] IN
         \/ /\ ap.BSSID \notin DOMAIN byBSSID
            /\ byBSSID' = Put(ap)
            /\ order' = Append(order, ap.BSSID)
         \/ /\ ap.BSSID \in DOMAIN byBSSID
            /\ byBSSID' = IF Stronger(ap, byBSSID[ap.BSSID])
                            THEN Put(ap)
                            ELSE byBSSID
            /\ UNCHANGED order
    /\ next' = next + 1
    /\ UNCHANGED <<pc, iface, parser, aps, failed, result, heard>>

MergeEnds ==
    /\ pc = "merge"
    /\ next = Len(aps) + 1
    /\ aps' = <<>> /\ next' = 1
    /\ UNCHANGED <<parser, merged, failed, heard>>
    /\ NextIface

Next ==
    \/ ExecFails
    \/ ExecOK
    \/ \E line \in Line : ReadLine(line)
    \/ ParseScanReturns
    \/ Merge
    \/ MergeEnds

Spec == Init /\ [][Next]_vars

-----------------------------------------------------------------------------

\* Types. Of an access point that was started every field is known: a level
\* that is missing is noSignal, never the zero value, which is the strongest.
\* ParseScan's cur, wifiscan.go:27 and 42.
TypeOK ==
    /\ pc \in {"exec", "parse", "merge", "done"}
    /\ iface \in 1..NumIfaces + 1
    /\ have \in BOOLEAN
    /\ have => cur \in AP
    /\ aps \in Seq(AP) /\ heard \in Seq(AP)
    /\ next \in 1..Len(aps) + 1
    /\ order \in Seq(BSSIDs)
    /\ byBSSID \in [ToSet(order) -> AP]
    /\ failed \subseteq 1..NumIfaces
    /\ result \in Returned

\* However the lines of an output are mixed up, repeated or missing, the parser
\* gives each access point the signal and the name of its own block and leaves
\* out the blocks that opted out: at every line, flushing now would give what
\* the lines read so far say.
ParserRight == pc = "parse" => Lists(flush, Kept(text), text)

\* Whichever interfaces fail and in whichever order they hear an access point,
\* Scan returns each access point once, at its strongest and in the order in
\* which they were first heard, and no error if there is any.
MergeRight ==
    pc = "done" =>
      LET r == result.aps IN
      /\ heard # <<>> => ~result.err
      /\ \A i \in DOMAIN heard : \E k \in DOMAIN r : r[k].BSSID = heard[i].BSSID
      /\ \A k \in DOMAIN r : \E i \in DOMAIN heard : r[k] = heard[i] /\ Strongest(i)
      /\ \A k, l \in DOMAIN r : k < l => HeardBefore(r[k].BSSID, r[l].BSSID)

\* "It returns an error only when every interface failed and no APs were
\* collected" (scanner.go:39-40). Of an interface that failed and one that heard
\* nothing the code returns the error of the first.
ErrorOnlyIfAllFailed == pc = "done" /\ result.err => failed = 1..NumIfaces

=============================================================================
