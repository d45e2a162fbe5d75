--------------------------- MODULE WifiScanProofs ---------------------------
(***************************************************************************)
(* Theorems about WifiScan, for any number of interfaces, lines and access *)
(* points: the parser gives each access point what its own block says, and *)
(* the merge returns each access point once, at its strongest.             *)
(***************************************************************************)
EXTENDS WifiScan, FiniteSetTheorems, WellFoundedInduction, TLAPS

\* Where Scan is: in which interface, and in what ParseScan returned.
Shape ==
  /\ pc # "done" => iface \in 1..NumIfaces
  /\ pc \in {"exec", "parse"} => next = 1
  /\ pc # "parse" => ~have
  /\ text \in Seq(Line)
  /\ \A i \in DOMAIN aps : aps[i].BSSID \in BSSIDs

\* ParseScan has collected the blocks before the one that it reads.
ParseInv ==
  /\ have => \E l \in Starts(text) :
               /\ \A i \in Starts(text) : i <= l
               /\ cur = Entry(text, l)
               /\ Lists(aps, Kept(text) \ {l}, text)
  /\ ~have => Starts(text) = {} /\ (pc \in {"exec", "parse"} => aps = <<>>)

\* Of the first n access points heard, the i-th is the strongest.
StrongestOf(i, n) ==
  \A j \in 1..n : heard[j].BSSID = heard[i].BSSID =>
    heard[j].Signal < heard[i].Signal \/ (heard[j].Signal = heard[i].Signal /\ i <= j)

\* byBSSID and order are those of the first n access points heard.
Merged(n) ==
  /\ \A i \in 1..n : \E k \in DOMAIN order : order[k] = heard[i].BSSID
  /\ \A k \in DOMAIN order :
       \E i \in 1..n : /\ byBSSID[order[k]] = heard[i] /\ heard[i].BSSID = order[k]
                       /\ StrongestOf(i, n)
  /\ \A k, l \in DOMAIN order : k < l =>
       \E i \in 1..n : heard[i].BSSID = order[k] /\ \A j \in 1..i : heard[j].BSSID # order[l]

\* How many of those heard the loops have merged; the others are in aps.
Count == IF pc = "merge" THEN Len(heard) - Len(aps) + (next - 1) ELSE Len(heard)

MergeInv ==
  /\ pc = "merge" => /\ Len(aps) <= Len(heard)
                     /\ \A k \in DOMAIN aps : heard[Len(heard) - Len(aps) + k] = aps[k]
  /\ Merged(Count)
  /\ MergeRight
-----------------------------------------------------------------------------
(* Append, by its elements. *)
LEMMA Appended ==
  ASSUME NEW S, NEW seq \in Seq(S), NEW x \in S
  PROVE  /\ Append(seq, x) \in Seq(S) /\ Len(seq) \in Nat /\ DOMAIN seq = 1..Len(seq)
         /\ DOMAIN Append(seq, x) = 1..(Len(seq) + 1) /\ Len(Append(seq, x)) = Len(seq) + 1
         /\ Append(seq, x)[Len(seq) + 1] = x
         /\ \A k \in DOMAIN seq : Append(seq, x)[k] = seq[k] /\ k \in DOMAIN Append(seq, x)
OBVIOUS

(* The access point that a line starts or goes on with is one. *)
LEMMA APs ==
  ASSUME NEW line \in Line
  PROVE  /\ line.kind = "BSS" => Started(line) \in AP
         /\ have /\ cur \in AP /\ line.kind = "signal" => [cur EXCEPT !.Signal = line.val] \in AP
         /\ have /\ cur \in AP /\ line.kind = "SSID" => [cur EXCEPT !.SSID = line.val] \in AP
BY DEF Line, AP, Started

(* What flush returns has an address throughout. *)
LEMMA Flushed ==
  ASSUME TypeOK, Shape
  PROVE  /\ flush \in Seq(AP) /\ Len(flush) >= Len(aps)
         /\ \A i \in DOMAIN flush : flush[i].BSSID \in BSSIDs
<1>1. CASE have /\ Usable(cur)
  <2>1. cur \in AP /\ cur.BSSID \in BSSIDs /\ flush = Append(aps, cur) /\ aps \in Seq(AP)
    BY <1>1 DEF TypeOK, flush, Usable, AP
  <2>. QED
    BY <2>1 DEF Shape
<1>2. CASE ~(have /\ Usable(cur))
  <2>1. flush = aps
    BY <1>2 DEF flush
  <2>. QED
    BY <2>1 DEF Shape, TypeOK
<1>. QED
  BY <1>1, <1>2

(* The merged access points are a sequence of them. *)
LEMMA Results ==
  ASSUME NEW seq \in Seq(BSSIDs), NEW f \in [ToSet(seq) -> AP]
  PROVE  /\ [i \in DOMAIN seq |-> f[seq[i]]] \in Seq(AP)
         /\ DOMAIN [i \in DOMAIN seq |-> f[seq[i]]] = DOMAIN seq
<1>1. Len(seq) \in Nat /\ DOMAIN seq = 1..Len(seq)
  OBVIOUS
<1>2. \A i \in 1..Len(seq) : f[seq[i]] \in AP
  BY <1>1 DEF ToSet
<1>. QED
  BY <1>1, <1>2

(* Every action keeps the types. *)
LEMMA TypeStep == TypeOK /\ Shape /\ [Next]_vars => TypeOK' /\ Shape'
<1>. SUFFICES ASSUME TypeOK, Shape, [Next]_vars PROVE TypeOK' /\ Shape'
  OBVIOUS
<1>. USE WifiScanAssumption
<1>n. ASSUME pc # "done", NextIface, order' \in Seq(BSSIDs), byBSSID' \in [ToSet(order') -> AP]
      PROVE  /\ pc' \in {"exec", "done"} /\ iface' \in 1..(NumIfaces + 1) /\ result' \in Returned
             /\ pc' # "done" => iface' \in 1..NumIfaces
  <2>1. iface \in 1..NumIfaces /\ result \in Returned
    BY <1>n DEF Shape, TypeOK
  <2>2. CASE iface < NumIfaces
    BY <1>n, <2>1, <2>2 DEF NextIface
  <2>3. CASE ~(iface < NumIfaces)
    <3>. DEFINE r == [i \in DOMAIN order' |-> byBSSID'[order'[i]]]
                e == (order' = <<>> /\ failed' # {})
    <3>1. r \in Seq(AP) /\ e \in BOOLEAN
      BY <1>n, Results
    <3>2. pc' = "done" /\ iface' = iface + 1 /\ result' = [aps |-> r, err |-> e]
      BY <1>n, <2>3 DEF NextIface
    <3>. HIDE DEF r, e
    <3>3. result' \in Returned
      BY <3>1, <3>2 DEF Returned
    <3>. QED
      BY <2>1, <3>2, <3>3
  <2>. QED
    BY <2>2, <2>3
<1>1. CASE ExecFails
  <2>1. UNCHANGED <<parser, aps, next, merged, heard>> /\ NextIface /\ pc = "exec"
        /\ failed' = failed \cup {iface}
    BY <1>1 DEF ExecFails
  <2>2. /\ pc' \in {"exec", "done"} /\ iface' \in 1..(NumIfaces + 1) /\ result' \in Returned
        /\ pc' # "done" => iface' \in 1..NumIfaces
    BY <1>n, <2>1 DEF TypeOK, merged
  <2>. QED
    BY <2>1, <2>2 DEF TypeOK, Shape, parser, merged
<1>2. CASE ExecOK
  BY <1>2 DEF ExecOK, TypeOK, Shape, parser, merged
<1>3. ASSUME NEW line \in Line, ReadLine(line) PROVE TypeOK' /\ Shape'
  <2>1. /\ pc = "parse" /\ UNCHANGED <<pc, iface, next, merged, failed, result, heard>>
        /\ text' = Append(text, line)
        /\ aps' \in {aps, flush}
    BY <1>3 DEF ReadLine
  <2>2. /\ aps' \in Seq(AP) /\ Len(aps') >= Len(aps) /\ Len(aps) \in Nat /\ Len(aps') \in Nat
        /\ \A i \in DOMAIN aps' : aps'[i].BSSID \in BSSIDs
    BY <2>1, Flushed DEF TypeOK, Shape
  <2>3. have' \in BOOLEAN /\ (have' => cur' \in AP)
    <3>1. CASE line.kind = "BSS"
      <4>1. cur' = Started(line) /\ have' = TRUE
        BY <1>3, <3>1 DEF ReadLine
      <4>. QED
        BY <3>1, <4>1, APs
    <3>2. CASE line.kind = "signal"
      <4>1. cur' = [cur EXCEPT !.Signal = line.val] /\ have' = have
        BY <1>3, <3>2 DEF ReadLine
      <4>. QED
        BY <3>2, <4>1, APs DEF TypeOK
    <3>3. CASE line.kind = "SSID"
      <4>1. cur' = [cur EXCEPT !.SSID = line.val] /\ have' = have
        BY <1>3, <3>3 DEF ReadLine
      <4>. QED
        BY <3>3, <4>1, APs DEF TypeOK
    <3>. QED
      BY <3>1, <3>2, <3>3 DEF Line
  <2>4. text' \in Seq(Line) /\ next' = 1
    BY <2>1 DEF Shape
  <2>. QED
    BY <2>1, <2>2, <2>3, <2>4 DEF TypeOK, Shape, merged
<1>4. CASE ParseScanReturns
  <2>1. /\ pc = "parse" /\ pc' = "merge" /\ aps' = flush /\ have' = FALSE /\ text' = <<>>
        /\ heard' = heard \o flush /\ UNCHANGED <<iface, next, merged, failed, result>>
    BY <1>4 DEF ParseScanReturns
  <2>2. /\ aps' \in Seq(AP) /\ heard' \in Seq(AP) /\ text' \in Seq(Line)
        /\ \A i \in DOMAIN aps' : aps'[i].BSSID \in BSSIDs
    BY <2>1, Flushed DEF TypeOK
  <2>3. next' = 1 /\ Len(aps') \in Nat
    BY <2>1, <2>2 DEF Shape
  <2>4. UNCHANGED merged
    BY <1>4 DEF ParseScanReturns
  <2>5. 1 \in 1..(Len(aps') + 1)
    BY <2>3
  <2>6. TypeOK'
    BY <2>1, <2>2, <2>3, <2>4, <2>5 DEF TypeOK, merged
  <2>7. Shape'
    BY <2>1, <2>2, <2>3 DEF Shape
  <2>. QED
    BY <2>6, <2>7
<1>5. CASE Merge
  <2>. DEFINE ap == aps[next]
  <2>1. /\ next \in DOMAIN aps /\ next' = next + 1
        /\ UNCHANGED <<pc, iface, parser, aps, failed, result, heard>> /\ pc = "merge"
    BY <1>5 DEF Merge
  <2>2. ap \in AP /\ ap.BSSID \in BSSIDs
    BY <2>1 DEF TypeOK, Shape
  <2>3. order' \in Seq(BSSIDs) /\ byBSSID' \in [ToSet(order') -> AP]
    <3>. HIDE DEF ap
    <3>. DEFINE b == ap.BSSID
    <3>1. order \in Seq(BSSIDs) /\ byBSSID \in [ToSet(order) -> AP] /\ b \in BSSIDs
      BY <2>2 DEF TypeOK
    <3>2. Put(ap) \in [ToSet(order) \cup {b} -> AP]
      BY <2>2, <3>1 DEF Put
    <3>3. CASE b \notin DOMAIN byBSSID
      <4>1. byBSSID' = Put(ap) /\ order' = Append(order, b)
        BY <1>5, <3>3 DEF Merge, ap
      <4>. HIDE DEF b
      <4>2. /\ DOMAIN order' = 1..(Len(order) + 1) /\ DOMAIN order = 1..Len(order)
            /\ Len(order) \in Nat /\ order'[Len(order) + 1] = b
            /\ \A i \in 1..Len(order) : order'[i] = order[i]
        BY <3>1, <4>1
      <4>3. ToSet(order') = ToSet(order) \cup {b}
        BY <4>2 DEF ToSet
      <4>. QED
        BY <3>1, <3>2, <4>1, <4>3
    <3>4. CASE b \in DOMAIN byBSSID
      <4>1. order' = order /\ byBSSID' \in {byBSSID, Put(ap)}
        BY <1>5, <3>4 DEF Merge, ap
      <4>. HIDE DEF b
      <4>2. ToSet(order) \cup {b} = ToSet(order)
        BY <3>1, <3>4
      <4>. QED
        BY <3>1, <3>2, <4>1, <4>2
    <3>. QED
      BY <3>3, <3>4
  <2>4. next' \in 1..(Len(aps) + 1)
    BY <2>1 DEF TypeOK
  <2>. QED
    BY <2>1, <2>3, <2>4 DEF TypeOK, Shape, parser
<1>6. CASE MergeEnds
  <2>1. /\ UNCHANGED <<parser, merged, failed, heard>> /\ NextIface /\ pc = "merge"
        /\ aps' = <<>> /\ next' = 1
    BY <1>6 DEF MergeEnds
  <2>2. /\ pc' \in {"exec", "done"} /\ iface' \in 1..(NumIfaces + 1) /\ result' \in Returned
        /\ pc' # "done" => iface' \in 1..NumIfaces
    BY <1>n, <2>1 DEF TypeOK, merged
  <2>. QED
    BY <2>1, <2>2 DEF TypeOK, Shape, parser, merged
<1>7. CASE UNCHANGED vars
  BY <1>7 DEF vars, TypeOK, Shape, parser, merged
<1>. QED
  BY <1>1, <1>2, <1>3, <1>4, <1>5, <1>6, <1>7 DEF Next

LEMMA TypeInit == Init => TypeOK /\ Shape
<1>. SUFFICES ASSUME Init PROVE TypeOK /\ Shape
  OBVIOUS
<1>1. ToSet(order) = {} /\ byBSSID \in [ToSet(order) -> AP]
  BY DEF Init, ToSet
<1>2. result \in Returned
  BY DEF Init, Returned
<1>3. NumIfaces = 0 \/ NumIfaces >= 1
  BY WifiScanAssumption
<1>. QED
  <2>1. TypeOK
    <3>1. iface = 1 /\ next = 1 /\ aps = <<>> /\ Len(aps) = 0 /\ 1 \in 1..(NumIfaces + 1)
      BY <1>3, WifiScanAssumption DEF Init
    <3>2. iface \in 1..(NumIfaces + 1) /\ next \in 1..(Len(aps) + 1)
      BY <3>1
    <3>3. /\ pc \in {"exec", "done"} /\ have = FALSE /\ order \in Seq(BSSIDs)
          /\ failed = {} /\ aps \in Seq(AP) /\ heard \in Seq(AP)
      BY DEF Init
    <3>. QED
      BY <1>1, <1>2, <3>2, <3>3 DEF TypeOK
  <2>2. Shape
    BY <1>3, WifiScanAssumption DEF Init, Shape
  <2>. QED
    BY <2>1, <2>2

(* Every variable keeps its type: the access points that Scan handles are complete. *)
THEOREM ScanTypes == Spec => []TypeOK
BY TypeInit, TypeStep, PTL DEF Spec
-----------------------------------------------------------------------------
(* Once all that was heard is merged, what NextIface returns is right. *)
LEMMA Returns ==
  ASSUME TypeOK, Merged(Len(heard)), UNCHANGED <<order, byBSSID, heard>>, NextIface
  PROVE  MergeRight'
<1>1. CASE pc' # "done"
  BY <1>1 DEF MergeRight
<1>2. CASE pc' = "done"
  <2>. DEFINE r == [k \in DOMAIN order |-> byBSSID[order[k]]]
  <2>1. result' = [aps |-> r, err |-> order = <<>> /\ failed' # {}]
    BY <1>2 DEF NextIface
  <2>2. /\ Len(heard) \in Nat /\ DOMAIN heard = 1..Len(heard)
        /\ Len(order) \in Nat /\ DOMAIN order = 1..Len(order)
        /\ order = <<>> <=> Len(order) = 0
        /\ heard = <<>> <=> Len(heard) = 0
    BY DEF TypeOK
  <2>3. DOMAIN r = DOMAIN order /\ \A k \in DOMAIN order : r[k] = byBSSID[order[k]]
    OBVIOUS
  <2>. HIDE DEF r
  <2>4. order = <<>> <=> heard = <<>>
    <3>1. ASSUME order = <<>> PROVE Len(heard) = 0
      <4>1. ~(1 \in 1..Len(heard))
        BY <2>2, <3>1 DEF Merged
      <4>. QED
        BY <2>2, <4>1
    <3>2. ASSUME heard = <<>> PROVE Len(order) = 0
      <4>1. ~(1 \in 1..Len(order))
        BY <2>2, <3>2 DEF Merged
      <4>. QED
        BY <2>2, <4>1
    <3>. QED
      BY <2>2, <3>1, <3>2
  <2>5. ASSUME NEW k \in DOMAIN r
        PROVE  /\ r[k].BSSID = order[k]
               /\ \E i \in DOMAIN heard : r[k] = heard[i] /\ StrongestOf(i, Len(heard))
    <3>1. PICK i \in 1..Len(heard) : /\ byBSSID[order[k]] = heard[i] /\ heard[i].BSSID = order[k]
                                     /\ StrongestOf(i, Len(heard))
      BY <2>3 DEF Merged
    <3>. QED
      BY <2>2, <2>3, <3>1
  <2>6. \A i \in DOMAIN heard : StrongestOf(i, Len(heard)) => Strongest(i)
    BY <2>2 DEF StrongestOf, Strongest
  <2>7. \A i \in DOMAIN heard : \E k \in DOMAIN r : r[k].BSSID = heard[i].BSSID
    <3>1. ASSUME NEW i \in DOMAIN heard PROVE \E k \in DOMAIN r : r[k].BSSID = heard[i].BSSID
      <4>1. PICK k \in DOMAIN order : order[k] = heard[i].BSSID
        BY <2>2 DEF Merged
      <4>. QED
        BY <2>3, <2>5, <4>1
    <3>. QED
      BY <3>1
  <2>8. \A k, l \in DOMAIN r : k < l => HeardBefore(r[k].BSSID, r[l].BSSID)
    <3>1. ASSUME NEW k \in DOMAIN r, NEW l \in DOMAIN r, k < l
          PROVE  HeardBefore(order[k], order[l])
      <4>1. PICK i \in 1..Len(heard) : heard[i].BSSID = order[k] /\ \A j \in 1..i : heard[j].BSSID # order[l]
        BY <2>3, <3>1 DEF Merged
      <4>. QED
        BY <2>2, <4>1 DEF HeardBefore
    <3>. QED
      BY <2>5, <3>1
  <2>9. result'.aps = r /\ (heard # <<>> => ~result'.err)
    BY <2>1, <2>4
  <2>. QED
    BY <2>5, <2>6, <2>7, <2>8, <2>9 DEF MergeRight, Strongest, HeardBefore
<1>. QED
  BY <1>1, <1>2

(* What the loops have merged stays so when more is heard. *)
LEMMA MoreHeard ==
  ASSUME TypeOK, NEW new \in Seq(AP), heard' = heard \o new, UNCHANGED merged, Merged(Len(heard)),
         NEW n, n = Len(heard)
  PROVE  Merged(n)'
<1>1. n \in Nat /\ \A i \in 1..n : heard'[i] = heard[i]
  BY DEF TypeOK
<1>2. order' = order /\ byBSSID' = byBSSID
  BY DEF merged
<1>3. \A i \in 1..n : StrongestOf(i, n) => StrongestOf(i, n)'
  BY <1>1 DEF StrongestOf
<1>4. \A i \in 1..n : \E k \in DOMAIN order' : order'[k] = heard'[i].BSSID
  BY <1>1, <1>2 DEF Merged
<1>5. \A k \in DOMAIN order' :
        \E i \in 1..n : /\ byBSSID'[order'[k]] = heard'[i] /\ heard'[i].BSSID = order'[k]
                        /\ StrongestOf(i, n)'
  <2>1. ASSUME NEW k \in DOMAIN order'
        PROVE  \E i \in 1..n : /\ byBSSID'[order'[k]] = heard'[i] /\ heard'[i].BSSID = order'[k]
                              /\ StrongestOf(i, n)'
    <3>1. PICK i \in 1..n : /\ byBSSID[order[k]] = heard[i] /\ heard[i].BSSID = order[k]
                           /\ StrongestOf(i, n)
      BY <1>2, <2>1 DEF Merged
    <3>. QED
      BY <1>1, <1>2, <1>3, <3>1
  <2>. QED
    BY <2>1
<1>6. \A k, l \in DOMAIN order' : k < l =>
        \E i \in 1..n : heard'[i].BSSID = order'[k] /\ \A j \in 1..i : heard'[j].BSSID # order'[l]
  <2>1. \A i \in 1..n : \A j \in 1..i : j \in 1..n
    BY <1>1
  <2>. QED
    BY <1>1, <1>2, <2>1 DEF Merged
<1>. QED
  BY <1>4, <1>5, <1>6 DEF Merged

(* The merging loop takes in one more access point. *)
LEMMA OneMore ==
  ASSUME TypeOK, Merge, NEW n \in Nat, n + 1 \in DOMAIN heard, heard[n + 1] = aps[next], Merged(n)
  PROVE  Merged(n + 1)'
<1>. DEFINE ap == aps[next]
            b == ap.BSSID
<1>1. /\ order \in Seq(BSSIDs) /\ byBSSID \in [ToSet(order) -> AP] /\ heard' = heard
      /\ heard \in Seq(AP) /\ ap \in AP
      /\ \A i \in 1..(n + 1) : i \in DOMAIN heard /\ (i \in 1..n \/ i = n + 1)
      /\ \A i \in 1..n : i \in 1..(n + 1)
  <2>1. next \in DOMAIN aps /\ heard' = heard
    BY DEF Merge
  <2>. QED
    BY <2>1 DEF TypeOK
<1>2. /\ \A i \in DOMAIN heard : heard[i].Signal \in Int
      /\ ap = heard[n + 1] /\ ap.Signal \in Int
  <2>1. \A x \in AP : x.Signal \in Int
    BY WifiScanAssumption DEF AP
  <2>2. \A i \in DOMAIN heard : heard[i] \in AP
    BY <1>1
  <2>. QED
    BY <1>1, <2>1, <2>2
<1>3. /\ Len(order) \in Nat /\ DOMAIN order = 1..Len(order)
      /\ DOMAIN byBSSID = ToSet(order) /\ \A k \in DOMAIN order : order[k] \in DOMAIN byBSSID
  BY <1>1 DEF ToSet
<1>4. Put(ap)[b] = ap /\ \A c \in DOMAIN byBSSID : c # b => Put(ap)[c] = byBSSID[c]
  BY DEF Put
<1>m. Merge /\ heard[n + 1] = ap
  OBVIOUS
<1>5. CASE b \notin DOMAIN byBSSID
  <2>1. order' = Append(order, b) /\ byBSSID' = Put(ap)
    BY <1>5 DEF Merge
  <2>. HIDE DEF ap
  <2>2. b \notin ToSet(order) /\ \A k \in DOMAIN order : order[k] # b
    BY <1>3, <1>5 DEF ToSet
  <2>. HIDE DEF b
  <2>3. /\ DOMAIN order' = 1..(Len(order) + 1) /\ order'[Len(order) + 1] = b
        /\ \A k \in DOMAIN order : order'[k] = order[k] /\ k \in DOMAIN order'
        /\ \A k \in DOMAIN order' : k \in DOMAIN order \/ k = Len(order) + 1
        /\ Len(order) + 1 \in DOMAIN order'
    BY <1>1, <1>3, <2>1, Appended
  <2>4. \A i \in 1..n : heard[i].BSSID # b
    BY <2>2 DEF Merged
  <2>5. heard[n + 1].BSSID = b
    BY <1>m DEF b
  <2>6. \A i \in 1..(n + 1) : \E k \in DOMAIN order' : order'[k] = heard[i].BSSID
    <3>1. ASSUME NEW i \in 1..n PROVE \E k \in DOMAIN order' : order'[k] = heard[i].BSSID
      <4>1. PICK k \in DOMAIN order : order[k] = heard[i].BSSID
        BY DEF Merged
      <4>. QED
        BY <2>3, <4>1
    <3>. QED
      BY <1>1, <2>3, <2>5, <3>1
  <2>7. \A k \in DOMAIN order' :
          \E i \in 1..(n + 1) : /\ byBSSID'[order'[k]] = heard[i] /\ heard[i].BSSID = order'[k]
                                /\ StrongestOf(i, n + 1)
    <3>1. ASSUME NEW k \in DOMAIN order
          PROVE  \E i \in 1..(n + 1) : /\ byBSSID'[order'[k]] = heard[i] /\ heard[i].BSSID = order'[k]
                                       /\ StrongestOf(i, n + 1)
      <4>1. PICK i \in 1..n : /\ byBSSID[order[k]] = heard[i] /\ heard[i].BSSID = order[k]
                              /\ StrongestOf(i, n)
        BY DEF Merged
      <4>2. StrongestOf(i, n + 1)
        BY <1>1, <2>4, <2>5, <4>1 DEF StrongestOf
      <4>3. byBSSID'[order'[k]] = byBSSID[order[k]]
        BY <1>3, <1>4, <2>1, <2>2, <2>3
      <4>. QED
        BY <1>1, <2>3, <4>1, <4>2, <4>3
    <3>2. StrongestOf(n + 1, n + 1)
      BY <1>1, <2>4, <2>5 DEF StrongestOf
    <3>3. byBSSID'[b] = heard[n + 1] /\ n + 1 \in 1..(n + 1)
      BY <1>2, <1>4, <2>1 DEF b
    <3>. QED
      BY <2>3, <2>5, <3>1, <3>2, <3>3
  <2>8. \A k, l \in DOMAIN order' : k < l =>
          \E i \in 1..(n + 1) : heard[i].BSSID = order'[k] /\ \A j \in 1..i : heard[j].BSSID # order'[l]
    <3>1. ASSUME NEW k \in DOMAIN order', NEW l \in DOMAIN order', k < l
          PROVE  \E i \in 1..(n + 1) : heard[i].BSSID = order'[k] /\ \A j \in 1..i : heard[j].BSSID # order'[l]
      <4>1. k \in DOMAIN order
        BY <1>3, <2>3, <3>1
      <4>2. CASE l \in DOMAIN order
        <5>1. PICK i \in 1..n : heard[i].BSSID = order[k] /\ \A j \in 1..i : heard[j].BSSID # order[l]
          BY <3>1, <4>1, <4>2 DEF Merged
        <5>. QED
          BY <1>1, <2>3, <4>1, <4>2, <5>1
      <4>3. CASE l = Len(order) + 1
        <5>1. PICK i \in 1..n : heard[i].BSSID = order[k]
          BY <4>1 DEF Merged
        <5>2. \A j \in 1..i : j \in 1..n
          OBVIOUS
        <5>. QED
          BY <1>1, <2>3, <2>4, <4>1, <4>3, <5>1, <5>2
      <4>. QED
        BY <2>3, <4>2, <4>3
    <3>. QED
      BY <3>1
  <2>. QED
    BY <1>1, <2>6, <2>7, <2>8 DEF Merged, StrongestOf
<1>6. CASE b \in DOMAIN byBSSID
  <2>1. order' = order /\ byBSSID' = IF Stronger(ap, byBSSID[b]) THEN Put(ap) ELSE byBSSID
    BY <1>6 DEF Merge
  <2>2. \E k \in DOMAIN order : order[k] = b
    BY <1>3, <1>6 DEF ToSet
  <2>. HIDE DEF ap
  <2>3. heard[n + 1].BSSID = b
    BY <1>m
  <2>. HIDE DEF b
  <2>4. \A i \in 1..(n + 1) : \E k \in DOMAIN order : order[k] = heard[i].BSSID
    BY <1>1, <2>2, <2>3 DEF Merged
  <2>5. ASSUME NEW k \in DOMAIN order
        PROVE  \E i \in 1..(n + 1) : /\ byBSSID'[order[k]] = heard[i] /\ heard[i].BSSID = order[k]
                                     /\ StrongestOf(i, n + 1)
    <3>1. PICK i \in 1..n : /\ byBSSID[order[k]] = heard[i] /\ heard[i].BSSID = order[k]
                            /\ StrongestOf(i, n)
      BY DEF Merged
    <3>2. CASE order[k] # b
      <4>1. StrongestOf(i, n + 1)
        BY <1>1, <2>3, <3>1, <3>2 DEF StrongestOf
      <4>2. byBSSID'[order[k]] = byBSSID[order[k]]
        BY <1>3, <1>4, <2>1, <3>2
      <4>. QED
        BY <1>1, <3>1, <4>1, <4>2
    <3>3. CASE order[k] = b /\ Stronger(ap, byBSSID[b])
      <4>1. byBSSID'[b] = heard[n + 1] /\ ap.Signal > heard[i].Signal
        BY <1>2, <1>4, <2>1, <3>1, <3>3 DEF Stronger, b
      <4>2. StrongestOf(n + 1, n + 1)
        <5>1. \A j \in 1..n : heard[j].BSSID = b => heard[j].Signal < ap.Signal
          <6>1. ASSUME NEW j \in 1..n, heard[j].BSSID = b PROVE heard[j].Signal < ap.Signal
            <7>1. heard[j].BSSID = heard[i].BSSID /\ j \in DOMAIN heard /\ i \in DOMAIN heard
              BY <1>1, <3>1, <3>3, <6>1
            <7>2. heard[j].Signal <= heard[i].Signal
              BY <1>2, <3>1, <7>1 DEF StrongestOf
            <7>. QED
              BY <1>2, <4>1, <7>1, <7>2
          <6>. QED
            BY <6>1
        <5>. QED
          BY <1>1, <1>2, <2>3, <5>1 DEF StrongestOf
      <4>3. n + 1 \in 1..(n + 1)
        OBVIOUS
      <4>. QED
        BY <2>3, <3>3, <4>1, <4>2, <4>3
    <3>4. CASE order[k] = b /\ ~Stronger(ap, byBSSID[b])
      <4>1. byBSSID' = byBSSID /\ ap.Signal <= heard[i].Signal
        BY <1>1, <1>2, <2>1, <3>1, <3>4 DEF Stronger
      <4>2. StrongestOf(i, n + 1)
        <5>1. heard[n + 1].Signal < heard[i].Signal \/ (heard[n + 1].Signal = heard[i].Signal /\ i <= n + 1)
          BY <1>1, <1>2, <4>1
        <5>. QED
          BY <1>1, <3>1, <5>1 DEF StrongestOf
      <4>. QED
        BY <1>1, <3>1, <4>1, <4>2
    <3>. QED
      BY <3>2, <3>3, <3>4
  <2>6. \A k, l \in DOMAIN order : k < l =>
          \E i \in 1..(n + 1) : heard[i].BSSID = order[k] /\ \A j \in 1..i : heard[j].BSSID # order[l]
    <3>1. ASSUME NEW k \in DOMAIN order, NEW l \in DOMAIN order, k < l
          PROVE  \E i \in 1..(n + 1) : heard[i].BSSID = order[k] /\ \A j \in 1..i : heard[j].BSSID # order[l]
      <4>1. PICK i \in 1..n : heard[i].BSSID = order[k] /\ \A j \in 1..i : heard[j].BSSID # order[l]
        BY <3>1 DEF Merged
      <4>. QED
        BY <1>1, <4>1
    <3>. QED
      BY <3>1
  <2>. QED
    BY <1>1, <2>1, <2>4, <2>5, <2>6 DEF Merged, StrongestOf
<1>. QED
  BY <1>5, <1>6

(* Every action keeps MergeInv. *)
LEMMA MergeStep ==
  TypeOK /\ TypeOK' /\ Shape /\ MergeInv /\ [Next]_vars => MergeInv'
<1>. SUFFICES ASSUME TypeOK, TypeOK', Shape, MergeInv, [Next]_vars PROVE MergeInv'
  OBVIOUS
<1>0. /\ Len(heard) \in Nat /\ Len(aps) \in Nat /\ next \in Nat /\ heard \in Seq(AP)
      /\ DOMAIN aps = 1..Len(aps) /\ DOMAIN heard = 1..Len(heard) /\ next \in 1..(Len(aps) + 1)
  BY DEF TypeOK
<1>same. ASSUME UNCHANGED <<merged, heard>>, Count' = Count PROVE Merged(Count)'
  <2>1. Merged(Count) /\ order' = order /\ byBSSID' = byBSSID /\ heard' = heard
    BY <1>same DEF MergeInv, merged
  <2>. HIDE DEF Count
  <2>. QED
    BY <1>same, <2>1 DEF Merged, StrongestOf
<1>1. CASE ExecFails
  <2>1. /\ pc = "exec" /\ NextIface /\ pc' \in {"exec", "done"}
        /\ UNCHANGED <<parser, aps, next, merged, heard>>
    BY <1>1 DEF ExecFails, NextIface
  <2>2. Count = Len(heard) /\ Count' = Count
    BY <2>1 DEF Count
  <2>3. MergeRight'
    BY <2>1, <2>2, Returns DEF MergeInv, merged
  <2>. QED
    BY <1>same, <2>1, <2>2, <2>3 DEF MergeInv
<1>2. CASE ExecOK \/ \E line \in Line : ReadLine(line)
  <2>1. pc \in {"exec", "parse"} /\ pc' = "parse" /\ UNCHANGED <<merged, heard>>
    BY <1>2 DEF ExecOK, ReadLine
  <2>2. Count' = Count
    BY <2>1 DEF Count
  <2>. QED
    BY <1>same, <2>1, <2>2 DEF MergeInv, MergeRight
<1>3. CASE ParseScanReturns
  <2>1. /\ pc = "parse" /\ pc' = "merge" /\ aps' = flush /\ heard' = heard \o flush
        /\ UNCHANGED <<next, merged>>
    BY <1>3 DEF ParseScanReturns
  <2>2. flush \in Seq(AP) /\ next = 1 /\ Count = Len(heard)
    BY <2>1, Flushed DEF Shape, Count
  <2>. DEFINE f == flush
  <2>. HIDE DEF f
  <2>3. f \in Seq(AP) /\ aps' = f /\ heard' = heard \o f
    BY <2>1, <2>2 DEF f
  <2>4. /\ Len(heard') = Len(heard) + Len(f) /\ Len(f) \in Nat /\ DOMAIN f = 1..Len(f)
        /\ \A k \in 1..Len(f) : heard'[Len(heard) + k] = f[k]
    BY <1>0, <2>3
  <2>5. Count' = Len(heard)
    BY <1>0, <2>1, <2>2, <2>3, <2>4 DEF Count
  <2>6. Merged(Count)'
    <3>1. PICK n \in Nat : n = Len(heard)
      BY <1>0
    <3>2. Merged(Len(heard))
      BY <2>2 DEF MergeInv
    <3>3. Merged(n)'
      BY <2>1, <2>3, <3>1, <3>2, MoreHeard
    <3>4. Count' = n
      BY <2>5, <3>1
    <3>. HIDE DEF Count
    <3>. QED
      BY <3>3, <3>4 DEF Merged, StrongestOf
  <2>7. /\ Len(aps') <= Len(heard')
        /\ \A k \in DOMAIN aps' : heard'[Len(heard') - Len(aps') + k] = aps'[k]
    <3>1. Len(heard') - Len(aps') = Len(heard)
      BY <1>0, <2>3, <2>4
    <3>. QED
      BY <1>0, <2>3, <2>4, <3>1
  <2>. QED
    BY <2>1, <2>6, <2>7 DEF MergeInv, MergeRight
<1>4. CASE Merge
  <2>1. /\ pc = "merge" /\ next \in DOMAIN aps /\ next' = next + 1
        /\ UNCHANGED <<pc, aps, heard>>
    BY <1>4 DEF Merge
  <2>2. PICK n \in Nat : n = Len(heard) - Len(aps) + (next - 1)
    <3>1. Len(aps) <= Len(heard)
      BY <2>1 DEF MergeInv
    <3>2. Len(heard) - Len(aps) + (next - 1) \in Nat
      BY <1>0, <3>1
    <3>. QED
      BY <3>2
  <2>3. /\ n + 1 = Len(heard) - Len(aps) + next /\ n + 1 \in DOMAIN heard
        /\ heard[n + 1] = aps[next] /\ Count = n /\ Count' = n + 1
    BY <1>0, <2>1, <2>2 DEF MergeInv, Count
  <2>4. Merged(Count)'
    <3>1. Merged(n)
      BY <2>3 DEF MergeInv
    <3>2. Merged(n + 1)'
      BY <1>4, <2>3, <3>1, OneMore
    <3>. HIDE DEF Count
    <3>. QED
      BY <2>3, <3>2 DEF Merged, StrongestOf
  <2>. QED
    BY <2>1, <2>4 DEF MergeInv, MergeRight
<1>5. CASE MergeEnds
  <2>1. /\ pc = "merge" /\ next = Len(aps) + 1 /\ NextIface /\ pc' \in {"exec", "done"}
        /\ UNCHANGED <<merged, heard>>
    BY <1>5 DEF MergeEnds, NextIface
  <2>2. Count = Len(heard) /\ Count' = Count
    BY <1>0, <2>1 DEF Count
  <2>3. MergeRight'
    BY <2>1, <2>2, Returns DEF MergeInv, merged
  <2>. QED
    BY <1>same, <2>1, <2>2, <2>3 DEF MergeInv
<1>6. CASE UNCHANGED vars
  <2>1. UNCHANGED <<pc, aps, next, merged, failed, result, heard>> /\ Count' = Count
    BY <1>6 DEF vars, Count
  <2>2. MergeRight'
    BY <2>1 DEF MergeInv, MergeRight, Strongest, HeardBefore
  <2>. QED
    BY <1>same, <2>1, <2>2 DEF MergeInv
<1>. QED
  BY <1>1, <1>2, <1>3, <1>4, <1>5, <1>6 DEF Next

LEMMA MergeInit == Init => MergeInv
<1>. SUFFICES ASSUME Init PROVE MergeInv
  OBVIOUS
<1>1. DOMAIN order = {} /\ heard = <<>> /\ Len(heard) = 0 /\ pc # "merge" /\ Count = 0
  BY DEF Init, Count
<1>2. Merged(Count)
  BY <1>1 DEF Merged
<1>3. MergeRight
  BY <1>1 DEF Init, MergeRight
<1>. QED
  BY <1>1, <1>2, <1>3 DEF MergeInv

(* Scan returns each access point once, at its strongest and in the order in which
   they were first heard: byBSSID and order are those of what was heard so far. *)
THEOREM Merging == Spec => []MergeRight
<1>1. Spec => [](TypeOK /\ Shape /\ MergeInv)
  BY TypeInit, TypeStep, MergeInit, MergeStep, PTL DEF Spec
<1>. QED
  BY <1>1, PTL DEF MergeInv
-----------------------------------------------------------------------------
(* A non-empty set of lines has a last one. *)
LEMMA Latest ==
  ASSUME NEW n \in Nat, NEW S \in SUBSET (1..n), S # {}
  PROVE  Max(S) \in S /\ \A j \in S : j <= Max(S)
<1>. DEFINE T == {m \in Nat : \A j \in S : j <= m}
<1>1. n \in T /\ T \subseteq Nat
  OBVIOUS
<1>2. PICK m \in T : \A y \in T : ~(<<y, m>> \in OpToRel(<, Nat))
  BY <1>1, NatLessThanWellFounded, WFMin
<1>3. \A y \in T : ~(y < m)
  BY <1>2 DEF OpToRel
<1>4. m \in S
  <2>. SUFFICES ASSUME m \notin S PROVE FALSE
    OBVIOUS
  <2>1. m \in Nat /\ \A j \in S : j <= m /\ j \in Nat /\ j >= 1 /\ j # m
    OBVIOUS
  <2>. HIDE DEF T
  <2>2. PICK j \in S : TRUE
    OBVIOUS
  <2>3. m >= 1
    BY <2>1, <2>2
  <2>4. m - 1 \in Nat /\ m - 1 < m /\ \A j1 \in S : j1 <= m - 1
    BY <2>1, <2>3
  <2>5. m - 1 \in T
    BY <2>4 DEF T
  <2>. QED
    BY <1>3, <2>4, <2>5
<1>5. \E x \in S : \A y \in S : x >= y
  BY <1>4
<1>. QED
  BY <1>5 DEF Max

(* The lines so far, and one more. *)
LEMMA Lines ==
  ASSUME NEW txt \in Seq(Line), NEW line \in Line
  PROVE  /\ Append(txt, line) \in Seq(Line) /\ Len(txt) \in Nat
         /\ DOMAIN txt = 1..Len(txt) /\ DOMAIN Append(txt, line) = 1..(Len(txt) + 1)
         /\ Append(txt, line)[Len(txt) + 1] = line
         /\ \A i \in 1..Len(txt) : Append(txt, line)[i] = txt[i]
         /\ Starts(Append(txt, line)) = Starts(txt) \cup (IF line.kind = "BSS" THEN {Len(txt) + 1} ELSE {})
         /\ Starts(txt) \subseteq 1..Len(txt)
<1>1. /\ Append(txt, line) \in Seq(Line) /\ Len(txt) \in Nat
      /\ DOMAIN txt = 1..Len(txt) /\ DOMAIN Append(txt, line) = 1..(Len(txt) + 1)
      /\ Append(txt, line)[Len(txt) + 1] = line
      /\ \A i \in 1..Len(txt) : Append(txt, line)[i] = txt[i]
  OBVIOUS
<1>2. \A i \in 1..(Len(txt) + 1) : i \in 1..Len(txt) \/ i = Len(txt) + 1
  BY <1>1
<1>3. Len(txt) + 1 \in 1..(Len(txt) + 1) /\ \A i \in 1..Len(txt) : i \in 1..(Len(txt) + 1)
  BY <1>1
<1>. QED
  BY <1>1, <1>2, <1>3 DEF Starts

(* One more line says nothing new of a block, unless it is of this kind and the
   block is the last one. *)
LEMMA SaidAgain ==
  ASSUME NEW txt \in Seq(Line), NEW line \in Line, NEW i \in 1..Len(txt), NEW kind, NEW default,
         line.kind # kind \/ \E k \in Starts(txt) : k > i
  PROVE  Said(Append(txt, line), i, kind, default) = Said(txt, i, kind, default)
<1>. DEFINE n == Len(txt)
            more == Append(txt, line)
<1>1. /\ n \in Nat /\ DOMAIN txt = 1..n /\ DOMAIN more = 1..(n + 1) /\ more[n + 1] = line
      /\ \A j \in 1..n : more[j] = txt[j]
      /\ Starts(more) = Starts(txt) \cup (IF line.kind = "BSS" THEN {n + 1} ELSE {})
      /\ Starts(txt) \subseteq 1..n
  BY Lines
<1>. HIDE DEF n, more
<1>2. \A j \in 1..n : Starts(more) \cap (i + 1)..j = Starts(txt) \cap (i + 1)..j
  BY <1>1
<1>3. n + 1 \notin Of(more, i, kind)
  <2>1. CASE line.kind # kind
    BY <1>1, <2>1 DEF Of
  <2>2. CASE \E k \in Starts(txt) : k > i
    <3>1. PICK k \in Starts(txt) : k > i
      BY <2>2
    <3>2. k \in Starts(more) /\ k \in (i + 1)..(n + 1)
      BY <1>1, <3>1 DEF n
    <3>. QED
      BY <3>2 DEF Of
  <2>. QED
    BY <2>1, <2>2
<1>4. \A j \in 1..(n + 1) : j \in 1..n \/ j = n + 1
  BY <1>1
<1>5. \A j \in 1..n : j \in 1..(n + 1)
  BY <1>1
<1>6. Of(more, i, kind) = Of(txt, i, kind)
  <2>1. \A j \in 1..n : j \in Of(more, i, kind) <=> j \in Of(txt, i, kind)
    BY <1>1, <1>2, <1>5 DEF Of
  <2>2. Of(more, i, kind) \subseteq 1..(n + 1) /\ Of(txt, i, kind) \subseteq 1..n
    BY <1>1 DEF Of
  <2>. QED
    BY <1>3, <1>4, <2>1, <2>2
<1>7. CASE Of(txt, i, kind) = {}
  BY <1>6, <1>7 DEF Said, more
<1>8. CASE Of(txt, i, kind) # {}
  <2>1. Of(txt, i, kind) \in SUBSET (1..n)
    BY <1>1 DEF Of
  <2>2. Max(Of(txt, i, kind)) \in 1..n
    BY <1>1, <1>8, <2>1, Latest
  <2>. QED
    BY <1>1, <1>6, <1>8, <2>2 DEF Said, more
<1>. QED
  BY <1>7, <1>8

(* A line of this kind is what the last block says. *)
LEMMA SaidNow ==
  ASSUME NEW txt \in Seq(Line), NEW line \in Line, NEW i \in 1..Len(txt), NEW default,
         line.kind # "BSS", \A k \in Starts(txt) : k <= i
  PROVE  Said(Append(txt, line), i, line.kind, default) = line.val
<1>. DEFINE n == Len(txt)
            more == Append(txt, line)
            J == Of(more, i, line.kind)
<1>1. /\ n \in Nat /\ DOMAIN more = 1..(n + 1) /\ more[n + 1] = line
      /\ Starts(more) = Starts(txt) /\ Starts(txt) \subseteq 1..n
  <2>1. /\ n \in Nat /\ DOMAIN more = 1..(n + 1) /\ more[n + 1] = line
        /\ Starts(more) = Starts(txt) \cup (IF line.kind = "BSS" THEN {n + 1} ELSE {})
        /\ Starts(txt) \subseteq 1..n
    BY Lines
  <2>. HIDE DEF n, more
  <2>. QED
    BY <2>1
<1>2. n + 1 \in J /\ J \in SUBSET (1..(n + 1))
  <2>. HIDE DEF more
  <2>1. Starts(more) \cap (i + 1)..(n + 1) = {}
    BY <1>1
  <2>. QED
    BY <1>1, <2>1 DEF Of
<1>. HIDE DEF n, more, J
<1>3. Max(J) = n + 1
  <2>1. n + 1 \in Nat /\ J # {}
    BY <1>1, <1>2
  <2>2. Max(J) \in J /\ n + 1 <= Max(J)
    BY <1>2, <2>1, Latest
  <2>3. PICK m \in 1..(n + 1) : m = Max(J)
    BY <1>2, <2>2
  <2>. QED
    BY <1>1, <2>2, <2>3
<1>. QED
  BY <1>1, <1>2, <1>3 DEF Said, J, more

(* What one more line does to the entries: it starts one, goes on with the last
   one, and leaves the others alone. *)
LEMMA Entries ==
  ASSUME NEW txt \in Seq(Line), NEW line \in Line
  PROVE  /\ \A i \in Starts(txt) :
              line.kind = "BSS" \/ (\E k \in Starts(txt) : k > i)
                => Entry(Append(txt, line), i) = Entry(txt, i)
         /\ line.kind = "BSS" => Entry(Append(txt, line), Len(txt) + 1) = Started(line)
         /\ \A l \in Starts(txt) : line.kind # "BSS" /\ (\A k \in Starts(txt) : k <= l) =>
              Entry(Append(txt, line), l) = IF line.kind = "signal"
                                              THEN [Entry(txt, l) EXCEPT !.Signal = line.val]
                                              ELSE [Entry(txt, l) EXCEPT !.SSID = line.val]
<1>. DEFINE more == Append(txt, line)
<1>1. /\ Len(txt) \in Nat /\ DOMAIN more = 1..(Len(txt) + 1) /\ more[Len(txt) + 1] = line
      /\ \A j \in 1..Len(txt) : more[j] = txt[j]
      /\ Starts(txt) \subseteq 1..Len(txt)
      /\ line.kind \in {"BSS", "signal", "SSID"}
  BY Lines DEF Line
<1>2. ASSUME NEW i \in Starts(txt), line.kind = "BSS" \/ (\E k \in Starts(txt) : k > i)
      PROVE  Entry(more, i) = Entry(txt, i)
  <2>1. i \in 1..Len(txt) /\ more[i] = txt[i]
    BY <1>1
  <2>2. \A kind \in {"signal", "SSID"} : \A default :
          Said(more, i, kind, default) = Said(txt, i, kind, default)
    BY <1>2, <2>1, SaidAgain
  <2>. QED
    BY <2>1, <2>2 DEF Entry
<1>3. ASSUME line.kind = "BSS" PROVE Entry(more, Len(txt) + 1) = Started(line)
  <2>1. \A kind : Of(more, Len(txt) + 1, kind) = {}
    BY <1>1 DEF Of
  <2>. QED
    BY <1>1, <2>1 DEF Entry, Said, Started
<1>4. ASSUME NEW l \in Starts(txt), line.kind # "BSS", \A k \in Starts(txt) : k <= l
      PROVE  Entry(more, l) = IF line.kind = "signal"
                                THEN [Entry(txt, l) EXCEPT !.Signal = line.val]
                                ELSE [Entry(txt, l) EXCEPT !.SSID = line.val]
  <2>1. l \in 1..Len(txt) /\ more[l] = txt[l]
    BY <1>1
  <2>2. \A default : Said(more, l, line.kind, default) = line.val
    BY <1>4, <2>1, SaidNow
  <2>3. \A kind \in {"signal", "SSID"} : \A default :
          kind # line.kind => Said(more, l, kind, default) = Said(txt, l, kind, default)
    BY <2>1, SaidAgain
  <2>4. CASE line.kind = "signal"
    BY <2>1, <2>2, <2>3, <2>4 DEF Entry
  <2>5. CASE line.kind = "SSID"
    BY <2>1, <2>2, <2>3, <2>5 DEF Entry
  <2>. QED
    BY <1>1, <1>4, <2>4, <2>5
<1>. QED
  BY <1>2, <1>3, <1>4

(* A list goes on with the entry of a later block. *)
LEMMA ListsMore ==
  ASSUME NEW txt, NEW n \in Nat, NEW K \in SUBSET (1..n), NEW l \in 1..n, \A i \in K : i < l,
         NEW seq \in Seq(AP), NEW e \in AP, e = Entry(txt, l), Lists(seq, K, txt)
  PROVE  Lists(Append(seq, e), K \cup {l}, txt)
<1>. DEFINE Upto(S, i) == {j \in S : j <= i}
<1>1. IsFiniteSet(K) /\ Cardinality(K) = Len(seq) /\ Len(seq) \in Nat
  <2>1. IsFiniteSet(1..n)
    BY FS_Interval
  <2>2. IsFiniteSet(K)
    BY <2>1, FS_Subset
  <2>. QED
    BY <2>2 DEF Lists
<1>2. Cardinality(K \cup {l}) = Len(seq) + 1
  <2>1. l \notin K
    OBVIOUS
  <2>. QED
    BY <1>1, <2>1, FS_AddElement
<1>3. Len(Append(seq, e)) = Len(seq) + 1
  BY Appended
<1>4. ASSUME NEW i \in K PROVE Append(seq, e)[Cardinality(Upto(K \cup {l}, i))] = Entry(txt, i)
  <2>1. Upto(K \cup {l}, i) = Upto(K, i)
    OBVIOUS
  <2>2. /\ IsFiniteSet(Upto(K, i)) /\ Cardinality(Upto(K, i)) \in Nat
        /\ Cardinality(Upto(K, i)) <= Len(seq) /\ Cardinality(Upto(K, i)) # 0
    <3>1. Upto(K, i) \in SUBSET K /\ i \in Upto(K, i)
      OBVIOUS
    <3>. HIDE DEF Upto
    <3>2. IsFiniteSet(Upto(K, i)) /\ Cardinality(Upto(K, i)) <= Cardinality(K)
      BY <1>1, <3>1, FS_Subset
    <3>. QED
      BY <1>1, <3>1, <3>2, FS_CardinalityType, FS_EmptySet
  <2>3. seq[Cardinality(Upto(K, i))] = Entry(txt, i)
    BY DEF Lists
  <2>. HIDE DEF Upto
  <2>4. Cardinality(Upto(K, i)) \in DOMAIN seq
    BY <1>1, <2>2
  <2>. QED
    BY <2>1, <2>3, <2>4, Appended
<1>5. Append(seq, e)[Cardinality(Upto(K \cup {l}, l))] = Entry(txt, l)
  <2>1. Upto(K \cup {l}, l) = K \cup {l}
    <3>1. \A j \in K \cup {l} : j <= l
      OBVIOUS
    <3>. QED
      BY <3>1
  <2>. HIDE DEF Upto
  <2>2. Append(seq, e)[Len(seq) + 1] = e
    BY Appended
  <2>. QED
    BY <1>2, <2>1, <2>2
<1>. QED
  BY <1>2, <1>3, <1>4, <1>5 DEF Lists

LEMMA ListsAgain ==
  ASSUME NEW seq, NEW K, NEW L, K = L, NEW txt, NEW more, \A i \in K : Entry(more, i) = Entry(txt, i),
         Lists(seq, K, txt)
  PROVE  Lists(seq, L, more)
BY DEF Lists

(* With the invariant, flushing at any line gives what the lines say: cur is the
   entry of the last block, and is kept or not. *)
LEMMA FlushRight ==
  ASSUME TypeOK, Shape, ParseInv, pc \in {"exec", "parse"}
  PROVE  Lists(flush, Kept(text), text)
<1>0. /\ text \in Seq(Line) /\ Len(text) \in Nat /\ DOMAIN text = 1..Len(text)
      /\ Starts(text) \subseteq 1..Len(text) /\ Kept(text) \subseteq Starts(text)
  BY DEF Shape, Starts, Kept
<1>1. CASE have
  <2>1. PICK l \in Starts(text) : /\ \A i \in Starts(text) : i <= l
                                  /\ cur = Entry(text, l)
                                  /\ Lists(aps, Kept(text) \ {l}, text)
    BY <1>1 DEF ParseInv
  <2>2. l \in Kept(text) <=> Usable(cur)
    BY <2>1 DEF Kept
  <2>3. CASE Usable(cur)
    <3>1. flush = Append(aps, cur) /\ aps \in Seq(AP) /\ cur \in AP
      BY <1>1, <2>3 DEF flush, TypeOK
    <3>2. /\ Kept(text) \ {l} \in SUBSET (1..Len(text)) /\ l \in 1..Len(text)
          /\ (Kept(text) \ {l}) \cup {l} = Kept(text)
      BY <1>0, <2>2, <2>3
    <3>3. \A i \in Kept(text) \ {l} : i < l
      BY <1>0, <2>1
    <3>. DEFINE K == Kept(text) \ {l}
    <3>4. K \in SUBSET (1..Len(text)) /\ (\A i \in K : i < l) /\ Lists(aps, K, text)
      BY <2>1, <3>2, <3>3
    <3>5. K \cup {l} = Kept(text)
      BY <3>2
    <3>. HIDE DEF K
    <3>6. Lists(Append(aps, cur), K \cup {l}, text)
      BY <1>0, <2>1, <3>1, <3>2, <3>4, ListsMore
    <3>. QED
      BY <3>1, <3>5, <3>6
  <2>4. CASE ~Usable(cur)
    <3>1. flush = aps /\ Kept(text) \ {l} = Kept(text)
      BY <2>2, <2>4 DEF flush
    <3>. QED
      BY <2>1, <3>1
  <2>. QED
    BY <2>3, <2>4
<1>2. CASE ~have
  <2>1. flush = <<>> /\ Kept(text) = {}
    BY <1>0, <1>2 DEF ParseInv, flush
  <2>. QED
    BY <2>1, FS_EmptySet DEF Lists
<1>. QED
  BY <1>1, <1>2

(* Every line keeps ParseInv. *)
LEMMA LineStep ==
  ASSUME TypeOK, Shape, ParseInv, NEW line \in Line, ReadLine(line)
  PROVE  ParseInv'
<1>. DEFINE n == Len(text)
            more == Append(text, line)
<1>1. /\ pc = "parse" /\ pc' = "parse" /\ text' = more
  BY DEF ReadLine
<1>2. /\ text \in Seq(Line) /\ n \in Nat /\ more[n + 1] = line /\ n + 1 \in DOMAIN more
      /\ \A i \in 1..n : more[i] = text[i]
      /\ Starts(more) = Starts(text) \cup (IF line.kind = "BSS" THEN {n + 1} ELSE {})
      /\ Starts(text) \subseteq 1..n
      /\ line.kind \in {"BSS", "signal", "SSID"}
  <2>1. text \in Seq(Line) /\ line.kind \in {"BSS", "signal", "SSID"}
    BY DEF Shape, Line
  <2>. QED
    BY <2>1, Lines
<1>3. CASE line.kind = "BSS"
  <2>1. aps' = flush /\ cur' = Started(line) /\ have' = TRUE
    BY <1>3 DEF ReadLine
  <2>2. /\ \A i \in Starts(text) : Entry(more, i) = Entry(text, i)
        /\ Entry(more, n + 1) = Started(line)
    BY <1>2, <1>3, Entries
  <2>. HIDE DEF more, n
  <2>3. n + 1 \in Starts(more) /\ n + 1 \notin Starts(text) /\ \A i \in Starts(more) : i <= n + 1
    BY <1>2, <1>3
  <2>4. Kept(more) \ {n + 1} = Kept(text)
    BY <1>2, <1>3, <2>2, <2>3 DEF Kept
  <2>5. Lists(flush, Kept(text), text)
    BY <1>1, FlushRight
  <2>6. \A i \in Kept(text) : Entry(more, i) = Entry(text, i)
    BY <2>2 DEF Kept
  <2>7. Lists(flush, Kept(more) \ {n + 1}, more)
    BY <2>4, <2>5, <2>6, ListsAgain
  <2>8. \E l \in Starts(text') :
          /\ \A i \in Starts(text') : i <= l
          /\ cur' = Entry(text', l)
          /\ Lists(aps', Kept(text') \ {l}, text')
    BY <1>1, <2>1, <2>2, <2>3, <2>7
  <2>. QED
    BY <2>1, <2>8 DEF ParseInv
<1>4. CASE line.kind # "BSS"
  <2>1. /\ aps' = aps /\ have' = have
        /\ cur' = IF line.kind = "signal" THEN [cur EXCEPT !.Signal = line.val]
                                          ELSE [cur EXCEPT !.SSID = line.val]
    BY <1>2, <1>4 DEF ReadLine
  <2>2. Starts(more) = Starts(text)
    BY <1>2, <1>4
  <2>3. CASE have
    <3>1. PICK l \in Starts(text) : /\ \A i \in Starts(text) : i <= l
                                    /\ cur = Entry(text, l)
                                    /\ Lists(aps, Kept(text) \ {l}, text)
      BY <2>3 DEF ParseInv
    <3>2. cur' = Entry(more, l)
      BY <1>2, <1>4, <2>1, <3>1, Entries
    <3>3. \A i \in Starts(text) : i # l => Entry(more, i) = Entry(text, i)
      <4>1. \A i \in Starts(text) : i # l => l > i
        BY <1>2, <3>1
      <4>. QED
        BY <1>2, <4>1, Entries
    <3>. HIDE DEF more, n
    <3>4. Kept(text) \ {l} = Kept(more) \ {l}
      BY <2>2, <3>3 DEF Kept
    <3>5. \A i \in Kept(text) \ {l} : Entry(more, i) = Entry(text, i)
      BY <3>3 DEF Kept
    <3>6. Lists(aps, Kept(more) \ {l}, more)
      BY <3>1, <3>4, <3>5, ListsAgain
    <3>7. \E k \in Starts(text') :
            /\ \A i \in Starts(text') : i <= k
            /\ cur' = Entry(text', k)
            /\ Lists(aps', Kept(text') \ {k}, text')
      BY <1>1, <2>1, <2>2, <3>1, <3>2, <3>6
    <3>. QED
      BY <2>1, <2>3, <3>7 DEF ParseInv
  <2>4. CASE ~have
    BY <1>1, <2>1, <2>2, <2>4 DEF ParseInv
  <2>. QED
    BY <2>3, <2>4
<1>. QED
  BY <1>3, <1>4

(* Every action keeps ParseInv: only ParseScan touches what it is about. *)
LEMMA ParseStep == TypeOK /\ Shape /\ ParseInv /\ [Next]_vars => ParseInv'
<1>. SUFFICES ASSUME TypeOK, Shape, ParseInv, [Next]_vars PROVE ParseInv'
  OBVIOUS
<1>1. CASE ExecFails \/ ExecOK \/ UNCHANGED vars
  <2>1. UNCHANGED <<have, cur, text, aps>> /\ (pc' \in {"exec", "parse"} => pc \in {"exec", "parse"})
    BY <1>1 DEF ExecFails, ExecOK, vars, parser
  <2>. QED
    BY <2>1 DEF ParseInv
<1>2. ASSUME NEW line \in Line, ReadLine(line) PROVE ParseInv'
  BY <1>2, LineStep
<1>3. CASE ParseScanReturns
  BY <1>3 DEF ParseScanReturns, ParseInv, Starts
<1>4. CASE Merge
  BY <1>4 DEF Merge, ParseInv, parser
<1>5. CASE MergeEnds
  BY <1>5 DEF MergeEnds, ParseInv, parser, Shape
<1>. QED
  BY <1>1, <1>2, <1>3, <1>4, <1>5 DEF Next

(* Whatever the order and number of its lines, an output is read as it says. *)
THEOREM Parsing == Spec => []ParserRight
<1>1. Init => ParseInv
  BY DEF Init, ParseInv, Starts
<1>2. Spec => [](TypeOK /\ Shape /\ ParseInv)
  BY <1>1, TypeInit, TypeStep, ParseStep, PTL DEF Spec
<1>3. TypeOK /\ Shape /\ ParseInv => ParserRight
  BY FlushRight DEF ParserRight
<1>. QED
  BY <1>2, <1>3, PTL
=============================================================================
