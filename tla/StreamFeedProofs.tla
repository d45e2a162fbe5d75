-------------------------- MODULE StreamFeedProofs --------------------------
(***************************************************************************)
(* Theorems about StreamFeed, for all durations and bounds: with a daemon  *)
(* and a network around it geoinflux is still the Uploader, so that what   *)
(* is proved of that holds here, and positions reach InfluxDB in order.    *)
(***************************************************************************)
EXTENDS StreamFeed, UploaderProofs, FiniteSetTheorems

(* Every step is one of Uploader or leaves its variables alone: of the daemon's death
   geoinflux sees nothing but what the network brings. *)
LEMMA UploaderStep == [StreamNext]_streamVars => [Next]_vars
<1>. SUFFICES ASSUME [StreamNext]_streamVars PROVE [Next]_vars
  OBVIOUS
<1>1. CASE Publish \/ Withdraw \/ Restart \/ Send
  BY <1>1 DEF Publish, Withdraw, Restart, Send
<1>2. CASE Deliver
  BY <1>2 DEF Deliver, Kind, Next, Environment, TPVs
<1>3. CASE DeliverOther \/ Lost \/ Pass
  BY <1>3 DEF DeliverOther, Lost, Pass, Next, Environment
<1>4. CASE Receive \/ Discard \/ Point \/ NoPoint \/ Disconnect \/ Elsewhere
  BY <1>4 DEF Receive, Discard, Point, NoPoint, Disconnect, Elsewhere, Next, Step, Environment
<1>5. CASE UNCHANGED streamVars
  BY <1>5 DEF streamVars
<1>. QED
  BY <1>1, <1>2, <1>3, <1>4, <1>5 DEF StreamNext

(* geoinflux with this daemon and network behaves as Uploader says. *)
THEOREM Implements == StreamSpec => Spec
<1>1. StreamInit => Init
  BY DEF StreamInit
<1>. QED
  BY <1>1, UploaderStep, PTL DEF StreamSpec, Spec

-----------------------------------------------------------------------------

Position == Nat \cup {NoFix}

StreamTypes ==
  /\ served \in Position /\ point \in Position /\ doing \in Position
  /\ flight \in Seq(Position) /\ cargo \in Seq(Position)

(* Initially nothing is under way. *)
LEMMA StreamTypesInit == StreamInit => StreamTypes /\ Pipeline
BY DEF StreamInit, Init, StreamTypes, Pipeline, Position, NoFix, Never, Older, Before, After

(* Every action keeps the types. *)
LEMMA StreamTypesStep ==
  ASSUME TypeOK, StreamTypes, Len(cargo) = Len(feed), [StreamNext]_streamVars
  PROVE  StreamTypes'
<1>. USE DEF StreamTypes
<1>0. now \in Position /\ NoFix \in Position /\ <<>> \in Seq(Position)
  BY UploaderAssumption DEF TypeOK, Time, Position
<1>1. CASE Publish
  BY <1>0, <1>1 DEF Publish, pipe, ledger
<1>2. CASE Withdraw \/ Restart
  <2>1. served' \in Position /\ point' = point /\ doing' = doing /\ cargo' = cargo
    BY <1>0, <1>2 DEF Withdraw, Restart, pipe, ledger
  <2>2. flight' \in Seq(Position)
    BY <1>0, <1>2 DEF Withdraw, Restart, pipe
  <2>. QED
    BY <2>1, <2>2
<1>3. CASE Send
  BY <1>3 DEF Send, daemon, ledger
<1>4. CASE Deliver
  <2>1. Head(flight) \in Position /\ Tail(flight) \in Seq(Position)
    BY <1>4, FeedType DEF Deliver
  <2>. QED
    BY <1>4, <2>1 DEF Deliver, daemon, ledger
<1>5. CASE DeliverOther
  BY <1>0, <1>5 DEF DeliverOther, daemon, ledger
<1>6. CASE Lost \/ Pass \/ Elsewhere
  BY <1>0, <1>6 DEF Lost, Pass, Elsewhere, daemon, pipe, ledger
<1>7. CASE Receive \/ Discard
  <2>1. feed # <<>> /\ feed \in Seq([kind : TPVs \cup {"other"}, at : Time])
    BY <1>7 DEF Receive, OnTPV, Discard, SkipReport, TypeOK
  <2>2. cargo # <<>>
    BY <2>1
  <2>3. Head(cargo) \in Position /\ Tail(cargo) \in Seq(Position)
    BY <2>2, FeedType
  <2>. QED
    BY <1>7, <2>3 DEF Receive, Discard, daemon, ledger
<1>8. CASE Point \/ NoPoint \/ Disconnect
  <2>1. served' = served /\ point' \in Position /\ doing' \in Position
    BY <1>0, <1>8 DEF Point, NoPoint, Disconnect, daemon, ledger
  <2>2. flight' \in Seq(Position) /\ cargo' \in Seq(Position)
    BY <1>0, <1>8 DEF Point, NoPoint, Disconnect
  <2>. QED
    BY <2>1, <2>2
<1>9. CASE UNCHANGED streamVars
  BY <1>9 DEF streamVars, daemon, pipe, ledger
<1>. QED
  BY <1>1, <1>2, <1>3, <1>4, <1>5, <1>6, <1>7, <1>8, <1>9 DEF StreamNext
-----------------------------------------------------------------------------
(* No action lets a position overtake another. *)
LEMMA PipelineStep ==
  ASSUME TypeOK, TypeOK', StreamTypes, StreamTypes', Pipeline, [StreamNext]_streamVars
  PROVE  Pipeline'
<1>. USE DEF StreamTypes, Pipeline, Before, After, Older, NoFix, Never
<1>0. /\ now \in Nat /\ now' \in Nat
      /\ \A x \in {served, point, doing} : x \in Int /\ -1 <= x
      /\ \A i \in DOMAIN cargo : cargo[i] \in Int /\ -1 <= cargo[i]
      /\ \A i \in DOMAIN flight : flight[i] \in Int /\ -1 <= flight[i]
  <2>1. now \in Nat /\ now' \in Nat
    BY UploaderAssumption DEF TypeOK, Time
  <2>2. \A x \in Position : x \in Int /\ -1 <= x
    BY DEF Position
  <2>3. \A s \in Seq(Position) : \A i \in DOMAIN s : s[i] \in Position
    OBVIOUS
  <2>. QED
    BY <2>1, <2>2, <2>3
<1>00. feed \in Seq([kind : TPVs \cup {"other"}, at : Time])
  BY DEF TypeOK
<1>1. CASE Publish
  BY <1>0, <1>1 DEF Publish, vars, router, call, pipe, ledger
<1>2. CASE Withdraw
  BY <1>0, <1>2 DEF Withdraw, vars, router, call, pipe, ledger
<1>3. CASE Restart
  BY <1>0, <1>3 DEF Restart, vars, router, call, pipe, ledger
<1>4. CASE Send
  <2>1. flight' = Append(flight, served)
    BY <1>4 DEF Send
  <2>2. /\ UNCHANGED <<now, pc, tpv, feed, served, doing, point, cargo>>
    BY <1>4 DEF Send, vars, router, call, daemon, ledger
  <2>3. served \in Position /\ flight \in Seq(Position) /\ DOMAIN flight = 1..Len(flight)
        /\ DOMAIN flight' = 1..(Len(flight) + 1) /\ flight'[Len(flight) + 1] = served
        /\ \A i \in DOMAIN flight : flight'[i] = flight[i]
    BY <2>1, Appended
  <2>. QED
    BY <1>0, <2>1, <2>2, <2>3, Appended
<1>5. CASE Deliver
  <2>. DEFINE k == Kind(Head(flight))
  <2>1. /\ flight # <<>> /\ flight' = Tail(flight)
        /\ cargo' = Append(cargo, Head(flight))
        /\ feed' = Append(feed, [kind |-> k, at |-> now])
        /\ UNCHANGED <<now, pc, tpv, served, doing, point>>
    BY <1>5 DEF Deliver, Arrive, call, daemon, ledger
  <2>2. Head(flight) = flight[1] /\ flight[1] \in Position /\ 1 \in DOMAIN flight
    BY <2>1, Taken
  <2>3. k = "fix" <=> flight[1] # NoFix
    BY <2>2 DEF Kind
  <2>4. [kind |-> k, at |-> now] \in [kind : TPVs \cup {"other"}, at : Time]
    BY DEF Kind, TPVs, TypeOK
  <2>5. /\ Len(cargo') = Len(feed')
        /\ \A i \in DOMAIN cargo' : feed'[i].kind = "fix" <=> cargo'[i] # NoFix
    BY <1>00, <2>1, <2>2, <2>3, <2>4, Appended
  <2>6. \A i \in DOMAIN cargo' :
          \/ i \in DOMAIN cargo /\ cargo'[i] = cargo[i]
          \/ i = Len(cargo) + 1 /\ cargo'[i] = flight[1]
    BY <2>1, <2>2, Appended
  <2>7. \A i \in DOMAIN flight' : i + 1 \in DOMAIN flight /\ flight'[i] = flight[i + 1] /\ i + 1 > 1
    BY <2>1, Taken
  <2>8. \A i, j \in DOMAIN cargo' : i < j => i \in DOMAIN cargo /\ cargo'[i] = cargo[i]
    BY <2>1, <2>2, Appended
  <2>9. \A i, j \in DOMAIN cargo' : i < j => Older(cargo'[i], cargo'[j])
    <3>1. ASSUME NEW i \in DOMAIN cargo', NEW j \in DOMAIN cargo', i < j
          PROVE  Older(cargo'[i], cargo'[j])
      <4>1. i \in DOMAIN cargo /\ cargo'[i] = cargo[i]
        BY <2>8, <3>1
      <4>2. CASE j \in DOMAIN cargo /\ cargo'[j] = cargo[j]
        BY <3>1, <4>1, <4>2
      <4>3. CASE cargo'[j] = flight[1]
        BY <2>2, <4>1, <4>3
      <4>. QED
        BY <2>6, <4>2, <4>3
    <3>. QED
      BY <3>1
  <2>10. \A i \in DOMAIN cargo', j \in DOMAIN flight' : Older(cargo'[i], flight'[j])
    BY <1>0, <2>2, <2>6, <2>7
  <2>11. \A i, j \in DOMAIN flight' : i < j => Older(flight'[i], flight'[j])
    <3>1. ASSUME NEW i \in DOMAIN flight', NEW j \in DOMAIN flight', i < j
          PROVE  Older(flight'[i], flight'[j])
      <4>1. i \in Nat /\ j \in Nat
        BY <2>1, Taken
      <4>2. i + 1 < j + 1
        BY <3>1, <4>1
      <4>. QED
        BY <2>7, <4>2
    <3>. QED
      BY <3>1
  <2>12. \A i \in DOMAIN cargo' : Before(cargo[i])' /\ After(cargo[i])'
    BY <2>1, <2>2, <2>6
  <2>13. \A i \in DOMAIN flight' : Before(flight[i])' /\ After(flight[i])'
    BY <2>1, <2>7
  <2>. QED
    BY <2>1, <2>5, <2>9, <2>10, <2>11, <2>12, <2>13
<1>6. CASE DeliverOther
  <2>1. /\ cargo' = Append(cargo, NoFix) /\ flight' = flight
        /\ feed' = Append(feed, [kind |-> "other", at |-> now])
        /\ UNCHANGED <<now, pc, tpv, served, doing, point>>
    BY <1>6 DEF DeliverOther, Arrive, call, daemon, ledger
  <2>2. [kind |-> "other", at |-> now] \in [kind : TPVs \cup {"other"}, at : Time] /\ NoFix \in Position
    BY DEF TypeOK, Position
  <2>3. /\ Len(cargo') = Len(feed')
        /\ \A i \in DOMAIN cargo' : feed'[i].kind = "fix" <=> cargo'[i] # NoFix
    BY <1>00, <2>1, <2>2, Appended
  <2>4. \A i \in DOMAIN cargo' :
          \/ i \in DOMAIN cargo /\ cargo'[i] = cargo[i]
          \/ i = Len(cargo) + 1 /\ cargo'[i] = NoFix
    BY <2>1, <2>2, Appended
  <2>5. \A i, j \in DOMAIN cargo' : i < j => Older(cargo'[i], cargo'[j])
    BY <1>0, <2>4
  <2>6. \A i \in DOMAIN cargo', j \in DOMAIN flight' : Older(cargo'[i], flight'[j])
    BY <1>0, <2>1, <2>4
  <2>7. \A i \in DOMAIN cargo' : Before(cargo[i])' /\ After(cargo[i])'
    BY <1>0, <2>1, <2>4
  <2>. QED
    BY <1>0, <2>1, <2>3, <2>5, <2>6, <2>7
<1>7. CASE Lost
  BY <1>0, <1>7 DEF Lost, Drop, call, daemon, ledger
<1>8. CASE Pass
  BY <1>0, <1>8 DEF Pass, Tick, router, call, daemon, pipe, ledger
<1>9. CASE Receive
  <2>1. /\ feed # <<>> /\ feed' = Tail(feed) /\ cargo' = Tail(cargo) /\ flight' = flight
        /\ doing' = Head(cargo) /\ tpv' = Head(feed)
        /\ UNCHANGED <<now, served, point>>
    BY <1>9 DEF Receive, OnTPV, daemon
  <2>2. cargo # <<>> /\ Head(cargo) = cargo[1] /\ 1 \in DOMAIN cargo /\ Head(feed) = feed[1]
    BY <1>00, <2>1, Taken
  <2>3. \A i \in DOMAIN cargo' : i \in Nat /\ i + 1 \in DOMAIN cargo /\ cargo'[i] = cargo[i + 1]
                                /\ feed'[i] = feed[i + 1] /\ i + 1 > 1
    BY <1>00, <2>1, <2>2, Taken
  <2>4. Len(cargo') = Len(feed')
    BY <1>00, <2>1, <2>2, Taken
  <2>5. \A i \in DOMAIN cargo' : feed'[i].kind = "fix" <=> cargo'[i] # NoFix
    BY <2>3
  <2>6. tpv'.kind = "fix" <=> doing' # NoFix
    BY <2>1, <2>2
  <2>7. \A i \in DOMAIN cargo' : /\ Older(point', cargo'[i]) /\ Older(doing', cargo'[i])
                                 /\ Older(cargo'[i], served') /\ cargo'[i] <= now'
    BY <2>1, <2>2, <2>3
  <2>8. \A i, j \in DOMAIN cargo' : i < j => Older(cargo'[i], cargo'[j])
    <3>1. ASSUME NEW i \in DOMAIN cargo', NEW j \in DOMAIN cargo', i < j
          PROVE  Older(cargo'[i], cargo'[j])
      <4>1. i + 1 < j + 1
        BY <2>3, <3>1
      <4>. QED
        BY <2>3, <4>1
    <3>. QED
      BY <3>1
  <2>. QED
    BY <1>0, <2>1, <2>2, <2>3, <2>4, <2>5, <2>6, <2>7, <2>8
<1>10. CASE Discard
  <2>1. /\ feed # <<>> /\ feed' = Tail(feed) /\ cargo' = Tail(cargo) /\ flight' = flight
        /\ pc' = "read" /\ UNCHANGED <<now, served, point, doing>>
    BY <1>10 DEF Discard, SkipReport, Block, daemon, ledger
  <2>2. cargo # <<>>
    BY <1>00, <2>1
  <2>3. \A i \in DOMAIN cargo' : i + 1 \in DOMAIN cargo /\ cargo'[i] = cargo[i + 1]
                                /\ feed'[i] = feed[i + 1]
    BY <1>00, <2>1, <2>2, Taken
  <2>4. Len(cargo') = Len(feed')
    BY <1>00, <2>1, <2>2, Taken
  <2>5. \A i \in DOMAIN cargo' : feed'[i].kind = "fix" <=> cargo'[i] # NoFix
    BY <2>3
  <2>6. \A i \in DOMAIN cargo' : (Before(cargo[i])' /\ After(cargo[i])')
                                /\ \A j \in DOMAIN cargo' : i < j => Older(cargo'[i], cargo'[j])
    <3>1. ASSUME NEW i \in DOMAIN cargo', NEW j \in DOMAIN cargo', i < j
          PROVE  Older(cargo'[i], cargo'[j])
      <4>1. i + 1 < j + 1
        BY <2>3, <3>1
      <4>. QED
        BY <2>3, <4>1
    <3>2. ASSUME NEW i \in DOMAIN cargo' PROVE Before(cargo[i])' /\ After(cargo[i])'
      BY <2>1, <2>3
    <3>. QED
      BY <3>1, <3>2
  <2>7. \A i \in DOMAIN cargo', j \in DOMAIN flight' : Older(cargo'[i], flight'[j])
    BY <2>1, <2>3
  <2>. QED
    BY <2>1, <2>4, <2>5, <2>6, <2>7
<1>11. CASE Point
  BY <1>0, <1>11 DEF Point, WriteGeo, Block, router, daemon
<1>12. CASE NoPoint
  BY <1>0, <1>12 DEF NoPoint, SkipGeo, Return, Block, router, daemon, ledger
<1>13. CASE Disconnect
  <2>1. pc' \in {"top", "lost", "wait", "read"}
    BY <1>13 DEF Disconnect, StreamFails, Connect, Disconnected, Block
  <2>2. /\ feed' = <<>> /\ cargo' = <<>> /\ flight' = <<>>
        /\ UNCHANGED <<now, served, doing, point>>
    BY <1>13 DEF Disconnect, StreamFails, Connect, daemon
  <2>. QED
    BY <1>0, <2>1, <2>2
<1>14. CASE Elsewhere
  <2>1. UNCHANGED <<now, served, point, doing, cargo, flight>>
    BY <1>14 DEF Elsewhere, WriteDone, StartDial, Exit, Retry, CloseOnDone, Cancel,
                 daemon, pipe, ledger
  <2>2. feed' = feed /\ (pc' \in {"status", "geo"} => pc \in {"status", "geo"} /\ tpv' = tpv)
    BY <1>14 DEF Elsewhere, WriteDone, StartDial, Exit, Retry, CloseOnDone, Cancel, Block, Return,
                 router, call
  <2>. QED
    BY <1>0, <2>1, <2>2
<1>15. CASE UNCHANGED streamVars
  BY <1>0, <1>15 DEF streamVars, vars, router, call, daemon, pipe, ledger
<1>. QED
  BY <1>1, <1>2, <1>3, <1>4, <1>5, <1>6, <1>7, <1>8, <1>9, <1>10, <1>11, <1>12,
     <1>13, <1>14, <1>15 DEF StreamNext

(* The pipeline is in order, always. *)
THEOREM InOrder == StreamSpec => []Pipeline
<1>1. StreamSpec => []TypeOK
  BY Implements, UploaderTypes
<1>2. TypeOK /\ TypeOK' /\ StreamTypes /\ Pipeline /\ [StreamNext]_streamVars => StreamTypes' /\ Pipeline'
  BY StreamTypesStep, PipelineStep DEF Pipeline
<1>. QED
  BY <1>1, <1>2, StreamTypesInit, PTL DEF StreamSpec

(* Points never go back in time: only Point writes one, and it is no older than
   what was written before it. *)
THEOREM PointsInOrder == StreamSpec => PointsAdvance
<1>1. StreamSpec => []TypeOK
  BY Implements, UploaderTypes
<1>2. ASSUME TypeOK, Pipeline, [StreamNext]_streamVars, point' # point
      PROVE  point' >= point /\ point' <= now
  <2>1. Point
    BY <1>2 DEF StreamNext, streamVars, ledger, Publish, Withdraw, Restart, Send, Deliver,
                DeliverOther, Lost, Pass, Receive, Discard, NoPoint, Disconnect, Elsewhere
  <2>2. pc = "geo" /\ tpv.kind = "fix" /\ point' = doing
    BY <2>1 DEF Point, WriteGeo, GeoDue
  <2>. QED
    BY <1>2, <2>2 DEF Pipeline, Older, After
<1>. QED
  BY <1>1, <1>2, InOrder, PTL DEF StreamSpec, PointsAdvance
-----------------------------------------------------------------------------
(***************************************************************************)
(* When a position reaches onTPV.  Of what is in the socket only TPVs take *)
(* time, so their number is what counts.                                   *)
(***************************************************************************)

\* The TPVs among the first i - 1 reports of s, and how many they are.
Ahead(s, i) == {j \in 1..(i - 1) : s[j].kind \in TPVs}
TPVsAhead(s, i) == Cardinality(Ahead(s, i))

LEMMA AheadCounts ==
  ASSUME NEW s, NEW i \in Nat \ {0}
  PROVE  IsFiniteSet(Ahead(s, i)) /\ TPVsAhead(s, i) \in Nat /\ TPVsAhead(s, i) <= i - 1
<1>1. IsFiniteSet(1..(i - 1)) /\ Cardinality(1..(i - 1)) = i - 1
  BY FS_Interval
<1>2. Ahead(s, i) \in SUBSET (1..(i - 1))
  BY DEF Ahead
<1>. QED
  BY <1>1, <1>2, FS_Subset, FS_CardinalityType DEF TPVsAhead

(* A report that arrives is behind all others, and counts if it is a TPV. *)
LEMMA AheadAppended ==
  ASSUME NEW S, NEW s \in Seq(S), NEW e \in S
  PROVE  /\ \A i \in 1..(Len(s) + 1) : TPVsAhead(Append(s, e), i) = TPVsAhead(s, i)
         /\ TPVsAhead(Append(s, e), Len(s) + 2)
              = TPVsAhead(s, Len(s) + 1) + (IF e.kind \in TPVs THEN 1 ELSE 0)
<1>0. Len(s) \in Nat
  OBVIOUS
<1>1. ASSUME NEW i \in 1..(Len(s) + 1) PROVE Ahead(Append(s, e), i) = Ahead(s, i)
  BY <1>0, Appended DEF Ahead
<1>2. Ahead(Append(s, e), Len(s) + 2)
        = IF e.kind \in TPVs THEN Ahead(s, Len(s) + 1) \cup {Len(s) + 1} ELSE Ahead(s, Len(s) + 1)
  <2>1. 1..((Len(s) + 2) - 1) = (1..((Len(s) + 1) - 1)) \cup {Len(s) + 1}
    BY <1>0
  <2>2. \A j \in 1..((Len(s) + 1) - 1) : Append(s, e)[j] = s[j]
    BY <1>0, Appended
  <2>3. Append(s, e)[Len(s) + 1] = e
    BY Appended
  <2>. QED
    BY <2>1, <2>2, <2>3 DEF Ahead
<1>3. IsFiniteSet(Ahead(s, Len(s) + 1)) /\ Len(s) + 1 \notin Ahead(s, Len(s) + 1)
      /\ TPVsAhead(s, Len(s) + 1) \in Nat
  <2>1. Len(s) + 1 \in Nat \ {0}
    BY <1>0
  <2>2. Len(s) + 1 \notin 1..((Len(s) + 1) - 1)
    BY <1>0
  <2>. QED
    BY <2>1, <2>2, AheadCounts DEF Ahead
<1>4. Cardinality(Ahead(s, Len(s) + 1) \cup {Len(s) + 1}) = TPVsAhead(s, Len(s) + 1) + 1
  BY <1>3, FS_AddElement DEF TPVsAhead
<1>. QED
  BY <1>1, <1>2, <1>3, <1>4 DEF TPVsAhead

(* When the first is read the others have it no longer ahead of them. *)
LEMMA AheadTaken ==
  ASSUME NEW S, NEW s \in Seq(S), s # <<>>, NEW i \in 1..Len(s)
  PROVE  TPVsAhead(Tail(s), i) + (IF s[1].kind \in TPVs THEN 1 ELSE 0) <= TPVsAhead(s, i + 1)
<1>0. Len(s) \in Nat \ {0} /\ i \in Nat \ {0} /\ i + 1 \in Nat \ {0}
  BY Taken
<1>. DEFINE T == Ahead(Tail(s), i)
            U == Ahead(s, i + 1) \ {1}
            f == [j \in T |-> j + 1]
<1>1. IsFiniteSet(U) /\ Cardinality(U) + (IF s[1].kind \in TPVs THEN 1 ELSE 0) = TPVsAhead(s, i + 1)
  <2>1. IsFiniteSet(Ahead(s, i + 1)) /\ TPVsAhead(s, i + 1) \in Nat
    BY <1>0, AheadCounts
  <2>2. 1 \in Ahead(s, i + 1) <=> s[1].kind \in TPVs
    BY <1>0 DEF Ahead
  <2>3. /\ IsFiniteSet(U)
        /\ Cardinality(U) = IF 1 \in Ahead(s, i + 1) THEN Cardinality(Ahead(s, i + 1)) - 1
                                                   ELSE Cardinality(Ahead(s, i + 1))
    BY <2>1, FS_RemoveElement
  <2>. QED
    BY <2>1, <2>2, <2>3 DEF TPVsAhead
<1>2. ASSUME NEW j \in T PROVE j + 1 \in U
  <2>1. j \in 1..(Len(s) - 1) /\ j \in 1..(i - 1) /\ Tail(s)[j].kind \in TPVs
    BY <1>0, <1>2 DEF Ahead
  <2>2. Tail(s)[j] = s[j + 1]
    BY <2>1, Taken
  <2>. QED
    BY <1>0, <2>1, <2>2 DEF Ahead
<1>3. T \subseteq Nat
  BY <1>0 DEF Ahead
<1>4. f \in Injection(T, U)
  <2>1. f \in [T -> U]
    BY <1>2
  <2>2. \A a, b \in T : f[a] = f[b] => a = b
    BY <1>3
  <2>. HIDE DEF T, U, f
  <2>. QED
    BY <2>1, <2>2 DEF Injection, IsInjective
<1>5. Cardinality(T) <= Cardinality(U)
  <2>. HIDE DEF T, U, f
  <2>. QED
    BY <1>1, <1>4, FS_Injection
<1>6. Cardinality(T) \in Nat /\ Cardinality(U) \in Nat
  BY <1>0, <1>1, AheadCounts, FS_CardinalityType DEF TPVsAhead
<1>. QED
  BY <1>1, <1>5, <1>6 DEF TPVsAhead

\* What n TPVs may take in onTPV, and n in flight to get there.
Works(n) == n * (2 * WriteTimeout)
Gaps(n) == n * Gap

\* What is left of onTPV, at most.
Rest ==
  IF pc = "status" THEN (deadline - now) + WriteTimeout
  ELSE IF pc = "geo" THEN WriteTimeout
  ELSE IF pc = "geoWrite" THEN deadline - now
  ELSE 0

\* How long geoinflux, once it has read what is in the socket, waits for the next TPV.
Await == IF pc = "read" /\ feed = <<>>
           THEN (deadline - now) + Skips(MaxOthers - others)
           ELSE Skips(MaxOthers - others + 1)

\* When onTPV returns, and when it gets the next TPV if it does not yet have one.
Ready == now + Rest
NextAt == Ready + Await

\* When onTPV is called with report i of the socket, and with the k-th TPV in flight.
SocketAt(i) == Ready + Works(TPVsAhead(feed, i))
FlightAt(k) == NextAt + Works(TPVsAhead(feed, Len(feed) + 1)) + Gaps(k - 1)

\* The bounds that the queues and the calls keep.
WayInv ==
  /\ link = "none" => feed = <<>> /\ flight = <<>>
  /\ Len(feed) <= FeedCap /\ Len(flight) <= FlightCap /\ others <= MaxOthers
  /\ pc \in {"status", "geoWrite"} => now <= deadline /\ deadline <= now + WriteTimeout
  /\ pc = "read" => now <= deadline /\ deadline <= now + ReadTimeout
  /\ goneAt # Never => served = NoFix /\ goneAt \in 0..now
  /\ served # NoFix => now - served < MaxServedAge

(* The sums that Transit is made of. *)
LEMMA TransitSums ==
  /\ Gap \in Nat /\ Gap = Skips(MaxOthers + 1) + 2 * WriteTimeout
  /\ \A n \in Nat : Works(n) \in Nat /\ Works(n + 1) = Works(n) + 2 * WriteTimeout
                    /\ Gaps(n) \in Nat /\ Gaps(n + 1) = Gaps(n) + Gap
  /\ \A n, m \in Nat : n <= m => Works(n) <= Works(m) /\ Gaps(n) <= Gaps(m)
  /\ Transit \in Nat /\ Transit = Gaps(FlightCap) + Works(FeedCap)
<1>. USE UploaderAssumption, StreamAssumption
<1>1. Gap = Skips(MaxOthers + 1) + 2 * WriteTimeout
  BY DEF Gap, Skips
<1>2. Gap \in Nat
  <2>1. MaxOthers + 1 \in Nat /\ 2 * WriteTimeout \in Nat
    OBVIOUS
  <2>2. Skips(MaxOthers + 1) \in Nat
    BY <2>1, SkipsGrow
  <2>. QED
    BY <1>1, <2>1, <2>2
<1>3. /\ \A n \in Nat : Works(n) \in Nat /\ Works(n + 1) = Works(n) + 2 * WriteTimeout
      /\ \A n, m \in Nat : n <= m => Works(n) <= Works(m)
  <2>1. 2 * WriteTimeout \in Nat
    OBVIOUS
  <2>. QED
    BY <2>1, Multiples DEF Works
<1>4. /\ \A n \in Nat : Gaps(n) \in Nat /\ Gaps(n + 1) = Gaps(n) + Gap
      /\ \A n, m \in Nat : n <= m => Gaps(n) <= Gaps(m)
  <2>. HIDE DEF Gap
  <2>. QED
    BY <1>2, Multiples DEF Gaps
<1>5. Transit = Gaps(FlightCap) + Works(FeedCap)
  <2>1. FeedCap * 2 * WriteTimeout = FeedCap * (2 * WriteTimeout)
    OBVIOUS
  <2>. QED
    BY <2>1 DEF Transit, Gaps, Works
<1>6. Transit \in Nat
  <2>1. Gaps(FlightCap) \in Nat /\ Works(FeedCap) \in Nat
    BY <1>3, <1>4
  <2>. QED
    BY <1>5, <2>1
<1>. QED
  BY <1>1, <1>2, <1>3, <1>4, <1>5, <1>6

(* A call of onTPV and the wait for the next TPV take no more than a Gap. *)
LEMMA OneGap ==
  ASSUME TypeOK, WayInv
  PROVE  /\ now \in Nat /\ deadline \in Nat /\ others \in Nat /\ MaxOthers - others \in Nat
         /\ Rest \in Nat /\ Rest <= 2 * WriteTimeout
         /\ Await \in Nat /\ Await <= Skips(MaxOthers - others + 1)
         /\ Skips(MaxOthers - others) \in Nat
         /\ Skips(MaxOthers - others + 1) = Skips(MaxOthers - others) + ReadTimeout
         /\ Rest + Await <= Gap
         /\ MaxOthers - (others + 1) + 1 = MaxOthers - others
<1>. USE UploaderAssumption
<1>1. now \in Nat /\ deadline \in Nat /\ others \in Nat
  BY DEF TypeOK, Time
<1>2. MaxOthers - others \in Nat
  BY <1>1 DEF WayInv
<1>3. /\ Skips(MaxOthers - others) \in Nat
      /\ Skips(MaxOthers - others + 1) = Skips(MaxOthers - others) + ReadTimeout
  BY <1>2, SkipsGrow
<1>4. Rest \in Nat /\ Rest <= 2 * WriteTimeout
  BY <1>1 DEF Rest, WayInv
<1>5. Await \in Nat /\ Await <= Skips(MaxOthers - others + 1)
  BY <1>1, <1>3 DEF Await, WayInv
<1>6. Skips(MaxOthers - others + 1) <= Skips(MaxOthers + 1)
  <2>1. MaxOthers - others + 1 \in Nat /\ MaxOthers + 1 \in Nat /\ MaxOthers - others + 1 <= MaxOthers + 1
    BY <1>1, <1>2
  <2>. QED
    BY <2>1, SkipsGrow
<1>7. Skips(MaxOthers + 1) \in Nat
  <2>1. MaxOthers + 1 \in Nat
    OBVIOUS
  <2>. QED
    BY <2>1, SkipsGrow
<1>8. Rest + Await <= Gap
  BY <1>3, <1>4, <1>5, <1>6, <1>7, TransitSums
<1>9. MaxOthers - (others + 1) + 1 = MaxOthers - others
  BY <1>1, <1>2
<1>. QED
  BY <1>1, <1>2, <1>3, <1>4, <1>5, <1>8, <1>9

(* Whatever is under way is there within Transit. *)
LEMMA WithinTransit ==
  ASSUME TypeOK, WayInv
  PROVE  /\ \A i \in DOMAIN feed : SocketAt(i) \in Nat /\ SocketAt(i) <= now + Transit
         /\ \A k \in 1..FlightCap : FlightAt(k) \in Nat /\ FlightAt(k) <= now + Transit
<1>0. /\ Len(feed) \in Nat /\ DOMAIN feed = 1..Len(feed) /\ Len(feed) <= FeedCap
      /\ FeedCap \in Nat /\ FlightCap \in Nat
  BY UploaderAssumption, StreamAssumption DEF TypeOK, WayInv
<1>00. /\ now \in Nat /\ Rest \in Nat /\ Await \in Nat /\ Rest <= 2 * WriteTimeout /\ Rest + Await <= Gap
       /\ Gap \in Nat /\ Transit = Gaps(FlightCap) + Works(FeedCap)
       /\ Gaps(FlightCap) \in Nat /\ Works(FeedCap) \in Nat /\ 2 * WriteTimeout \in Nat
  BY <1>0, OneGap, TransitSums, UploaderAssumption
<1>1. ASSUME NEW i \in DOMAIN feed PROVE SocketAt(i) \in Nat /\ SocketAt(i) <= now + Transit
  <2>1. i \in Nat \ {0} /\ i - 1 <= FeedCap - 1 /\ FeedCap - 1 \in Nat
    BY <1>0
  <2>2. TPVsAhead(feed, i) \in Nat /\ TPVsAhead(feed, i) <= FeedCap - 1
    BY <1>0, <2>1, AheadCounts
  <2>3. Works(TPVsAhead(feed, i)) \in Nat /\ Works(TPVsAhead(feed, i)) <= Works(FeedCap - 1)
    BY <2>1, <2>2, TransitSums
  <2>4. Works((FeedCap - 1) + 1) = Works(FeedCap - 1) + 2 * WriteTimeout /\ Works(FeedCap - 1) \in Nat
    BY <2>1, TransitSums
  <2>5. (FeedCap - 1) + 1 = FeedCap
    BY <1>0
  <2>6. Works(FeedCap) = Works(FeedCap - 1) + 2 * WriteTimeout
    BY <2>4, <2>5
  <2>. QED
    BY <1>00, <2>3, <2>4, <2>6 DEF SocketAt, Ready
<1>2. ASSUME NEW k \in 1..FlightCap PROVE FlightAt(k) \in Nat /\ FlightAt(k) <= now + Transit
  <2>1. k - 1 \in Nat /\ k \in Nat /\ k <= FlightCap /\ (k - 1) + 1 = k
    BY <1>0
  <2>2. Gaps(k - 1) \in Nat /\ Gaps((k - 1) + 1) = Gaps(k - 1) + Gap /\ Gaps(k) <= Gaps(FlightCap)
    BY <1>0, <2>1, TransitSums
  <2>3. Gaps(k - 1) + Gap = Gaps(k)
    BY <2>1, <2>2
  <2>4. Len(feed) + 1 \in Nat \ {0} /\ (Len(feed) + 1) - 1 <= FeedCap
    BY <1>0
  <2>5. TPVsAhead(feed, Len(feed) + 1) \in Nat /\ TPVsAhead(feed, Len(feed) + 1) <= FeedCap
    BY <1>0, <2>4, AheadCounts
  <2>6. /\ Works(TPVsAhead(feed, Len(feed) + 1)) \in Nat
        /\ Works(TPVsAhead(feed, Len(feed) + 1)) <= Works(FeedCap)
    BY <1>0, <2>5, TransitSums
  <2>. DEFINE ahead == Works(TPVsAhead(feed, Len(feed) + 1))
              before == Gaps(k - 1)
  <2>7. FlightAt(k) = (now + Rest + Await) + ahead + before
    BY DEF FlightAt, NextAt, Ready
  <2>8. before \in Nat /\ before + Gap <= Gaps(FlightCap) /\ ahead \in Nat /\ ahead <= Works(FeedCap)
    BY <2>2, <2>3, <2>6
  <2>. HIDE DEF ahead, before
  <2>. QED
    BY <1>00, <2>7, <2>8
<1>. QED
  BY <1>1, <1>2

(* Every action keeps these bounds. *)
LEMMA WayStep ==
  ASSUME TypeOK, StreamTypes, WayInv, [StreamNext]_streamVars
  PROVE  WayInv'
<1>. USE UploaderAssumption, StreamAssumption DEF WayInv, NoFix, Never
<1>0. /\ now \in Nat /\ deadline \in Nat /\ others \in Nat
      /\ feed \in Seq([kind : TPVs \cup {"other"}, at : Time]) /\ flight \in Seq(Position)
  BY DEF TypeOK, Time, StreamTypes
<1>1. CASE Publish \/ Withdraw
  BY <1>0, <1>1 DEF Publish, Withdraw, vars, router, pipe
<1>2. CASE Restart
  BY <1>0, <1>2 DEF Restart, vars, router, pipe
<1>3. CASE Send
  <2>1. Len(flight') = Len(flight) + 1 /\ link = "up" /\ Len(flight) < FlightCap
    BY <1>3, <1>0, Appended DEF Send, StreamTypes
  <2>. QED
    BY <1>0, <1>3, <2>1 DEF Send, vars, router, daemon
<1>4. CASE Deliver
  <2>1. /\ Len(feed) < FeedCap /\ link = "up" /\ link' = "up" /\ flight' = Tail(flight) /\ flight # <<>>
        /\ feed' = Append(feed, [kind |-> Kind(Head(flight)), at |-> now]) /\ others' = 0
        /\ UNCHANGED <<now, pc, deadline, served, goneAt>>
    BY <1>4 DEF Deliver, Arrive, Kind, daemon
  <2>2. [kind |-> Kind(Head(flight)), at |-> now] \in [kind : TPVs \cup {"other"}, at : Time]
    BY DEF Kind, TPVs, TypeOK
  <2>3. Len(feed') = Len(feed) + 1
    BY <1>0, <2>1, <2>2, Appended
  <2>4. Len(flight') = Len(flight) - 1
    BY <1>0, <2>1, Taken
  <2>. QED
    BY <1>0, <2>1, <2>3, <2>4
<1>5. CASE DeliverOther
  <2>1. /\ Len(feed) < FeedCap /\ link = "up" /\ link' = "up" /\ flight' = flight
        /\ feed' = Append(feed, [kind |-> "other", at |-> now])
        /\ others < MaxOthers /\ others' = others + 1
        /\ UNCHANGED <<now, pc, deadline, served, goneAt>>
    BY <1>5 DEF DeliverOther, Arrive, daemon
  <2>2. [kind |-> "other", at |-> now] \in [kind : TPVs \cup {"other"}, at : Time]
    BY DEF TypeOK
  <2>3. Len(feed') = Len(feed) + 1
    BY <1>0, <2>1, <2>2, Appended
  <2>. QED
    BY <1>0, <2>1, <2>3
<1>6. CASE Lost
  BY <1>0, <1>6 DEF Lost, Drop, daemon
<1>7. CASE Pass
  BY <1>0, <1>7 DEF Pass, Tick, router, daemon, pipe
<1>8. CASE Receive \/ Discard
  <2>1. /\ feed # <<>> /\ feed' = Tail(feed) /\ flight' = flight
        /\ UNCHANGED <<now, link, others, served, goneAt>>
        /\ pc = "read"
    BY <1>8 DEF Receive, OnTPV, Discard, SkipReport, daemon
  <2>2. Len(feed') <= Len(feed) /\ link # "none" /\ Len(feed) \in Nat /\ Len(feed') \in Nat
    BY <1>0, <2>1, Taken
  <2>3. CASE Receive
    <3>1. \/ pc' = "status" /\ deadline' = now + WriteTimeout
          \/ pc' = "geo"
      BY <2>3 DEF Receive, OnTPV, Block
    <3>. QED
      BY <1>0, <2>1, <2>2, <3>1
  <2>4. CASE Discard
    <3>1. pc' = "read" /\ deadline' = now + ReadTimeout
      BY <2>4 DEF Discard, SkipReport, Block
    <3>. QED
      BY <1>0, <2>1, <2>2, <3>1
  <2>. QED
    BY <1>8, <2>3, <2>4
<1>9. CASE Point \/ NoPoint
  BY <1>0, <1>9 DEF Point, WriteGeo, NoPoint, SkipGeo, Return, Block, router, daemon
<1>10. CASE Disconnect
  <2>1. /\ feed' = <<>> /\ flight' = <<>> /\ UNCHANGED <<now, served, goneAt>>
        /\ others' = others \/ others' = 0
        /\ \/ pc' \in {"lost", "wait", "top"}
           \/ pc' = "read" /\ deadline' = now + ReadTimeout
    BY <1>10 DEF Disconnect, StreamFails, Disconnected, Connect, Block, daemon
  <2>. QED
    BY <1>0, <2>1
<1>11. CASE Elsewhere
  <2>1. CASE WriteDone
    BY <1>0, <1>11, <2>1 DEF Elsewhere, WriteDone, Return, Block, router, daemon, pipe
  <2>2. CASE ~WriteDone
    BY <1>0, <1>11, <2>2 DEF Elsewhere, StartDial, Exit, Retry, CloseOnDone, Cancel, Block, router, daemon, pipe
  <2>. QED
    BY <2>1, <2>2
<1>12. CASE UNCHANGED streamVars
  BY <1>0, <1>12 DEF streamVars, vars, router, daemon, pipe
<1>. QED
  BY <1>1, <1>2, <1>3, <1>4, <1>5, <1>6, <1>7, <1>8, <1>9, <1>10, <1>11, <1>12 DEF StreamNext

\* What report e may take in onTPV.
Cost(e) == IF e.kind \in TPVs THEN 2 * WriteTimeout ELSE 0

LEMMA Spans == TypeOK /\ WayInv => Ready \in Nat /\ NextAt \in Nat /\ Ready <= NextAt
<1>. SUFFICES ASSUME TypeOK, WayInv PROVE Ready \in Nat /\ NextAt \in Nat /\ Ready <= NextAt
  OBVIOUS
<1>1. now \in Nat /\ Rest \in Nat /\ Await \in Nat
  BY OneGap
<1>. QED
  BY <1>1 DEF Ready, NextAt

(* A step that moves nothing is no reason to be later, if what geoinflux is busy
   with does not end later. *)
LEMMA Unmoved ==
  ASSUME TypeOK, TypeOK', WayInv, WayInv', feed' = feed,
         feed # <<>> => Ready' <= Ready, NextAt' <= NextAt
  PROVE  /\ \A i \in DOMAIN feed : SocketAt(i)' <= SocketAt(i)
         /\ \A k \in Nat \ {0} : FlightAt(k)' <= FlightAt(k)
<1>0. /\ Ready \in Nat /\ Ready' \in Nat /\ NextAt \in Nat /\ NextAt' \in Nat
      /\ Len(feed) \in Nat /\ DOMAIN feed = 1..Len(feed)
  <2>1. feed \in Seq([kind : TPVs \cup {"other"}, at : Time])
    BY DEF TypeOK
  <2>2. (Ready \in Nat /\ NextAt \in Nat) /\ (Ready \in Nat /\ NextAt \in Nat)'
    BY Spans, PTL
  <2>. QED
    BY <2>1, <2>2
<1>1. ASSUME NEW i \in Nat \ {0} PROVE Works(TPVsAhead(feed, i)) \in Nat
  BY AheadCounts, TransitSums
<1>2. ASSUME NEW i \in DOMAIN feed PROVE SocketAt(i)' <= SocketAt(i)
  <2>1. Works(TPVsAhead(feed, i)) \in Nat
    BY <1>0, <1>1
  <2>2. SocketAt(i)' = Ready' + Works(TPVsAhead(feed, i))
    BY DEF SocketAt
  <2>. QED
    BY <1>0, <2>1, <2>2 DEF SocketAt
<1>3. ASSUME NEW k \in Nat \ {0} PROVE FlightAt(k)' <= FlightAt(k)
  <2>1. Len(feed) + 1 \in Nat \ {0} /\ k - 1 \in Nat
    BY <1>0
  <2>2. Works(TPVsAhead(feed, Len(feed) + 1)) \in Nat /\ Gaps(k - 1) \in Nat
    BY <1>1, <2>1, TransitSums
  <2>3. FlightAt(k)' = NextAt' + Works(TPVsAhead(feed, Len(feed) + 1)) + Gaps(k - 1)
    BY DEF FlightAt
  <2>. QED
    BY <1>0, <2>2, <2>3 DEF FlightAt
<1>. QED
  BY <1>2, <1>3

(* When the first report is read the others move up; if it is a TPV, its writes
   are no longer ahead of them but what geoinflux is busy with. *)
LEMMA MovedUp ==
  ASSUME TypeOK, TypeOK', WayInv, WayInv', feed # <<>>, feed' = Tail(feed),
         NEW c \in Nat, c = Cost(feed[1]), Ready' <= Ready + c, NextAt' <= NextAt + c
  PROVE  /\ \A i \in DOMAIN feed' : i + 1 \in DOMAIN feed /\ SocketAt(i)' <= SocketAt(i + 1)
         /\ \A k \in Nat \ {0} : FlightAt(k)' <= FlightAt(k)
<1>1. /\ Ready \in Nat /\ Ready' \in Nat /\ NextAt \in Nat /\ NextAt' \in Nat
  <2>1. (Ready \in Nat /\ NextAt \in Nat) /\ (Ready \in Nat /\ NextAt \in Nat)'
    BY Spans, PTL
  <2>. QED
    BY <2>1
<1>2. feed \in Seq([kind : TPVs \cup {"other"}, at : Time])
  BY DEF TypeOK
<1>3. /\ Len(feed) \in Nat \ {0} /\ DOMAIN feed = 1..Len(feed)
      /\ DOMAIN feed' = 1..(Len(feed) - 1) /\ Len(feed') = Len(feed) - 1
  BY <1>2, Taken
<1>4. ASSUME NEW i \in 1..Len(feed)
      PROVE  /\ Works(TPVsAhead(feed', i)) \in Nat /\ Works(TPVsAhead(feed, i + 1)) \in Nat
             /\ Works(TPVsAhead(feed', i)) + c <= Works(TPVsAhead(feed, i + 1))
  <2>. DEFINE n == TPVsAhead(feed', i)
              m == TPVsAhead(feed, i + 1)
              d == IF feed[1].kind \in TPVs THEN 1 ELSE 0
  <2>1. i \in Nat \ {0} /\ i + 1 \in Nat \ {0}
    BY <1>3
  <2>2. n \in Nat /\ m \in Nat
    BY <2>1, AheadCounts
  <2>3. n + d <= m
    BY <1>2, AheadTaken
  <2>. HIDE DEF n, m
  <2>4. Works(n) \in Nat /\ Works(m) \in Nat /\ Works(n + 1) = Works(n) + 2 * WriteTimeout
    BY <2>2, TransitSums
  <2>5. Works(n + d) <= Works(m)
    <3>1. n + d \in Nat
      BY <2>2
    <3>. HIDE DEF d
    <3>. QED
      BY <2>2, <2>3, <3>1, TransitSums
  <2>6. Works(n + d) = Works(n) + c
    <3>1. CASE feed[1].kind \in TPVs
      BY <2>4, <3>1 DEF Cost
    <3>2. CASE feed[1].kind \notin TPVs
      BY <2>2, <2>4, <3>2 DEF Cost
    <3>. QED
      BY <3>1, <3>2
  <2>7. Works(n) + c <= Works(m)
    BY <2>5, <2>6
  <2>. QED
    BY <2>4, <2>7 DEF n, m
<1>5. ASSUME NEW i \in DOMAIN feed' PROVE i + 1 \in DOMAIN feed /\ SocketAt(i)' <= SocketAt(i + 1)
  <2>1. i \in 1..Len(feed) /\ i + 1 \in DOMAIN feed
    BY <1>3
  <2>2. SocketAt(i)' = Ready' + Works(TPVsAhead(feed', i))
    BY DEF SocketAt
  <2>3. SocketAt(i + 1) = Ready + Works(TPVsAhead(feed, i + 1))
    BY DEF SocketAt
  <2>. DEFINE v == Works(TPVsAhead(feed', i))
              w == Works(TPVsAhead(feed, i + 1))
  <2>4. v \in Nat /\ w \in Nat /\ v + c <= w
    BY <1>4, <2>1
  <2>5. SocketAt(i)' = Ready' + v /\ SocketAt(i + 1) = Ready + w
    BY <2>2, <2>3
  <2>6. SocketAt(i)' <= SocketAt(i + 1)
    <3>. DEFINE r == Ready
                s == Ready'
    <3>1. r \in Nat /\ s \in Nat /\ s <= r + c
      BY <1>1
    <3>. HIDE DEF r, s, v, w
    <3>2. s + v <= r + w
      BY <2>4, <3>1
    <3>. QED
      BY <2>5, <3>2 DEF r, s
  <2>. QED
    BY <2>1, <2>6
<1>6. ASSUME NEW k \in Nat \ {0} PROVE FlightAt(k)' <= FlightAt(k)
  <2>1. k - 1 \in Nat
    OBVIOUS
  <2>2. Gaps(k - 1) \in Nat
    BY <2>1, TransitSums
  <2>3. FlightAt(k)' = NextAt' + Works(TPVsAhead(feed', Len(feed') + 1)) + Gaps(k - 1)
    BY DEF FlightAt
  <2>4. Len(feed') + 1 = Len(feed) /\ Len(feed) \in 1..Len(feed)
    BY <1>3
  <2>5. FlightAt(k)' = NextAt' + Works(TPVsAhead(feed', Len(feed))) + Gaps(k - 1)
    BY <2>3, <2>4
  <2>. DEFINE v == Works(TPVsAhead(feed', Len(feed)))
              w == Works(TPVsAhead(feed, Len(feed) + 1))
              g == Gaps(k - 1)
  <2>6. v \in Nat /\ w \in Nat /\ v + c <= w
    BY <1>4, <2>4
  <2>7. FlightAt(k)' = NextAt' + v + g /\ FlightAt(k) = NextAt + w + g /\ g \in Nat
    BY <2>2, <2>5 DEF FlightAt
  <2>. DEFINE r == NextAt
              s == NextAt'
  <2>8. r \in Nat /\ s \in Nat /\ s <= r + c
    BY <1>1
  <2>. HIDE DEF v, w, g, r, s
  <2>9. s + v + g <= r + w + g
    BY <2>6, <2>7, <2>8
  <2>. QED
    BY <2>7, <2>9 DEF r, s
<1>. QED
  BY <1>5, <1>6

(* A report that arrives delays only what arrives after it. *)
LEMMA Behind ==
  ASSUME TypeOK, TypeOK', WayInv, WayInv', Ready' = Ready,
         NEW e \in [kind : TPVs \cup {"other"}, at : Time], feed' = Append(feed, e),
         NEW c \in Nat, c = Cost(e)
  PROVE  /\ \A i \in 1..(Len(feed) + 1) : SocketAt(i)' = Ready + Works(TPVsAhead(feed, i))
         /\ \A k \in Nat \ {0} :
              FlightAt(k)' = NextAt' + Works(TPVsAhead(feed, Len(feed) + 1)) + c + Gaps(k - 1)
<1>1. feed \in Seq([kind : TPVs \cup {"other"}, at : Time])
  BY DEF TypeOK
<1>2. Len(feed) \in Nat /\ DOMAIN feed = 1..Len(feed) /\ Len(feed') = Len(feed) + 1
  BY <1>1, Appended
<1>3. \A i \in 1..(Len(feed) + 1) : TPVsAhead(feed', i) = TPVsAhead(feed, i)
  <2>1. \A i \in 1..(Len(feed) + 1) : TPVsAhead(Append(feed, e), i) = TPVsAhead(feed, i)
    <3>. DEFINE S == [kind : TPVs \cup {"other"}, at : Time]
    <3>1. feed \in Seq(S) /\ e \in S
      BY <1>1
    <3>. HIDE DEF S
    <3>. QED
      BY <3>1, AheadAppended
  <2>. QED
    BY <2>1
<1>4. ASSUME NEW i \in 1..(Len(feed) + 1) PROVE SocketAt(i)' = Ready + Works(TPVsAhead(feed, i))
  <2>1. SocketAt(i)' = Ready' + Works(TPVsAhead(feed', i))
    BY DEF SocketAt
  <2>. QED
    BY <1>3, <2>1
<1>7. Works(TPVsAhead(feed', Len(feed) + 2)) = Works(TPVsAhead(feed, Len(feed) + 1)) + c
  <2>. DEFINE n == TPVsAhead(feed, Len(feed) + 1)
  <2>1. TPVsAhead(feed', Len(feed) + 2) = n + (IF e.kind \in TPVs THEN 1 ELSE 0)
    BY <1>1, AheadAppended
  <2>2. n \in Nat
    <3>1. Len(feed) + 1 \in Nat \ {0}
      BY <1>2
    <3>. QED
      BY <3>1, AheadCounts
  <2>. HIDE DEF n
  <2>3. Works(n) \in Nat /\ Works(n + 1) = Works(n) + 2 * WriteTimeout
    BY <2>2, TransitSums
  <2>4. CASE e.kind \in TPVs
    BY <2>1, <2>3, <2>4 DEF n, Cost
  <2>5. CASE e.kind \notin TPVs
    <3>1. TPVsAhead(feed', Len(feed) + 2) = n
      BY <2>1, <2>2, <2>5
    <3>. QED
      BY <2>3, <2>5, <3>1 DEF n, Cost
  <2>. QED
    BY <2>4, <2>5
<1>8. ASSUME NEW k \in Nat \ {0}
      PROVE  FlightAt(k)' = NextAt' + Works(TPVsAhead(feed, Len(feed) + 1)) + c + Gaps(k - 1)
  <2>1. FlightAt(k)' = NextAt' + Works(TPVsAhead(feed', Len(feed') + 1)) + Gaps(k - 1)
    BY DEF FlightAt
  <2>2. Len(feed') + 1 = Len(feed) + 2
    BY <1>2
  <2>3. FlightAt(k)' = NextAt' + (Works(TPVsAhead(feed, Len(feed) + 1)) + c) + Gaps(k - 1)
    BY <1>7, <2>1, <2>2
  <2>4. Works(TPVsAhead(feed, Len(feed) + 1)) \in Nat /\ Gaps(k - 1) \in Nat /\ NextAt' \in Nat
    <3>1. Len(feed) + 1 \in Nat \ {0} /\ k - 1 \in Nat
      BY <1>2
    <3>2. (Ready \in Nat /\ NextAt \in Nat)'
      BY Spans, PTL
    <3>. QED
      BY <3>1, <3>2, AheadCounts, TransitSums
  <2>. QED
    BY <2>3, <2>4
<1>. QED
  BY <1>4, <1>8

\* Where position i of the socket, and position k in flight, were a step ago, and
\* that they are not later now.
SocketKept(i) ==
  \/ \E j \in DOMAIN cargo : cargo'[i] = cargo[j] /\ SocketAt(i)' <= SocketAt(j)
  \/ \E k \in DOMAIN flight : cargo'[i] = flight[k] /\ SocketAt(i)' <= FlightAt(k)
  \/ cargo'[i] = NoFix

FlightKept(k) ==
  \/ \E j \in DOMAIN flight : flight'[k] = flight[j] /\ FlightAt(k)' <= FlightAt(j)
  \/ Send /\ flight'[k] = served /\ FlightAt(k)' <= now + Transit

(* No step makes a position later: each write, wait and report on its way was
   counted. *)
LEMMA NoLater ==
  ASSUME TypeOK, TypeOK', StreamTypes, Len(cargo) = Len(feed), WayInv, WayInv',
         [StreamNext]_streamVars
  PROVE  /\ \A i \in DOMAIN cargo' : SocketKept(i)
         /\ \A k \in DOMAIN flight' : FlightKept(k)
<1>. USE UploaderAssumption, StreamAssumption
<1>0. /\ now \in Nat /\ now' \in Nat /\ deadline \in Nat /\ deadline' \in Nat
      /\ feed \in Seq([kind : TPVs \cup {"other"}, at : Time])
      /\ cargo \in Seq(Position) /\ flight \in Seq(Position)
      /\ DOMAIN cargo = DOMAIN feed /\ DOMAIN flight = 1..Len(flight) /\ Len(flight) \in Nat
  BY DEF TypeOK, Time, StreamTypes
<1>gap. /\ Skips(MaxOthers - others) \in Nat
        /\ Skips(MaxOthers - others + 1) = Skips(MaxOthers - others) + ReadTimeout
  BY OneGap
<1>unmoved. ASSUME feed' = feed, cargo' = cargo, flight' = flight \/ flight' = <<>>,
                   feed # <<>> => Ready' <= Ready, NextAt' <= NextAt
            PROVE  /\ \A i \in DOMAIN cargo' : SocketKept(i)
                   /\ \A k \in DOMAIN flight' : FlightKept(k)
  <2>1. /\ \A i \in DOMAIN feed : SocketAt(i)' <= SocketAt(i)
        /\ \A k \in Nat \ {0} : FlightAt(k)' <= FlightAt(k)
    BY <1>unmoved, Unmoved
  <2>2. ASSUME NEW i \in DOMAIN cargo' PROVE SocketKept(i)
    BY <1>0, <1>unmoved, <2>1 DEF SocketKept
  <2>3. ASSUME NEW k \in DOMAIN flight' PROVE FlightKept(k)
    <3>1. k \in DOMAIN flight /\ flight'[k] = flight[k] /\ k \in Nat \ {0}
      BY <1>0, <1>unmoved
    <3>. QED
      BY <2>1, <3>1 DEF FlightKept
  <2>. QED
    BY <2>2, <2>3
<1>empty. ASSUME cargo' = <<>>, flight' = <<>>
          PROVE  /\ \A i \in DOMAIN cargo' : SocketKept(i)
                 /\ \A k \in DOMAIN flight' : FlightKept(k)
  BY <1>empty
<1>same. ASSUME UNCHANGED <<now, pc, deadline, feed, others>>
         PROVE  Ready' = Ready /\ NextAt' = NextAt
  BY <1>same DEF Ready, NextAt, Rest, Await
<1>spans. Ready \in Nat /\ NextAt \in Nat
  BY Spans
<1>queue. cargo = <<>> <=> feed = <<>>
  BY <1>0
<1>idle. link = "none" => cargo = <<>> /\ flight = <<>>
  BY <1>queue DEF WayInv
\* A call of onTPV returns, and ReadTPV has ReadTimeout again.
<1>return. ASSUME now' = now, others' = others, pc' = "read", deadline' = now + ReadTimeout,
                  pc = "geo" \/ (pc = "geoWrite" /\ now <= deadline)
           PROVE  Ready' <= Ready /\ NextAt' <= NextAt
  <2>. DEFINE skips == Skips(MaxOthers - others)
  <2>1. Ready' = now /\ Ready \in Nat /\ now <= Ready
    BY <1>0, <1>return DEF Ready, Rest
  <2>2. NextAt = Ready + (skips + ReadTimeout)
    BY <1>gap, <1>return DEF NextAt, Await
  <2>3. Await' = skips + ReadTimeout
    <3>1. CASE feed' = <<>>
      <4>1. Await' = ((now + ReadTimeout) - now) + skips
        BY <1>return, <3>1 DEF Await
      <4>2. skips \in Nat
        BY <1>gap
      <4>. HIDE DEF skips
      <4>. QED
        BY <1>0, <4>1, <4>2
    <3>2. CASE feed' # <<>>
      BY <1>gap, <1>return, <3>2 DEF Await
    <3>. QED
      BY <3>1, <3>2
  <2>4. NextAt' = now + (skips + ReadTimeout)
    BY <2>1, <2>3 DEF NextAt
  <2>5. skips \in Nat
    BY <1>gap
  <2>. HIDE DEF skips
  <2>. QED
    BY <1>0, <2>1, <2>2, <2>4, <2>5
<1>1. CASE Publish \/ Withdraw \/ Restart \/ Lost
  <2>1. /\ UNCHANGED <<now, pc, deadline, feed, others, cargo>>
        /\ flight' = flight \/ flight' = <<>>
    BY <1>1 DEF Publish, Withdraw, Restart, Lost, Drop, vars, router, pipe
  <2>. QED
    BY <1>same, <1>spans, <1>unmoved, <2>1
<1>2. CASE Elsewhere /\ ~WriteDone
  <2>1. CASE StartDial \/ Exit \/ Retry
    <3>1. pc \in {"top", "wait"} /\ cargo' = cargo /\ flight' = flight
      BY <1>2, <2>1 DEF Elsewhere, StartDial, Exit, Retry, pipe
    <3>2. link = "none"
      BY <3>1 DEF TypeOK
    <3>. QED
      BY <1>empty, <1>idle, <3>1, <3>2
  <2>2. CASE CloseOnDone \/ Cancel
    <3>1. UNCHANGED <<now, pc, deadline, feed, others, cargo, flight>>
      BY <1>2, <2>2 DEF Elsewhere, CloseOnDone, Cancel, router, pipe
    <3>. QED
      BY <1>same, <1>spans, <1>unmoved, <3>1
  <2>. QED
    BY <1>2, <2>1, <2>2 DEF Elsewhere
<1>3. CASE Elsewhere /\ WriteDone
  <2>1. UNCHANGED <<now, feed, others, cargo, flight>>
    BY <1>3 DEF Elsewhere, WriteDone, router, pipe
  <2>2. CASE pc = "lost"
    <3>1. link = "none"
      BY <2>2 DEF TypeOK
    <3>. QED
      BY <1>empty, <1>idle, <2>1, <3>1
  <2>3. CASE pc \in {"status", "geoWrite"}
    <3>1. \/ pc = "status" /\ pc' = "geo" /\ deadline' = deadline
          \/ pc = "geoWrite" /\ pc' = "read" /\ deadline' = now + ReadTimeout
      BY <1>3, <2>3 DEF WriteDone, Return, Block
    <3>2. now <= deadline
      BY <2>3 DEF WayInv
    <3>3. Ready' <= Ready /\ NextAt' <= NextAt
      <4>1. CASE pc' = "read"
        BY <1>return, <2>1, <3>1, <3>2, <4>1
      <4>2. CASE pc' = "geo"
        BY <1>0, <1>gap, <2>1, <3>1, <3>2, <4>2 DEF Ready, NextAt, Rest, Await
      <4>. QED
        BY <3>1, <4>1, <4>2
    <3>. QED
      BY <1>unmoved, <2>1, <3>3
  <2>. QED
    BY <1>3, <2>2, <2>3 DEF WriteDone, Writing
<1>4. CASE Pass
  <2>1. /\ UNCHANGED <<pc, deadline, feed, others, link, cargo, flight>> /\ now' = now + 1
        /\ now < deadline /\ pc \in Blocked /\ (pc = "read" => feed = <<>>)
    BY <1>4 DEF Pass, Tick, router, pipe
  <2>2. CASE pc \in {"dial", "wait", "lost"}
    <3>1. link = "none"
      BY <2>2 DEF TypeOK
    <3>. QED
      BY <1>empty, <1>idle, <2>1, <3>1
  <2>3. CASE pc \in {"read", "status", "geoWrite"}
    <3>1. (feed # <<>> => Ready' <= Ready) /\ NextAt' <= NextAt
      BY <1>0, <1>gap, <2>1, <2>3 DEF Ready, NextAt, Rest, Await
    <3>. QED
      BY <1>unmoved, <2>1, <3>1
  <2>. QED
    BY <2>1, <2>2, <2>3 DEF Blocked, Writing
<1>5. CASE Point \/ NoPoint
  <2>1. /\ UNCHANGED <<now, feed, others, cargo, flight>> /\ pc = "geo"
        /\ \/ pc' = "geoWrite" /\ deadline' = now + WriteTimeout
           \/ pc' = "read" /\ deadline' = now + ReadTimeout
    BY <1>5 DEF Point, WriteGeo, NoPoint, SkipGeo, Return, Block, router
  <2>2. Ready' <= Ready /\ NextAt' <= NextAt
    <3>1. CASE pc' = "read"
      BY <1>return, <2>1, <3>1
    <3>2. CASE pc' = "geoWrite"
      BY <1>0, <1>gap, <2>1, <3>2 DEF Ready, NextAt, Rest, Await
    <3>. QED
      BY <2>1, <3>1, <3>2
  <2>. QED
    BY <1>unmoved, <2>1, <2>2
<1>6. CASE Disconnect
  BY <1>6, <1>empty DEF Disconnect
<1>7. CASE Receive \/ Discard
  <2>1. /\ feed # <<>> /\ feed' = Tail(feed) /\ cargo' = Tail(cargo) /\ flight' = flight
        /\ UNCHANGED <<now, others>> /\ pc = "read" /\ cargo # <<>>
    BY <1>queue, <1>7 DEF Receive, OnTPV, Discard, SkipReport, ledger
  <2>2. Cost(feed[1]) \in Nat /\ Ready' <= Ready + Cost(feed[1]) /\ NextAt' <= NextAt + Cost(feed[1])
    <3>. DEFINE skips == Skips(MaxOthers - others)
    <3>1. feed[1] = Head(feed)
      BY <1>0, <2>1, Taken
    <3>2. CASE Receive
      <4>1. /\ feed[1].kind \in TPVs
            /\ \/ pc' = "status" /\ deadline' = now + WriteTimeout
               \/ pc' = "geo"
        BY <3>1, <3>2 DEF Receive, OnTPV, Block
      <4>2. Cost(feed[1]) = 2 * WriteTimeout
        BY <4>1 DEF Cost
      <4>3. Ready = now /\ NextAt = now + (skips + ReadTimeout)
        BY <1>0, <1>gap, <2>1 DEF Ready, NextAt, Rest, Await
      <4>4. Ready' \in Nat /\ Ready' <= now + 2 * WriteTimeout
        <5>1. Ready' = now + Rest'
          BY <2>1 DEF Ready
        <5>2. CASE pc' = "status"
          <6>1. Rest' = ((now + WriteTimeout) - now) + WriteTimeout
            BY <2>1, <4>1, <5>2 DEF Rest
          <6>. QED
            BY <1>0, <5>1, <6>1
        <5>3. CASE pc' = "geo"
          <6>1. Rest' = WriteTimeout
            BY <5>3 DEF Rest
          <6>. QED
            BY <1>0, <5>1, <6>1
        <5>. QED
          BY <4>1, <5>2, <5>3
      <4>5. NextAt' = Ready' + (skips + ReadTimeout)
        BY <1>gap, <2>1, <4>1 DEF NextAt, Await
      <4>6. skips \in Nat
        BY <1>gap
      <4>. DEFINE r == Ready'
      <4>7. r \in Nat /\ r <= now + 2 * WriteTimeout
        BY <4>4
      <4>. HIDE DEF skips, r
      <4>8. r + (skips + ReadTimeout) <= (now + (skips + ReadTimeout)) + 2 * WriteTimeout
        BY <1>0, <4>6, <4>7
      <4>. QED
        BY <1>0, <4>2, <4>3, <4>4, <4>5, <4>8 DEF r
    <3>3. CASE Discard
      <4>1. feed[1].kind = "other" /\ pc' = "read" /\ deadline' = now + ReadTimeout
        BY <3>1, <3>3 DEF Discard, SkipReport, Block
      <4>2. Cost(feed[1]) = 0
        BY <4>1 DEF Cost, TPVs
      <4>3. Await' = skips + ReadTimeout
        <5>1. CASE feed' = <<>>
          <6>1. Await' = ((now + ReadTimeout) - now) + skips
            BY <2>1, <4>1, <5>1 DEF Await
          <6>2. skips \in Nat
            BY <1>gap
          <6>. HIDE DEF skips
          <6>. QED
            BY <1>0, <6>1, <6>2
        <5>2. CASE feed' # <<>>
          BY <1>gap, <2>1, <4>1, <5>2 DEF Await
        <5>. QED
          BY <5>1, <5>2
      <4>. QED
        BY <1>0, <1>gap, <2>1, <4>1, <4>2, <4>3 DEF Ready, NextAt, Rest, Await
    <3>. QED
      BY <1>7, <3>2, <3>3
  <2>3. /\ \A i \in DOMAIN feed' : i + 1 \in DOMAIN feed /\ SocketAt(i)' <= SocketAt(i + 1)
        /\ \A k \in Nat \ {0} : FlightAt(k)' <= FlightAt(k)
    BY <2>1, <2>2, MovedUp
  <2>4. ASSUME NEW i \in DOMAIN cargo' PROVE SocketKept(i)
    <3>1. i \in DOMAIN feed' /\ cargo'[i] = cargo[i + 1] /\ i + 1 \in DOMAIN cargo
      BY <1>0, <2>1, Taken
    <3>. QED
      BY <2>3, <3>1 DEF SocketKept
  <2>5. ASSUME NEW k \in DOMAIN flight' PROVE FlightKept(k)
    <3>1. k \in DOMAIN flight /\ flight'[k] = flight[k] /\ k \in Nat \ {0}
      BY <1>0, <2>1
    <3>. QED
      BY <2>3, <3>1 DEF FlightKept
  <2>. QED
    BY <2>4, <2>5
<1>8. CASE Send
  <2>1. UNCHANGED <<now, pc, deadline, feed, others, cargo>> /\ flight' = Append(flight, served)
    BY <1>8 DEF Send, vars, router
  <2>2. Ready' = Ready /\ NextAt' = NextAt
    BY <1>same, <2>1
  <2>3. /\ \A i \in DOMAIN feed : SocketAt(i)' <= SocketAt(i)
        /\ \A k \in Nat \ {0} : FlightAt(k)' <= FlightAt(k)
    BY <1>spans, <2>1, <2>2, Unmoved
  <2>4. ASSUME NEW i \in DOMAIN cargo' PROVE SocketKept(i)
    BY <1>0, <2>1, <2>3 DEF SocketKept
  <2>5. ASSUME NEW k \in DOMAIN flight' PROVE FlightKept(k)
    <3>1. served \in Position
      BY DEF StreamTypes
    <3>2. k \in 1..(Len(flight) + 1) /\ Len(flight') = Len(flight) + 1
      BY <1>0, <2>1, <3>1, Appended
    <3>3. CASE k \in 1..Len(flight)
      <4>1. k \in DOMAIN flight /\ flight'[k] = flight[k] /\ k \in Nat \ {0}
        BY <1>0, <2>1, <3>1, <3>3, Appended
      <4>. QED
        BY <2>3, <4>1 DEF FlightKept
    <3>4. CASE k = Len(flight) + 1
      <4>1. k \in 1..FlightCap /\ k \in Nat \ {0}
        BY <1>0, <3>2, <3>4 DEF WayInv
      <4>2. FlightAt(k) <= now + Transit /\ FlightAt(k) \in Nat
        BY <4>1, WithinTransit
      <4>3. FlightAt(k)' <= FlightAt(k)
        BY <2>3, <4>1
      <4>4. FlightAt(k)' <= now + Transit
        <5>1. FlightAt(k)' \in Int
          <6>1. FlightAt(k)' = NextAt + Works(TPVsAhead(feed, Len(feed) + 1)) + Gaps(k - 1)
            BY <2>1, <2>2 DEF FlightAt
          <6>. QED
            BY <4>2, <6>1 DEF FlightAt
        <5>2. Transit \in Nat
          BY TransitSums
        <5>. QED
          BY <1>0, <4>2, <4>3, <5>1, <5>2
      <4>5. flight'[k] = served
        BY <2>1, <3>1, <3>4, Appended
      <4>. QED
        BY <1>8, <4>4, <4>5 DEF FlightKept
    <3>. QED
      BY <1>0, <3>2, <3>3, <3>4
  <2>. QED
    BY <2>4, <2>5
<1>9. CASE Deliver
  <2>. DEFINE e == [kind |-> Kind(Head(flight)), at |-> now]
              w == Works(TPVsAhead(feed, Len(feed) + 1))
  <2>1. /\ UNCHANGED <<now, pc, deadline>> /\ others' = 0 /\ feed' = Append(feed, e)
        /\ flight # <<>> /\ cargo' = Append(cargo, Head(flight)) /\ flight' = Tail(flight)
    BY <1>9 DEF Deliver, Arrive, Kind
  <2>2. e \in [kind : TPVs \cup {"other"}, at : Time] /\ Cost(e) = 2 * WriteTimeout /\ Cost(e) \in Nat
    BY DEF Kind, TPVs, TypeOK, Cost
  <2>. HIDE DEF e
  <2>3. feed' # <<>>
    BY <1>0, <2>1, <2>2, Appended
  <2>4. Ready' = Ready /\ NextAt' = Ready + Skips(MaxOthers + 1)
    <3>1. MaxOthers - 0 + 1 = MaxOthers + 1
      OBVIOUS
    <3>. QED
      BY <2>1, <2>3, <3>1 DEF Ready, NextAt, Rest, Await
  <2>5. /\ \A i \in 1..(Len(feed) + 1) : SocketAt(i)' = Ready + Works(TPVsAhead(feed, i))
        /\ \A k \in Nat \ {0} : FlightAt(k)' = NextAt' + w + 2 * WriteTimeout + Gaps(k - 1)
    BY <2>1, <2>2, <2>4, Behind
  <2>6. /\ Len(feed) \in Nat /\ DOMAIN feed = 1..Len(feed) /\ Len(cargo) = Len(feed)
        /\ flight[1] \in Position /\ Head(flight) = flight[1] /\ 1 \in DOMAIN flight
    BY <1>0, <2>1, Taken
  <2>7. w \in Nat
    <3>1. Len(feed) + 1 \in Nat \ {0}
      BY <2>6
    <3>. QED
      BY <3>1, AheadCounts, TransitSums
  <2>8. Ready \in Nat /\ NextAt \in Nat /\ Ready <= NextAt
    BY Spans
  <2>9. ASSUME NEW i \in DOMAIN cargo' PROVE SocketKept(i)
    <3>1. i \in 1..(Len(feed) + 1)
      BY <1>0, <2>1, <2>6, Appended
    <3>2. CASE i \in DOMAIN feed
      <4>1. cargo'[i] = cargo[i] /\ i \in DOMAIN cargo
        BY <1>0, <2>1, <2>6, <3>2, Appended
      <4>2. SocketAt(i)' = SocketAt(i) /\ SocketAt(i) \in Nat
        BY <2>5, <3>1, <3>2, WithinTransit DEF SocketAt
      <4>. QED
        BY <4>1, <4>2 DEF SocketKept
    <3>3. CASE i = Len(feed) + 1
      <4>1. cargo'[i] = flight[1]
        BY <1>0, <2>1, <2>6, <3>3, Appended
      <4>2. SocketAt(i)' = Ready + w
        BY <2>5, <3>1, <3>3
      <4>3. FlightAt(1) = NextAt + w + Gaps(1 - 1) /\ Gaps(1 - 1) \in Nat
        BY TransitSums DEF FlightAt
      <4>. HIDE DEF w
      <4>4. Ready + w <= FlightAt(1)
        BY <2>7, <2>8, <4>3
      <4>. QED
        BY <2>6, <4>1, <4>2, <4>4 DEF SocketKept
    <3>. QED
      BY <2>6, <3>1, <3>2, <3>3
  <2>10. ASSUME NEW k \in DOMAIN flight' PROVE FlightKept(k)
    <3>1. k \in Nat \ {0} /\ k + 1 \in DOMAIN flight /\ flight'[k] = flight[k + 1]
      BY <1>0, <2>1, Taken
    <3>2. (k + 1) - 1 = (k - 1) + 1 /\ k - 1 \in Nat
      BY <3>1
    <3>3. Gaps((k + 1) - 1) = Gaps(k - 1) + Gap /\ Gaps(k - 1) \in Nat
      BY <3>2, TransitSums
    <3>. DEFINE g == Gaps(k - 1)
                skips == Skips(MaxOthers + 1)
    <3>4. FlightAt(k)' = (Ready + skips) + w + 2 * WriteTimeout + g
      BY <2>4, <2>5, <3>1
    <3>5. FlightAt(k + 1) = NextAt + w + (g + (skips + 2 * WriteTimeout))
      BY <3>3, TransitSums DEF FlightAt
    <3>6. skips \in Nat
      <4>1. MaxOthers + 1 \in Nat
        OBVIOUS
      <4>. QED
        BY <4>1, SkipsGrow
    <3>7. FlightAt(k)' <= FlightAt(k + 1)
      <4>. HIDE DEF w, g, skips
      <4>1. g \in Nat
        BY <3>3 DEF g
      <4>2. (Ready + skips) + w + 2 * WriteTimeout + g <= NextAt + w + (g + (skips + 2 * WriteTimeout))
        BY <2>7, <2>8, <3>6, <4>1
      <4>. QED
        BY <3>4, <3>5, <4>2
    <3>. QED
      BY <3>1, <3>7 DEF FlightKept
  <2>. QED
    BY <2>9, <2>10
<1>10. CASE DeliverOther
  <2>. DEFINE e == [kind |-> "other", at |-> now]
              w == Works(TPVsAhead(feed, Len(feed) + 1))
              skips == Skips(MaxOthers - others)
  <2>1. /\ UNCHANGED <<now, pc, deadline, flight>> /\ feed' = Append(feed, e)
        /\ others < MaxOthers /\ others' = others + 1 /\ cargo' = Append(cargo, NoFix)
    BY <1>10 DEF DeliverOther, Arrive
  <2>2. e \in [kind : TPVs \cup {"other"}, at : Time] /\ Cost(e) = 0
    BY DEF TPVs, TypeOK, Cost
  <2>. HIDE DEF e
  <2>3. feed' # <<>>
    BY <1>0, <2>1, <2>2, Appended
  <2>4. Ready' = Ready /\ NextAt' = Ready + skips
    <3>1. MaxOthers - (others + 1) + 1 = MaxOthers - others
      BY OneGap
    <3>. QED
      BY <2>1, <2>3, <3>1 DEF Ready, NextAt, Rest, Await
  <2>5. /\ \A i \in 1..(Len(feed) + 1) : SocketAt(i)' = Ready + Works(TPVsAhead(feed, i))
        /\ \A k \in Nat \ {0} : FlightAt(k)' = NextAt' + w + 0 + Gaps(k - 1)
    BY <2>1, <2>2, <2>4, Behind
  <2>6. Len(feed) \in Nat /\ DOMAIN feed = 1..Len(feed) /\ Len(cargo) = Len(feed) /\ NoFix \in Position
    BY <1>0 DEF Position
  <2>7. w \in Nat
    <3>1. Len(feed) + 1 \in Nat \ {0}
      BY <2>6
    <3>. QED
      BY <3>1, AheadCounts, TransitSums
  <2>8. Ready \in Nat /\ NextAt \in Nat /\ skips \in Nat /\ Ready + skips <= NextAt
    <3>1. skips <= Await /\ skips \in Nat /\ Await \in Nat
      <4>1. CASE pc = "read" /\ feed = <<>>
        <5>1. Await = (deadline - now) + skips /\ now <= deadline
          BY <4>1 DEF Await, WayInv
        <5>. HIDE DEF skips
        <5>. QED
          BY <1>0, <1>gap, <5>1 DEF skips
      <4>2. CASE ~(pc = "read" /\ feed = <<>>)
        BY <1>gap, <4>2 DEF Await
      <4>. QED
        BY <4>1, <4>2
    <3>. HIDE DEF skips
    <3>. QED
      BY <1>spans, <3>1 DEF NextAt
  <2>9. ASSUME NEW i \in DOMAIN cargo' PROVE SocketKept(i)
    <3>1. i \in 1..(Len(feed) + 1)
      BY <1>0, <2>1, <2>6, Appended
    <3>2. CASE i \in DOMAIN feed
      <4>1. cargo'[i] = cargo[i] /\ i \in DOMAIN cargo
        BY <1>0, <2>1, <2>6, <3>2, Appended
      <4>2. SocketAt(i)' = SocketAt(i) /\ SocketAt(i) \in Nat
        BY <2>5, <3>1, <3>2, WithinTransit DEF SocketAt
      <4>. QED
        BY <4>1, <4>2 DEF SocketKept
    <3>3. CASE i = Len(feed) + 1
      <4>1. cargo'[i] = NoFix
        BY <1>0, <2>1, <2>6, <3>3, Appended
      <4>. QED
        BY <4>1 DEF SocketKept
    <3>. QED
      BY <2>6, <3>1, <3>2, <3>3
  <2>10. ASSUME NEW k \in DOMAIN flight' PROVE FlightKept(k)
    <3>1. k \in Nat \ {0} /\ k \in DOMAIN flight /\ flight'[k] = flight[k] /\ k - 1 \in Nat
      BY <1>0, <2>1
    <3>. DEFINE g == Gaps(k - 1)
    <3>2. g \in Nat
      BY <3>1, TransitSums
    <3>3. FlightAt(k)' = (Ready + skips) + w + 0 + g /\ FlightAt(k) = NextAt + w + g
      BY <2>4, <2>5, <3>1 DEF FlightAt
    <3>4. FlightAt(k)' <= FlightAt(k)
      <4>. HIDE DEF w, g, skips
      <4>1. (Ready + skips) + w + 0 + g <= NextAt + w + g
        BY <2>7, <2>8, <3>2
      <4>. QED
        BY <3>3, <4>1
    <3>. QED
      BY <3>1, <3>4 DEF FlightKept
  <2>. QED
    BY <2>9, <2>10
<1>11. CASE UNCHANGED streamVars
  <2>1. UNCHANGED <<now, pc, deadline, feed, others, cargo, flight>>
    BY <1>11 DEF streamVars, vars, router, pipe
  <2>. QED
    BY <1>same, <1>spans, <1>unmoved, <2>1
<1>. QED
  BY <1>1, <1>2, <1>3, <1>4, <1>5, <1>6, <1>7, <1>8, <1>9, <1>10, <1>11 DEF StreamNext
-----------------------------------------------------------------------------
(***************************************************************************)
(* PointAge and LossTold, from when positions reach onTPV.                 *)
(***************************************************************************)

\* Onto onTPV `at' is in time for position x: for its age, and for a daemon that
\* no longer serves one since `gone'.
OnTime(x, at, gone) ==
  x # NoFix => /\ at < x + MaxServedAge + Transit
               /\ gone # Never => at <= gone + Transit

TimesInv ==
  /\ \A i \in DOMAIN cargo : OnTime(cargo[i], SocketAt(i), goneAt)
  /\ \A k \in DOMAIN flight : OnTime(flight[k], FlightAt(k), goneAt)

\* What onTPV holds.
HeldInv ==
  /\ pc \in {"status", "geo", "geoWrite"} => captured <= now
  /\ pc \in {"status", "geo"} /\ doing # NoFix => captured < doing + MaxServedAge + Transit
  /\ pc = "geoWrite" => deadline <= captured + 2 * WriteTimeout
  /\ PointAge

LEMMA Instants ==
  TypeOK /\ WayInv => /\ \A i \in DOMAIN feed : SocketAt(i) \in Nat
                      /\ \A k \in 1..FlightCap : FlightAt(k) \in Nat
BY WithinTransit

(* In time stays in time: the daemon loses a position only when all that it has
   sent is within Transit. *)
LEMMA StillOnTime ==
  ASSUME now \in Nat, NEW x \in Position, NEW at \in Nat, NEW later \in Nat, at <= later,
         later <= now + Transit, NEW gone \in Nat \cup {Never}, OnTime(x, later, gone),
         NEW gone2 \in {gone, Never, now}
  PROVE  OnTime(x, at, gone2)
<1>. SUFFICES ASSUME x # NoFix
              PROVE  /\ at < x + MaxServedAge + Transit
                     /\ gone2 # Never => at <= gone2 + Transit
  BY DEF OnTime
<1>1. x \in Nat /\ MaxServedAge \in Nat /\ Transit \in Nat
  BY StreamAssumption, TransitSums DEF Position
<1>2. later < x + MaxServedAge + Transit /\ (gone # Never => later <= gone + Transit)
  BY DEF OnTime
<1>3. at < x + MaxServedAge + Transit
  BY <1>1, <1>2
<1>4. ASSUME gone2 # Never PROVE at <= gone2 + Transit
  <2>1. CASE gone2 = gone
    <3>1. gone \in Nat /\ later <= gone + Transit
      BY <1>2, <1>4, <2>1
    <3>. QED
      BY <1>1, <2>1, <3>1
  <2>2. CASE gone2 = now
    BY <1>1, <2>2
  <2>. QED
    BY <1>4, <2>1, <2>2
<1>. QED
  BY <1>3, <1>4

(* Every action keeps every position in time. *)
LEMMA TimesStep ==
  ASSUME TypeOK, TypeOK', StreamTypes, Pipeline, WayInv, WayInv', TimesInv, [StreamNext]_streamVars
  PROVE  TimesInv'
<1>. USE UploaderAssumption, StreamAssumption
<1>1. /\ \A i \in DOMAIN cargo' : SocketKept(i)
      /\ \A k \in DOMAIN flight' : FlightKept(k)
  BY NoLater DEF Pipeline
<1>2. StreamTypes'
  BY StreamTypesStep DEF Pipeline
<1>3. /\ \A i \in DOMAIN cargo' : SocketAt(i)' \in Nat
      /\ \A k \in DOMAIN flight' : FlightAt(k)' \in Nat
  <2>1. (/\ \A i \in DOMAIN feed : SocketAt(i) \in Nat
         /\ \A k \in 1..FlightCap : FlightAt(k) \in Nat)'
    BY Instants, PTL
  <2>2. Len(cargo') = Len(feed')
    <3>1. Pipeline'
      BY <1>2, PipelineStep
    <3>. QED
      BY <3>1 DEF Pipeline
  <2>3. DOMAIN cargo' = DOMAIN feed'
    BY <1>2, <2>2 DEF TypeOK, StreamTypes
  <2>4. DOMAIN flight' \subseteq 1..FlightCap
    BY <1>2 DEF StreamTypes, WayInv
  <2>. QED
    BY <2>1, <2>3, <2>4
<1>4. now \in Nat /\ goneAt \in Nat \cup {Never} /\ goneAt' \in {goneAt, Never, now}
  <2>1. now \in Nat /\ goneAt \in Nat \cup {Never}
    BY DEF TypeOK, Time, WayInv
  <2>2. goneAt' \in {goneAt, Never, now}
    BY DEF StreamNext, Publish, Withdraw, Restart, Send, Deliver, DeliverOther, Lost, Pass,
           Receive, Discard, Point, NoPoint, Disconnect, Elsewhere, daemon, streamVars
  <2>. QED
    BY <2>1, <2>2
<1>5. ASSUME NEW j \in DOMAIN cargo
      PROVE  cargo[j] \in Position /\ SocketAt(j) \in Nat /\ SocketAt(j) <= now + Transit
  <2>1. DOMAIN cargo = DOMAIN feed
    BY DEF Pipeline, TypeOK, StreamTypes
  <2>2. cargo[j] \in Position
    BY Member DEF StreamTypes
  <2>. QED
    BY <2>1, <2>2, WithinTransit
<1>6. ASSUME NEW j \in DOMAIN flight
      PROVE  flight[j] \in Position /\ FlightAt(j) \in Nat /\ FlightAt(j) <= now + Transit
  <2>1. j \in 1..FlightCap
    BY DEF StreamTypes, WayInv
  <2>2. flight[j] \in Position
    BY Member DEF StreamTypes
  <2>. QED
    BY <2>1, <2>2, WithinTransit
<1>7. ASSUME NEW i \in DOMAIN cargo' PROVE OnTime(cargo'[i], SocketAt(i)', goneAt')
  <2>1. SocketKept(i) /\ SocketAt(i)' \in Nat
    BY <1>1, <1>3
  <2>2. ASSUME NEW j \in DOMAIN cargo, cargo'[i] = cargo[j], SocketAt(i)' <= SocketAt(j)
        PROVE  OnTime(cargo'[i], SocketAt(i)', goneAt')
    <3>1. OnTime(cargo[j], SocketAt(j), goneAt)
      BY DEF TimesInv
    <3>. QED
      BY <1>4, <1>5, <2>1, <2>2, <3>1, StillOnTime
  <2>3. ASSUME NEW k \in DOMAIN flight, cargo'[i] = flight[k], SocketAt(i)' <= FlightAt(k)
        PROVE  OnTime(cargo'[i], SocketAt(i)', goneAt')
    <3>1. OnTime(flight[k], FlightAt(k), goneAt)
      BY DEF TimesInv
    <3>. QED
      BY <1>4, <1>6, <2>1, <2>3, <3>1, StillOnTime
  <2>4. CASE cargo'[i] = NoFix
    BY <2>4 DEF OnTime
  <2>. QED
    BY <2>1, <2>2, <2>3, <2>4 DEF SocketKept
<1>8. ASSUME NEW k \in DOMAIN flight' PROVE OnTime(flight'[k], FlightAt(k)', goneAt')
  <2>1. FlightKept(k) /\ FlightAt(k)' \in Nat
    BY <1>1, <1>3
  <2>2. ASSUME NEW j \in DOMAIN flight, flight'[k] = flight[j], FlightAt(k)' <= FlightAt(j)
        PROVE  OnTime(flight'[k], FlightAt(k)', goneAt')
    <3>1. OnTime(flight[j], FlightAt(j), goneAt)
      BY DEF TimesInv
    <3>. QED
      BY <1>4, <1>6, <2>1, <2>2, <3>1, StillOnTime
  <2>3. CASE Send /\ flight'[k] = served /\ FlightAt(k)' <= now + Transit
    <3>1. goneAt' = goneAt /\ served \in Position
      BY <2>3 DEF Send, daemon, StreamTypes
    <3>2. CASE served = NoFix
      BY <2>3, <3>2 DEF OnTime
    <3>3. CASE served # NoFix
      <4>1. goneAt = Never /\ now - served < MaxServedAge /\ served \in Nat
        BY <3>1, <3>3 DEF WayInv, Position
      <4>. DEFINE at == FlightAt(k)'
      <4>2. at \in Nat /\ at <= now + Transit
        BY <2>1, <2>3
      <4>. HIDE DEF at
      <4>3. at < served + MaxServedAge + Transit
        BY <1>4, <4>1, <4>2, TransitSums
      <4>. QED
        BY <2>3, <3>1, <4>1, <4>3 DEF OnTime, at
    <3>. QED
      BY <3>2, <3>3
  <2>. QED
    BY <2>1, <2>2, <2>3 DEF FlightKept
<1>. QED
  BY <1>7, <1>8 DEF TimesInv

(* What ReadTPV returns is in time now. *)
LEMMA Received ==
  ASSUME TypeOK, StreamTypes, Pipeline, WayInv, TimesInv, Receive
  PROVE  /\ doing' \in Position /\ feed[1].kind \in TPVs /\ 1 \in DOMAIN feed
         /\ OnTime(doing', now, goneAt)
<1>1. /\ pc = "read" /\ feed # <<>> /\ Head(feed).kind \in TPVs /\ doing' = Head(cargo)
      /\ feed \in Seq([kind : TPVs \cup {"other"}, at : Time]) /\ cargo \in Seq(Position)
      /\ now \in Nat /\ Len(cargo) = Len(feed)
  BY UploaderAssumption DEF Receive, OnTPV, TypeOK, Time, StreamTypes, Pipeline
<1>2. cargo # <<>>
  BY <1>1
<1>3. Head(cargo) = cargo[1] /\ 1 \in DOMAIN cargo /\ Head(feed) = feed[1] /\ 1 \in DOMAIN feed
  BY <1>1, <1>2, Taken
<1>4. cargo[1] \in Position
  BY <1>1, <1>3, Member
<1>5. SocketAt(1) \in Nat /\ now <= SocketAt(1)
  <2>1. Ready = now
    BY <1>1 DEF Ready, Rest
  <2>2. Works(TPVsAhead(feed, 1)) \in Nat
    <3>1. TPVsAhead(feed, 1) \in Nat
      BY AheadCounts
    <3>. QED
      BY <3>1, TransitSums
  <2>. QED
    BY <1>1, <2>1, <2>2 DEF SocketAt
<1>6. OnTime(cargo[1], SocketAt(1), goneAt)
  BY <1>3 DEF TimesInv
<1>7. goneAt \in Nat \cup {Never} /\ SocketAt(1) <= now + Transit
  BY <1>3, WithinTransit, UploaderAssumption DEF WayInv, TypeOK, Time
<1>8. OnTime(cargo[1], now, goneAt)
  BY <1>1, <1>4, <1>5, <1>6, <1>7, StillOnTime
<1>. QED
  BY <1>1, <1>3, <1>4, <1>8

(* Every action keeps what onTPV holds in time: it writes the status, and then
   the point. *)
LEMMA HeldStep ==
  ASSUME TypeOK, TypeOK', GeoInv, StreamTypes, Pipeline, WayInv, TimesInv, HeldInv,
         [StreamNext]_streamVars
  PROVE  HeldInv'
<1>. USE UploaderAssumption, StreamAssumption
<1>0. /\ now \in Nat /\ now' \in Nat /\ captured \in Nat /\ deadline \in Nat
      /\ Transit \in Nat /\ MaxServedAge \in Nat /\ doing \in Position
  BY TransitSums DEF TypeOK, Time, StreamTypes
<1>1. CASE Receive
  <2>1. captured' = now /\ now' = now /\ pc' \in {"status", "geo"}
    BY <1>1 DEF Receive, OnTPV, Block
  <2>2. doing' # NoFix => now < doing' + MaxServedAge + Transit
    BY <1>1, Received DEF OnTime
  <2>. QED
    BY <1>0, <2>1, <2>2 DEF HeldInv, PointAge
<1>2. CASE Point
  <2>1. /\ pc = "geo" /\ pc' = "geoWrite" /\ deadline' = now + WriteTimeout
        /\ geoAt' = now /\ point' = doing /\ tpv.kind = "fix"
        /\ UNCHANGED <<now, captured>>
    BY <1>2 DEF Point, WriteGeo, GeoDue, Block, call
  <2>2. doing # NoFix /\ now <= captured + WriteTimeout /\ captured <= now
    BY <2>1 DEF Pipeline, GeoInv
  <2>3. captured < doing + MaxServedAge + Transit /\ doing \in Nat
    BY <1>0, <2>1, <2>2 DEF HeldInv, Position
  <2>4. now - doing < MaxServedAge + Transit + WriteTimeout
    BY <1>0, <2>2, <2>3
  <2>. QED
    BY <1>0, <2>1, <2>2, <2>4 DEF HeldInv, PointAge
<1>3. CASE NoPoint \/ Disconnect
  <2>1. pc' \in {"read", "lost", "wait", "top"}
    BY <1>3 DEF NoPoint, SkipGeo, Return, Disconnect, StreamFails, Disconnected, Connect, Block
  <2>. QED
    BY <2>1 DEF HeldInv, PointAge
<1>4. CASE Elsewhere
  <2>1. CASE WriteDone
    <3>1. /\ \/ pc = "status" /\ pc' = "geo" /\ captured' = captured
             \/ pc' \in {"read", "wait"}
          /\ UNCHANGED <<now, doing>>
      BY <1>4, <2>1 DEF Elsewhere, WriteDone, Return, Block, call, pipe
    <3>. QED
      BY <1>0, <3>1 DEF HeldInv, PointAge
  <2>2. CASE ~WriteDone
    <3>1. /\ pc' \in {"dial", "exited", "top"} \/ (pc' = pc /\ deadline' = deadline)
          /\ UNCHANGED <<now, captured, doing, geoAt, point>>
      BY <1>4, <2>2 DEF Elsewhere, StartDial, Exit, Retry, CloseOnDone, Cancel, Block,
                        call, pipe, history, ledger
    <3>. QED
      BY <1>0, <3>1 DEF HeldInv, PointAge
  <2>. QED
    BY <2>1, <2>2
<1>5. CASE Publish \/ Withdraw \/ Restart \/ Send \/ Deliver \/ DeliverOther \/ Lost \/ UNCHANGED streamVars
  <2>1. UNCHANGED <<now, pc, deadline, captured, doing, geoAt, point>>
    BY <1>5 DEF Publish, Withdraw, Restart, Send, Deliver, DeliverOther, Lost, Arrive, Drop,
                streamVars, vars, call, history, pipe, ledger
  <2>. QED
    BY <2>1 DEF HeldInv, PointAge
<1>6. CASE Pass
  <2>1. now' = now + 1 /\ UNCHANGED <<pc, deadline, captured, doing, geoAt, point>>
    BY <1>6 DEF Pass, Tick, call, history, pipe, ledger
  <2>. QED
    BY <1>0, <2>1 DEF HeldInv, PointAge
<1>7. CASE Discard
  <2>1. pc' = "read"
    BY <1>7 DEF Discard, SkipReport, Block
  <2>. QED
    BY <2>1 DEF HeldInv, PointAge
<1>. QED
  BY <1>1, <1>2, <1>3, <1>4, <1>5, <1>6, <1>7 DEF StreamNext

\* The last instant at which a TPV may be read and leave told as it is.
LastRead == goneAt + Transit + Later(MinInterval, 1) - 1

\* What InfluxDB was told is that there is a fix, and geolocd has none.
Outdated == told = "fix" /\ goneAt # Never /\ ~cancelled

GoneInv ==
  /\ told = "fix" => lastConnected /\ lastStatus \in 0..now
  /\ pc = "exited" => cancelled
  /\ Outdated =>
       /\ lastStatus <= goneAt + Transit
       /\ pc \in {"status", "geo", "geoWrite"} => captured <= LastRead
       /\ pc = "read" => now <= LastRead + Gap
       /\ pc = "read" /\ ~HasTPV(feed) => NextAt <= LastRead + Gap

(* The constants and counts of the bound, as numbers. *)
LEMMA GoneSums ==
  ASSUME TypeOK, StreamTypes, WayInv, goneAt # Never
  PROVE  /\ goneAt \in Nat /\ goneAt <= now /\ Transit \in Nat /\ Gap \in Nat /\ LastRead \in Nat
         /\ goneAt + Transit <= LastRead /\ goneAt + Transit + MinInterval - 1 <= LastRead
         /\ Skips(MaxOthers + 1) \in Nat /\ Gap = Skips(MaxOthers + 1) + 2 * WriteTimeout
         /\ Ready \in Nat /\ NextAt \in Nat /\ NextAt <= Ready + Skips(MaxOthers + 1)
         /\ NextAt <= now + Gap /\ now <= Ready
<1>. USE UploaderAssumption
<1>1. goneAt \in Nat /\ goneAt <= now /\ now \in Nat
  BY DEF WayInv, TypeOK, Time
<1>2. Transit \in Nat /\ Gap \in Nat /\ Gap = Skips(MaxOthers + 1) + 2 * WriteTimeout
  BY TransitSums
<1>3. /\ LastRead \in Nat /\ goneAt + Transit <= LastRead
      /\ goneAt + Transit + MinInterval - 1 <= LastRead
  BY <1>1, <1>2 DEF LastRead, Later
<1>4. /\ Rest \in Nat /\ Await \in Nat /\ Rest + Await <= Gap
      /\ MaxOthers - others + 1 \in Nat /\ MaxOthers - others + 1 <= MaxOthers + 1
      /\ Await <= Skips(MaxOthers - others + 1)
  BY OneGap
<1>5. /\ Skips(MaxOthers + 1) \in Nat /\ Skips(MaxOthers - others + 1) \in Nat
      /\ Skips(MaxOthers - others + 1) <= Skips(MaxOthers + 1)
  <2>1. MaxOthers + 1 \in Nat
    OBVIOUS
  <2>. QED
    BY <1>4, <2>1, SkipsGrow
<1>6. /\ Ready \in Nat /\ NextAt \in Nat /\ NextAt <= Ready + Skips(MaxOthers + 1)
      /\ NextAt <= now + Gap /\ now <= Ready
  BY <1>1, <1>2, <1>4, <1>5 DEF Ready, NextAt
<1>. QED
  BY <1>1, <1>2, <1>3, <1>5, <1>6

LEMMA GoneSumsNext ==
  TypeOK /\ StreamTypes /\ WayInv /\ goneAt # Never =>
    /\ LastRead \in Nat /\ Ready \in Nat /\ NextAt \in Nat
    /\ NextAt <= Ready + Skips(MaxOthers + 1) /\ NextAt <= now + Gap
    /\ goneAt + Transit <= LastRead
BY GoneSums

(* Nor does a report that is not a TPV, when it arrives and when it is read, make
   the next TPV later. *)
LEMMA OtherNoLater ==
  ASSUME TypeOK, WayInv, DeliverOther \/ (Discard /\ Len(cargo) = Len(feed))
  PROVE  NextAt' <= NextAt /\ (HasTPV(feed') <=> HasTPV(feed))
<1>. USE UploaderAssumption
<1>. DEFINE skips == Skips(MaxOthers - others)
<1>1. /\ now \in Nat /\ deadline \in Nat /\ skips \in Nat
      /\ Skips(MaxOthers - others + 1) = skips + ReadTimeout /\ Ready \in Nat /\ Await \in Nat
      /\ MaxOthers - (others + 1) + 1 = MaxOthers - others
      /\ feed \in Seq([kind : TPVs \cup {"other"}, at : Time])
  BY OneGap, Spans DEF TypeOK
<1>2. CASE DeliverOther
  <2>. DEFINE e == [kind |-> "other", at |-> now]
  <2>1. /\ UNCHANGED <<now, pc, deadline>> /\ feed' = Append(feed, e) /\ others' = others + 1
    BY <1>2 DEF DeliverOther, Arrive
  <2>2. e \in [kind : TPVs \cup {"other"}, at : Time] /\ e.kind \notin TPVs
    BY DEF TPVs, TypeOK
  <2>. HIDE DEF e
  <2>3. /\ feed' # <<>> /\ Len(feed) \in Nat /\ feed'[Len(feed) + 1] = e
        /\ DOMAIN feed' = 1..(Len(feed) + 1) /\ DOMAIN feed = 1..Len(feed)
        /\ \A i \in 1..Len(feed) : feed'[i] = feed[i]
    <3>1. /\ Len(feed) \in Nat /\ Append(feed, e)[Len(feed) + 1] = e
          /\ DOMAIN Append(feed, e) = 1..(Len(feed) + 1) /\ DOMAIN feed = 1..Len(feed)
          /\ \A i \in 1..Len(feed) : Append(feed, e)[i] = feed[i]
      BY <1>1, <2>2, Appended
    <3>2. Append(feed, e) # <<>>
      BY <3>1
    <3>. QED
      BY <2>1, <3>1, <3>2
  <2>4. HasTPV(feed') <=> HasTPV(feed)
    BY <2>2, <2>3 DEF HasTPV
  <2>5. NextAt' = Ready + skips
    BY <1>1, <2>1, <2>3 DEF Ready, NextAt, Rest, Await
  <2>6. skips <= Await
    <3>1. CASE pc = "read" /\ feed = <<>>
      <4>1. Await = (deadline - now) + skips /\ now <= deadline
        BY <3>1 DEF Await, WayInv
      <4>. HIDE DEF skips
      <4>. QED
        BY <1>1, <4>1
    <3>2. CASE ~(pc = "read" /\ feed = <<>>)
      BY <1>1, <3>2 DEF Await
    <3>. QED
      BY <3>1, <3>2
  <2>. QED
    <3>. HIDE DEF skips
    <3>. QED
      BY <1>1, <2>4, <2>5, <2>6 DEF NextAt
<1>3. CASE Discard
  <2>1. /\ pc = "read" /\ pc' = "read" /\ feed # <<>> /\ feed' = Tail(feed)
        /\ UNCHANGED <<now, others>> /\ deadline' = now + ReadTimeout /\ Head(feed).kind = "other"
    BY <1>3 DEF Discard, SkipReport, Block
  <2>2. /\ Len(feed) \in Nat \ {0} /\ DOMAIN feed = 1..Len(feed) /\ DOMAIN feed' = 1..(Len(feed) - 1)
        /\ \A i \in 1..(Len(feed) - 1) : feed'[i] = feed[i + 1]
        /\ feed[1].kind \notin TPVs
    BY <1>1, <2>1, Taken DEF TPVs
  <2>3. HasTPV(feed') <=> HasTPV(feed)
    <3>1. ASSUME NEW i \in DOMAIN feed', feed'[i].kind \in TPVs PROVE HasTPV(feed)
      <4>1. i + 1 \in DOMAIN feed /\ feed[i + 1].kind \in TPVs
        BY <2>2, <3>1
      <4>. QED
        BY <4>1 DEF HasTPV
    <3>2. ASSUME NEW i \in DOMAIN feed, feed[i].kind \in TPVs PROVE HasTPV(feed')
      <4>1. i # 1
        BY <2>2, <3>2
      <4>2. i - 1 \in DOMAIN feed' /\ feed'[i - 1] = feed[(i - 1) + 1] /\ (i - 1) + 1 = i
        BY <2>2, <4>1
      <4>. QED
        BY <3>2, <4>2 DEF HasTPV
    <3>. QED
      BY <3>1, <3>2 DEF HasTPV
  <2>4. Await' = skips + ReadTimeout
    <3>1. CASE feed' = <<>>
      <4>1. Await' = ((now + ReadTimeout) - now) + skips
        BY <2>1, <3>1 DEF Await
      <4>. HIDE DEF skips
      <4>. QED
        BY <1>1, <4>1
    <3>2. CASE feed' # <<>>
      BY <1>1, <2>1, <3>2 DEF Await
    <3>. QED
      BY <3>1, <3>2
  <2>5. NextAt = now + (skips + ReadTimeout)
    BY <1>1, <2>1 DEF Ready, NextAt, Rest, Await
  <2>6. NextAt' = now + (skips + ReadTimeout)
    BY <1>1, <2>1, <2>4 DEF Ready, NextAt, Rest
  <2>. QED
    <3>. HIDE DEF skips
    <3>. QED
      BY <1>1, <2>3, <2>5, <2>6
<1>. QED
  BY <1>2, <1>3

(* Every action keeps GoneInv: after the last fix has been read the uploader is
   quiet for the debounce and a Gap at most. *)
LEMMA GoneStep ==
  ASSUME TypeOK, TypeOK', ToldInv, GeoInv, StreamTypes, StreamTypes', Pipeline, WayInv, WayInv',
         TimesInv, HeldInv, HeldInv', GoneInv, [StreamNext]_streamVars
  PROVE  GoneInv'
<1>. USE UploaderAssumption, StreamAssumption
<1>0. /\ now \in Nat /\ now' \in Nat /\ captured \in Nat /\ deadline \in Nat
      /\ lastStatus \in Nat \cup {Never} /\ 2 * WriteTimeout \in Nat
  BY DEF TypeOK, Time
<1>sums. Outdated' =>
           /\ LastRead' \in Nat /\ Ready' \in Nat /\ NextAt' \in Nat /\ Gap \in Nat
           /\ NextAt' <= Ready' + Skips(MaxOthers + 1) /\ NextAt' <= now' + Gap
           /\ goneAt' + Transit <= LastRead' /\ Transit \in Nat
           /\ Skips(MaxOthers + 1) \in Nat /\ Gap = Skips(MaxOthers + 1) + 2 * WriteTimeout
  <2>. SUFFICES ASSUME Outdated'
                PROVE  /\ LastRead' \in Nat /\ Ready' \in Nat /\ NextAt' \in Nat /\ Gap \in Nat
                       /\ NextAt' <= Ready' + Skips(MaxOthers + 1) /\ NextAt' <= now' + Gap
                       /\ goneAt' + Transit <= LastRead' /\ Transit \in Nat
                       /\ Skips(MaxOthers + 1) \in Nat /\ Gap = Skips(MaxOthers + 1) + 2 * WriteTimeout
    OBVIOUS
  <2>1. (goneAt # Never)'
    BY DEF Outdated
  <2>2. (/\ LastRead \in Nat /\ Ready \in Nat /\ NextAt \in Nat
         /\ NextAt <= Ready + Skips(MaxOthers + 1) /\ NextAt <= now + Gap
         /\ goneAt + Transit <= LastRead)'
    BY <2>1, GoneSumsNext, PTL
  <2>3. Skips(MaxOthers + 1) \in Nat
    <3>1. MaxOthers + 1 \in Nat
      OBVIOUS
    <3>. QED
      BY <3>1, SkipsGrow
  <2>. QED
    BY <2>2, <2>3, TransitSums
<1>same. ASSUME UNCHANGED <<told, goneAt, cancelled, lastStatus, lastConnected>>, now' = now
         PROVE  /\ told' = "fix" => lastConnected' /\ lastStatus' \in 0..now'
                /\ Outdated' = Outdated /\ LastRead' = LastRead
                /\ Outdated => lastStatus' <= goneAt' + Transit
  BY <1>same DEF GoneInv, Outdated, LastRead
<1>1. CASE Publish
  <2>1. goneAt' = Never /\ UNCHANGED <<told, now, cancelled, pc, lastStatus, lastConnected>>
    BY <1>1 DEF Publish, vars, fields, ledger
  <2>. QED
    BY <2>1 DEF GoneInv, Outdated
<1>2. CASE (Withdraw \/ Restart) /\ goneAt' = now
  <2>1. UNCHANGED <<told, now, cancelled, pc, captured, lastStatus, lastConnected>>
    BY <1>2 DEF Withdraw, Restart, vars, call, fields, ledger
  <2>2. ASSUME Outdated'
        PROVE  /\ lastStatus' <= goneAt' + Transit
               /\ pc' \in {"status", "geo", "geoWrite"} => captured' <= LastRead'
               /\ now' <= LastRead' + Gap /\ NextAt' <= LastRead' + Gap
    <3>1. lastStatus \in 0..now
      BY <2>1, <2>2 DEF GoneInv, Outdated
    <3>2. now <= LastRead'
      BY <1>0, <1>2, <1>sums, <2>2
    <3>3. pc \in {"status", "geo", "geoWrite"} => captured <= now
      BY DEF HeldInv
    <3>4. NextAt' <= LastRead' + Gap
      <4>. DEFINE n == NextAt'
                  l == LastRead'
      <4>1. n \in Nat /\ l \in Nat /\ Gap \in Nat /\ n <= now + Gap /\ now <= l
        BY <1>sums, <2>1, <2>2, <3>2
      <4>. HIDE DEF n, l
      <4>2. n <= l + Gap
        BY <1>0, <4>1
      <4>. QED
        BY <4>2 DEF n, l
    <3>5. captured' = captured /\ now' = now /\ LastRead' \in Nat /\ Gap \in Nat /\ Transit \in Nat
      BY <1>sums, <2>1, <2>2
    <3>. DEFINE l == LastRead'
    <3>6. l \in Nat /\ now <= l
      BY <3>2, <3>5
    <3>. HIDE DEF l
    <3>7. now <= l + Gap
      BY <1>0, <3>5, <3>6
    <3>8. now' <= LastRead' + Gap
      BY <3>5, <3>7 DEF l
    <3>9. lastStatus <= now + Transit
      BY <1>0, <3>1, <3>5
    <3>10. lastStatus' <= goneAt' + Transit
      BY <1>2, <2>1, <3>9
    <3>11. ASSUME pc \in {"status", "geo", "geoWrite"} PROVE captured <= l
      BY <1>0, <3>3, <3>6, <3>11
    <3>12. pc' \in {"status", "geo", "geoWrite"} => captured' <= LastRead'
      BY <2>1, <3>11 DEF l
    <3>. QED
      BY <3>4, <3>8, <3>10, <3>12
  <2>3. told' = "fix" => lastConnected' /\ lastStatus' \in 0..now'
    BY <2>1 DEF GoneInv
  <2>4. pc' = "exited" => cancelled'
    BY <2>1 DEF GoneInv
  <2>. QED
    BY <2>2, <2>3, <2>4 DEF GoneInv
<1>3. CASE ((Withdraw \/ Restart) /\ goneAt' # now) \/ Send \/ Lost \/ UNCHANGED streamVars
  <2>1. UNCHANGED <<told, now, cancelled, pc, deadline, feed, others, captured, goneAt,
                    lastStatus, lastConnected>>
    BY <1>3 DEF Withdraw, Restart, Send, Lost, Drop, streamVars, vars, router, call, fields, daemon, ledger
  <2>2. NextAt' = NextAt
    BY <2>1 DEF Ready, NextAt, Rest, Await
  <2>. QED
    BY <1>same, <2>1, <2>2 DEF GoneInv
<1>4. CASE Deliver
  <2>1. /\ UNCHANGED <<told, now, cancelled, pc, captured, goneAt, lastStatus, lastConnected>>
        /\ feed' = Append(feed, [kind |-> Kind(Head(flight)), at |-> now])
    BY <1>4 DEF Deliver, Arrive, Kind, call, fields, daemon, ledger
  <2>2. HasTPV(feed')
    <3>. DEFINE e == [kind |-> Kind(Head(flight)), at |-> now]
    <3>1. e \in [kind : TPVs \cup {"other"}, at : Time] /\ e.kind \in TPVs
      BY DEF Kind, TPVs, TypeOK
    <3>. HIDE DEF e
    <3>2. feed \in Seq([kind : TPVs \cup {"other"}, at : Time]) /\ feed' = Append(feed, e)
      BY <2>1 DEF TypeOK, e
    <3>3. feed'[Len(feed) + 1] = e /\ Len(feed) + 1 \in DOMAIN feed'
      BY <3>1, <3>2, Appended
    <3>. QED
      BY <3>1, <3>3 DEF HasTPV
  <2>. QED
    BY <1>same, <2>1, <2>2 DEF GoneInv
<1>5. CASE DeliverOther \/ Discard
  <2>1. /\ UNCHANGED <<told, now, cancelled, pc, captured, goneAt, lastStatus, lastConnected>>
    BY <1>5 DEF DeliverOther, Arrive, Discard, SkipReport, Block, call, fields, daemon, ledger
  <2>2. NextAt' <= NextAt /\ (HasTPV(feed') <=> HasTPV(feed))
    BY <1>5, OtherNoLater DEF Pipeline
  <2>3. Outdated /\ pc = "read" /\ ~HasTPV(feed) => NextAt' <= LastRead + Gap
    <3>. SUFFICES ASSUME Outdated, pc = "read", ~HasTPV(feed) PROVE NextAt' <= LastRead + Gap
      OBVIOUS
    <3>. DEFINE n == NextAt'
                l == LastRead
    <3>1. NextAt <= l + Gap /\ n <= NextAt
      BY <2>2 DEF GoneInv
    <3>2. n \in Nat /\ l \in Nat /\ Gap \in Nat /\ NextAt \in Nat
      BY <1>same, <1>sums, <2>1, Spans
    <3>. HIDE DEF n, l
    <3>3. n <= l + Gap
      BY <3>1, <3>2
    <3>. QED
      BY <3>3 DEF n, l
  <2>. QED
    BY <1>same, <2>1, <2>2, <2>3 DEF GoneInv
<1>6. CASE Pass
  <2>1. /\ UNCHANGED <<told, cancelled, pc, deadline, feed, others, captured, goneAt,
                       lastStatus, lastConnected>>
        /\ now' = now + 1 /\ now < deadline /\ (pc = "read" => feed = <<>>)
    BY <1>6 DEF Pass, Tick, router, call, fields, daemon, ledger
  <2>2. Outdated' = Outdated /\ LastRead' = LastRead
    BY <2>1 DEF Outdated, LastRead
  <2>3. told' = "fix" => lastConnected' /\ lastStatus' \in 0..now'
    BY <1>0, <2>1 DEF GoneInv
  <2>4. ASSUME Outdated, pc = "read"
        PROVE  now' <= LastRead + Gap /\ NextAt' <= LastRead + Gap
    <3>1. feed = <<>> /\ ~HasTPV(feed)
      BY <2>1, <2>4 DEF HasTPV
    <3>. DEFINE skips == Skips(MaxOthers - others)
    <3>2. NextAt = now + ((deadline - now) + skips) /\ NextAt' = (now + 1) + ((deadline - (now + 1)) + skips)
      BY <1>0, <2>1, <2>4, <3>1 DEF Ready, NextAt, Rest, Await
    <3>3. skips \in Nat
      BY OneGap
    <3>. HIDE DEF skips
    <3>4. NextAt' = NextAt /\ now + 1 <= NextAt /\ NextAt \in Nat
      BY <1>0, <2>1, <3>2, <3>3
    <3>5. NextAt <= LastRead + Gap
      BY <2>4, <3>1 DEF GoneInv
    <3>6. LastRead \in Nat /\ Gap \in Nat
      BY <1>sums, <2>2, <2>4
    <3>. QED
      BY <1>0, <2>1, <3>4, <3>5, <3>6
  <2>. QED
    BY <2>1, <2>2, <2>3, <2>4 DEF GoneInv
<1>7. CASE Receive
  <2>1. /\ pc = "read" /\ captured' = now /\ UNCHANGED <<now, cancelled, goneAt>>
        /\ pc' \in {"status", "geo"}
    BY <1>7 DEF Receive, OnTPV, Block, daemon
  <2>2. CASE WritesStatus(TRUE)
    <3>1. lastStatus' = now /\ lastConnected' = TRUE /\ told' = Kind(doing')
      BY <1>7, <2>2 DEF Receive, OnTPV, WriteStatus, Block
    <3>2. ASSUME Outdated' PROVE now <= goneAt' + Transit /\ now <= LastRead'
      <4>1. doing' # NoFix /\ goneAt # Never
        BY <2>1, <3>1, <3>2 DEF Outdated, Kind
      <4>2. now <= goneAt + Transit
        BY <1>7, <4>1, Received DEF OnTime
      <4>. DEFINE l == LastRead'
      <4>3. l \in Nat /\ goneAt + Transit <= l /\ Transit \in Nat /\ goneAt \in Nat
        BY <1>sums, <2>1, <3>2, <4>1 DEF WayInv
      <4>. HIDE DEF l
      <4>4. now <= l
        BY <1>0, <4>2, <4>3
      <4>. QED
        BY <2>1, <4>2, <4>4 DEF l
    <3>. QED
      BY <1>0, <2>1, <3>1, <3>2 DEF GoneInv
  <2>3. CASE ~WritesStatus(TRUE)
    <3>1. UNCHANGED <<lastStatus, lastConnected, told>> /\ pc' = "geo"
      BY <1>7, <2>3 DEF Receive, OnTPV
    <3>2. Outdated' = Outdated /\ LastRead' = LastRead
      BY <2>1, <3>1 DEF Outdated, LastRead
    <3>3. ASSUME Outdated PROVE now <= LastRead
      <4>1. lastStatus <= goneAt + Transit /\ lastStatus \in 0..now
        BY <3>3 DEF GoneInv, Outdated
      <4>2. ~(now - lastStatus >= MinInterval)
        BY <2>3 DEF WritesStatus, Due
      <4>3. /\ LastRead \in Nat /\ goneAt + Transit + MinInterval - 1 <= LastRead
            /\ Transit \in Nat /\ goneAt \in Nat
        BY <3>3, GoneSums DEF Outdated
      <4>. QED
        BY <1>0, <4>1, <4>2, <4>3
    <3>. QED
      BY <2>1, <3>1, <3>2, <3>3 DEF GoneInv
  <2>. QED
    BY <2>2, <2>3
<1>8. CASE Point
  <2>1. /\ UNCHANGED <<told, now, cancelled, captured, goneAt, lastStatus, lastConnected>>
        /\ pc = "geo" /\ pc' = "geoWrite"
    BY <1>8 DEF Point, WriteGeo, Block, call, daemon
  <2>. QED
    BY <1>same, <2>1 DEF GoneInv
\* onTPV returns.
<1>9. CASE NoPoint \/ (Elsewhere /\ WriteDone /\ pc = "geoWrite")
  <2>1. /\ UNCHANGED <<told, now, cancelled, goneAt, lastStatus, lastConnected>>
        /\ pc' = "read" /\ pc \in {"geo", "geoWrite"}
    BY <1>9 DEF NoPoint, SkipGeo, Elsewhere, WriteDone, Return, Block, fields, daemon, ledger
  <2>2. now <= captured + 2 * WriteTimeout
    <3>1. pc = "geo" => now <= captured + WriteTimeout
      BY DEF GeoInv
    <3>2. pc = "geoWrite" => now <= deadline /\ deadline <= captured + 2 * WriteTimeout
      BY DEF WayInv, HeldInv
    <3>. QED
      BY <1>0, <2>1, <3>1, <3>2
  <2>3. ASSUME Outdated PROVE now' <= LastRead + Gap /\ NextAt' <= LastRead + Gap
    <3>1. captured <= LastRead /\ LastRead \in Nat
      BY <1>same, <1>sums, <2>1, <2>3 DEF GoneInv
    <3>2. Ready' = now
      BY <1>0, <2>1 DEF Ready, Rest
    <3>. DEFINE n == NextAt'
                skips == Skips(MaxOthers + 1)
    <3>3. n \in Nat /\ skips \in Nat /\ n <= now + skips /\ Gap = skips + 2 * WriteTimeout
      BY <1>same, <1>sums, <2>1, <2>3, <3>2
    <3>. HIDE DEF n, skips
    <3>4. n <= LastRead + Gap /\ now <= LastRead + Gap
      BY <1>0, <2>2, <3>1, <3>3
    <3>. QED
      BY <2>1, <3>4 DEF n
  <2>. QED
    BY <1>same, <2>1, <2>3 DEF GoneInv
<1>10. CASE Elsewhere /\ WriteDone /\ pc # "geoWrite"
  <2>1. /\ UNCHANGED <<told, now, cancelled, captured, goneAt, lastStatus, lastConnected>>
        /\ (pc = "status" /\ pc' = "geo") \/ pc' = "wait"
    BY <1>10 DEF Elsewhere, WriteDone, Block, call, fields, daemon, ledger
  <2>. QED
    BY <1>same, <2>1 DEF GoneInv
<1>11. CASE Elsewhere /\ ~WriteDone
  <2>1. /\ UNCHANGED <<told, now, goneAt, lastStatus, lastConnected>>
        /\ \/ cancelled'
           \/ pc' \in {"dial", "top"} /\ cancelled' = cancelled
    BY <1>11 DEF Elsewhere, StartDial, Exit, Retry, CloseOnDone, Cancel, Block, fields, daemon, ledger
  <2>2. told' = "fix" => lastConnected' /\ lastStatus' \in 0..now'
    BY <2>1 DEF GoneInv
  <2>. QED
    BY <2>1, <2>2 DEF GoneInv, Outdated
<1>12. CASE Disconnect
  <2>1. UNCHANGED <<now, cancelled, goneAt>>
    BY <1>12 DEF Disconnect, StreamFails, Connect, daemon
  <2>2. CASE StreamFails
    <3>1. CASE pc' = "lost"
      BY <1>12, <3>1 DEF Disconnect, GoneInv, Outdated
    <3>2. CASE pc' # "lost"
      <4>1. pc' \in {"wait", "top"} /\ UNCHANGED <<lastStatus, lastConnected, told>>
        BY <1>12, <2>2, <3>2 DEF Disconnect, StreamFails, Disconnected, Block, fields
      <4>2. told' = "fix" => lastConnected' /\ lastStatus' \in 0..now'
        BY <2>1, <4>1 DEF GoneInv
      <4>3. Outdated' = Outdated /\ (Outdated => lastStatus' <= goneAt' + Transit)
        BY <2>1, <4>1 DEF GoneInv, Outdated
      <4>. QED
        BY <4>1, <4>2, <4>3 DEF GoneInv
    <3>. QED
      BY <3>1, <3>2
  <2>3. CASE Connect
    <3>1. /\ pc = "dial" /\ ~cancelled /\ pc' = "read" /\ told' = told
          /\ UNCHANGED <<lastStatus, lastConnected>>
      BY <1>12, <2>3 DEF Disconnect, Connect, Block, fields
    <3>2. told # "fix"
      <4>1. statusAt # Never => ~lastConnected
        BY <3>1 DEF ToldInv
      <4>2. told = "fix" => lastConnected /\ lastStatus # Never /\ statusAt = lastStatus
        BY DEF GoneInv, ToldInv, Never
      <4>. QED
        BY <4>1, <4>2
    <3>. QED
      BY <3>1, <3>2 DEF GoneInv, Outdated
  <2>. QED
    BY <1>12, <2>2, <2>3 DEF Disconnect
<1>. QED
  BY <1>1, <1>2, <1>3, <1>4, <1>5, <1>6, <1>7, <1>8, <1>9, <1>10, <1>11, <1>12 DEF StreamNext, Elsewhere
-----------------------------------------------------------------------------
(* What the four invariants of this part are inductive with. *)
FreshInv == StreamTypes /\ Pipeline /\ WayInv /\ TimesInv /\ HeldInv /\ GoneInv

(* Initially nothing is under way, and nothing was told. *)
LEMMA FreshInit == StreamInit => FreshInv
<1>. SUFFICES ASSUME StreamInit PROVE FreshInv
  OBVIOUS
<1>1. StreamTypes /\ Pipeline
  BY StreamTypesInit
<1>2. WayInv
  BY UploaderAssumption, StreamAssumption DEF StreamInit, Init, WayInv, NoFix, Never
<1>3. TimesInv
  BY DEF StreamInit, TimesInv
<1>4. HeldInv
  BY DEF StreamInit, Init, HeldInv, PointAge
<1>5. GoneInv
  BY DEF StreamInit, Init, GoneInv, Outdated
<1>. QED
  BY <1>1, <1>2, <1>3, <1>4, <1>5 DEF FreshInv

(* With what is known of the uploader, every action keeps them. *)
LEMMA FreshStep ==
  TypeOK /\ TypeOK' /\ IInv /\ FreshInv /\ [StreamNext]_streamVars => FreshInv'
<1>. SUFFICES ASSUME TypeOK, TypeOK', IInv, FreshInv, [StreamNext]_streamVars PROVE FreshInv'
  OBVIOUS
<1>1. ToldInv /\ GeoInv /\ StreamTypes /\ Pipeline /\ WayInv /\ TimesInv /\ HeldInv /\ GoneInv
  BY DEF IInv, FreshInv
<1>2. StreamTypes' /\ Pipeline'
  BY <1>1, StreamTypesStep, PipelineStep DEF Pipeline
<1>3. WayInv'
  BY <1>1, WayStep
<1>4. TimesInv'
  BY <1>1, <1>3, TimesStep
<1>5. HeldInv'
  BY <1>1, HeldStep
<1>6. GoneInv'
  BY <1>1, <1>2, <1>3, <1>5, GoneStep
<1>. QED
  BY <1>2, <1>3, <1>4, <1>5, <1>6 DEF FreshInv

LEMMA Freshness == StreamSpec => [](TypeOK /\ IInv /\ FreshInv)
<1>1. StreamSpec => []TypeOK /\ []IInv
  BY Implements, UploaderTypes, UploaderInvariance, PTL
<1>. QED
  BY <1>1, FreshInit, FreshStep, PTL DEF StreamSpec

(* A point is written within MaxServedAge and its way of the time of its fix: each
   position reaches onTPV in time, and onTPV writes a point at most one write later. *)
THEOREM PointsFresh == StreamSpec => []PointAge
BY Freshness, PTL DEF FreshInv, HeldInv

(* InfluxDB is not told for longer than the bound that there is a fix when geolocd
   has none: onTPV has read the last fix by LastRead, and within a Gap of that it
   reads a TPV without one, or the stream fails. *)
THEOREM LossReported == StreamSpec => []LossTold
<1>. USE UploaderAssumption, StreamAssumption
<1>1. ASSUME TypeOK, IInv, FreshInv, Outdated
      PROVE  now - goneAt < Transit + Later(MinInterval, 1) + Gap
  <2>1. ToldInv /\ GeoInv /\ StreamTypes /\ WayInv /\ HeldInv /\ GoneInv
    BY <1>1 DEF IInv, FreshInv
  <2>2. /\ now \in Nat /\ captured \in Nat /\ deadline \in Nat
        /\ pc \in Blocked \cup {"top", "geo", "exited"}
    BY <1>1 DEF TypeOK, Time
  <2>3. /\ goneAt \in Nat /\ Transit \in Nat /\ Gap \in Nat /\ LastRead \in Nat
        /\ 2 * WriteTimeout <= Gap
    BY <1>1, <2>1, GoneSums DEF Outdated
  <2>4. /\ told = "fix" /\ ~cancelled /\ lastConnected /\ statusAt # Never
    BY <1>1, <2>1 DEF Outdated, GoneInv, ToldInv, Never
  <2>5. pc \in {"read", "status", "geo", "geoWrite"}
    BY <2>1, <2>2, <2>4 DEF ToldInv, GoneInv, Blocked, Writing
  <2>6. CASE pc = "read"
    <3>1. now <= LastRead + Gap
      BY <1>1, <2>1, <2>6 DEF GoneInv
    <3>. QED
      BY <2>2, <2>3, <3>1 DEF LastRead, Later
  <2>7. CASE pc \in {"status", "geo", "geoWrite"}
    <3>1. captured <= LastRead
      BY <1>1, <2>1, <2>7 DEF GoneInv
    <3>2. now <= captured + 2 * WriteTimeout
      BY <2>1, <2>2, <2>7 DEF GeoInv, WayInv, HeldInv
    <3>3. now <= LastRead + Gap
      BY <2>2, <2>3, <3>1, <3>2
    <3>. QED
      BY <2>2, <2>3, <3>3 DEF LastRead, Later
  <2>. QED
    BY <2>5, <2>6, <2>7
<1>2. TypeOK /\ IInv /\ FreshInv => LossTold
  BY <1>1 DEF Outdated, LossTold
<1>. QED
  BY <1>2, Freshness, PTL
=============================================================================
