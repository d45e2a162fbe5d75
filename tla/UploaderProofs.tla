--------------------------- MODULE UploaderProofs ---------------------------
(***************************************************************************)
(* Theorems about Uploader, for all durations and bounds: its types, what  *)
(* InfluxDB is told of the connection, and how far apart writes begin.     *)
(* Every proof has one step per action of Next.                            *)
(***************************************************************************)
EXTENDS Uploader, TLAPS

(* The initial values have their types. *)
LEMMA TypeInit == Init => TypeOK
<1>. SUFFICES ASSUME Init PROVE TypeOK
  OBVIOUS
<1>1. cancelled \in BOOLEAN /\ lastConnected \in BOOLEAN
  BY DEF Init
<1>2. now \in Time /\ captured \in Time /\ tpv \in [kind : TPVs, at : Time]
  BY UploaderAssumption DEF Init, NoTPV, TPVs, Time
<1>3. feed \in Seq([kind : TPVs \cup {"other"}, at : Time])
  BY DEF Init
<1>. QED
  BY <1>1, <1>2, <1>3 DEF Init, TypeOK, Never, Blocked, Writing

(* Each report in the socket has its type, and so have the first and the rest. *)
LEMMA FeedType ==
  ASSUME NEW S, NEW s \in Seq(S), s # <<>>
  PROVE  Head(s) \in S /\ Tail(s) \in Seq(S)
OBVIOUS

(* What appending to a sequence, and taking its head, does to its members. *)
LEMMA Appended ==
  ASSUME NEW S, NEW s \in Seq(S), NEW e \in S
  PROVE  /\ Len(Append(s, e)) = Len(s) + 1
         /\ DOMAIN s = 1..Len(s) /\ DOMAIN Append(s, e) = 1..(Len(s) + 1)
         /\ \A i \in 1..Len(s) : Append(s, e)[i] = s[i]
         /\ Append(s, e)[Len(s) + 1] = e
OBVIOUS

LEMMA Taken ==
  ASSUME NEW S, NEW s \in Seq(S), s # <<>>
  PROVE  /\ Len(s) \in Nat \ {0}
         /\ Len(Tail(s)) = Len(s) - 1 /\ DOMAIN s = 1..Len(s)
         /\ DOMAIN Tail(s) = 1..(Len(s) - 1)
         /\ \A i \in 1..(Len(s) - 1) : Tail(s)[i] = s[i + 1]
         /\ Head(s) = s[1]
OBVIOUS

LEMMA Member ==
  ASSUME NEW S, NEW s \in Seq(S)
  PROVE  \A i \in DOMAIN s : s[i] \in S
OBVIOUS

(* Every action keeps every type. *)
LEMMA TypeStep == TypeOK /\ [Next]_vars => TypeOK'
<1>. SUFFICES ASSUME TypeOK, [Next]_vars
              PROVE  TypeOK'
  OBVIOUS
<1>. USE UploaderAssumption DEF TypeOK, Time, Never, Blocked, Writing
<1>1. CASE OnTPV
  <2>1. /\ Head(feed) \in [kind : TPVs, at : Time] /\ Tail(feed) \in Seq([kind : TPVs \cup {"other"}, at : Time])
    <3>1. Head(feed) \in [kind : TPVs \cup {"other"}, at : Time] /\ Tail(feed) \in Seq([kind : TPVs \cup {"other"}, at : Time])
      BY <1>1, FeedType DEF OnTPV
    <3>. QED
      BY <1>1, <3>1 DEF OnTPV
  <2>2. lastConnected' \in BOOLEAN
    BY <1>1 DEF OnTPV, WriteStatus
  <2>3. /\ lastStatus' \in Time \cup {Never}
        /\ statusAt' \in Time \cup {Never} /\ lostAt' \in Time \cup {Never}
        /\ deadline' \in Nat /\ pc' \in {"status", "geo"}
    <3>1. CASE WritesStatus(TRUE)
      BY <1>1, <3>1 DEF OnTPV, WriteStatus, Block
    <3>2. CASE ~WritesStatus(TRUE)
      BY <1>1, <3>2 DEF OnTPV
    <3>. QED
      BY <3>1, <3>2
  <2>. QED
    BY <1>1, <2>1, <2>2, <2>3 DEF OnTPV
<1>2. CASE WriteGeo
  BY <1>2 DEF WriteGeo, Block, router, call
<1>3. CASE SkipGeo
  BY <1>3 DEF SkipGeo, Return, Block, router, fields, history, NoTPV, TPVs
<1>4. CASE WriteDone
  BY <1>4 DEF WriteDone, Return, Block, router, fields, history, call, NoTPV, TPVs
<1>5. CASE StartDial
  BY <1>5 DEF StartDial, Block, router, fields, history, call
<1>6. CASE Exit
  BY <1>6 DEF Exit, router, fields, history, call
<1>7. CASE Connect
  BY <1>7 DEF Connect, Block, fields, history, call
<1>8. CASE StreamFails
  <2>1. lastConnected' \in BOOLEAN
    BY <1>8 DEF StreamFails, Disconnected, WriteStatus, fields
  <2>2. /\ lastStatus' \in Time \cup {Never}
        /\ statusAt' \in Time \cup {Never} /\ lostAt' \in Time \cup {Never}
        /\ lastFix' = lastFix /\ geoAt' = geoAt
        /\ deadline' \in Nat /\ pc' \in {"top", "lost", "wait"}
    <3>1. CASE cancelled
      BY <1>8, <3>1 DEF StreamFails, fields, history
    <3>2. CASE ~cancelled /\ WritesStatus(FALSE)
      BY <1>8, <3>2 DEF StreamFails, Disconnected, WriteStatus, Block
    <3>3. CASE ~cancelled /\ ~WritesStatus(FALSE)
      BY <1>8, <3>3 DEF StreamFails, Disconnected, Block
    <3>. QED
      BY <3>1, <3>2, <3>3
  <2>. QED
    BY <1>8, <2>1, <2>2 DEF StreamFails, call
<1>9. CASE SkipReport
  <2>1. Tail(feed) \in Seq([kind : TPVs \cup {"other"}, at : Time])
    BY <1>9, FeedType DEF SkipReport
  <2>. QED
    BY <1>9, <2>1 DEF SkipReport, Block, fields, history, call
<1>10. CASE Retry
  BY <1>10 DEF Retry, router, fields, history, call
<1>11. CASE CloseOnDone
  BY <1>11 DEF CloseOnDone, fields, history, call
<1>12. CASE Cancel
  BY <1>12 DEF Cancel, router, fields, history, call
<1>13. CASE \E kind \in TPVs \cup {"other"} : Arrive(kind)
  <2>1. PICK kind \in TPVs \cup {"other"} : Arrive(kind)
    BY <1>13
  <2>2. [kind |-> kind, at |-> now] \in [kind : TPVs \cup {"other"}, at : Time]
    OBVIOUS
  <2>3. feed' \in Seq([kind : TPVs \cup {"other"}, at : Time])
    BY <2>1, <2>2 DEF Arrive
  <2>. QED
    BY <2>1, <2>3 DEF Arrive, fields, history, call
<1>14. CASE Drop
  BY <1>14 DEF Drop, fields, history, call
<1>15. CASE Tick
  BY <1>15 DEF Tick, router, fields, history, call
<1>16. CASE UNCHANGED vars
  BY <1>16 DEF vars, router, fields, history, call
<1>. QED
  BY <1>1, <1>2, <1>3, <1>4, <1>5, <1>6, <1>7, <1>8, <1>9, <1>10, <1>11, <1>12,
     <1>13, <1>14, <1>15, <1>16 DEF Next, Step, Environment, Exited

(* Every variable keeps its type. *)
THEOREM UploaderTypes == Spec => []TypeOK
BY TypeInit, TypeStep, PTL DEF Spec
-----------------------------------------------------------------------------
\* lastStatus is when the last status write began, and lastConnected what it
\* said: lost, from the end of a stream to the next TPV.
ToldInv ==
  /\ statusAt = lastStatus
  /\ pc \in {"wait", "top", "dial"} /\ statusAt # Never /\ ~cancelled => ~lastConnected
  /\ pc = "lost" => ~lastConnected
  /\ pc \in {"status", "geo", "geoWrite"} => lastConnected

\* How far the clock has run ahead of onTPV's reading of it.
GeoInv ==
  /\ lastFix = Never <=> geoAt = Never
  /\ geoAt # Never => lastFix <= geoAt /\ geoAt <= lastFix + WriteTimeout
  /\ pc = "status" => captured <= now /\ now <= deadline /\ deadline = captured + WriteTimeout
  /\ pc = "geo" => captured <= now /\ now <= captured + WriteTimeout

\* A lost connection is followed by a full RetryDelay before a stream can fail.
LostInv ==
  lostAt # Never =>
    /\ lostAt <= now
    /\ \/ cancelled
       \/ pc = "lost"
       \/ pc = "wait" /\ lostAt + RetryDelay <= deadline
       \/ lostAt + RetryDelay <= now

(* Every action keeps ToldInv: only OnTPV and StreamFails report anything. *)
LEMMA ToldStep == TypeOK /\ ToldInv /\ [Next]_vars => ToldInv'
<1>. SUFFICES ASSUME TypeOK, ToldInv, [Next]_vars
              PROVE  ToldInv'
  OBVIOUS
<1>1. CASE OnTPV
  <2>1. CASE WritesStatus(TRUE)
    BY <1>1, <2>1 DEF ToldInv, OnTPV, WriteStatus, Block
  <2>2. CASE ~WritesStatus(TRUE)
    <3>1. lastConnected
      BY <2>2 DEF WritesStatus, TypeOK
    <3>. QED
      BY <1>1, <2>2, <3>1 DEF ToldInv, OnTPV
  <2>. QED
    BY <2>1, <2>2
<1>2. CASE WriteGeo
  BY <1>2 DEF ToldInv, WriteGeo, Block, call, fields
<1>3. CASE SkipGeo
  BY <1>3 DEF ToldInv, SkipGeo, Return, Block, fields, history
<1>4. CASE WriteDone
  BY <1>4 DEF ToldInv, WriteDone, Return, Block, fields, history, call
<1>5. CASE StartDial
  BY <1>5 DEF ToldInv, StartDial, Block, fields, history, call
<1>6. CASE Exit
  BY <1>6 DEF ToldInv, Exit, fields, history, call
<1>7. CASE Connect
  BY <1>7 DEF ToldInv, Connect, Block, fields, history, call
<1>8. CASE StreamFails
  <2>1. CASE cancelled
    BY <1>8, <2>1 DEF ToldInv, StreamFails, fields, history
  <2>2. CASE ~cancelled /\ WritesStatus(FALSE)
    BY <1>8, <2>2 DEF ToldInv, StreamFails, Disconnected, WriteStatus, Block
  <2>3. CASE ~cancelled /\ ~WritesStatus(FALSE)
    <3>1. ~lastConnected
      BY <2>3 DEF WritesStatus, TypeOK
    <3>. QED
      BY <1>8, <2>3, <3>1 DEF ToldInv, StreamFails, Disconnected, Block
  <2>. QED
    BY <2>1, <2>2, <2>3
<1>9. CASE SkipReport
  BY <1>9 DEF ToldInv, SkipReport, Block, fields, history, call
<1>10. CASE Retry
  BY <1>10 DEF ToldInv, Retry, fields, history, call
<1>11. CASE CloseOnDone
  BY <1>11 DEF ToldInv, CloseOnDone, fields, history, call
<1>12. CASE Cancel
  BY <1>12 DEF ToldInv, Cancel, fields, history, call
<1>13. CASE \E kind \in TPVs \cup {"other"} : Arrive(kind)
  BY <1>13 DEF ToldInv, Arrive, fields, history, call
<1>14. CASE Drop
  BY <1>14 DEF ToldInv, Drop, fields, history, call
<1>15. CASE Tick
  BY <1>15 DEF ToldInv, Tick, fields, history, call
<1>16. CASE UNCHANGED vars
  BY <1>16 DEF ToldInv, vars, fields, history, call
<1>. QED
  BY <1>1, <1>2, <1>3, <1>4, <1>5, <1>6, <1>7, <1>8, <1>9,
     <1>10, <1>11, <1>12, <1>13, <1>14, <1>15, <1>16 DEF Next, Step, Environment, Exited

(* Every action keeps GeoInv: time passes in onTPV only while it writes. *)
LEMMA GeoStep == TypeOK /\ GeoInv /\ [Next]_vars => GeoInv'
<1>. SUFFICES ASSUME TypeOK, GeoInv, [Next]_vars
              PROVE  GeoInv'
  OBVIOUS
<1>. USE UploaderAssumption DEF TypeOK, Time, Never
<1>1. CASE OnTPV
  <2>1. now \in Nat /\ lastFix' = lastFix /\ geoAt' = geoAt /\ captured' = now /\ now' = now
    BY <1>1 DEF OnTPV
  <2>2. \/ pc' = "status" /\ deadline' = now + WriteTimeout
        \/ pc' = "geo"
    BY <1>1 DEF OnTPV, Block
  <2>. QED
    BY <2>1, <2>2 DEF GeoInv
<1>2. CASE WriteGeo
  <2>1. /\ captured <= now /\ now <= captured + WriteTimeout
        /\ lastFix' = captured /\ geoAt' = now /\ pc' = "geoWrite"
    BY <1>2 DEF GeoInv, WriteGeo, Block
  <2>. QED
    BY <2>1 DEF GeoInv
<1>3. CASE SkipGeo
  BY <1>3 DEF GeoInv, SkipGeo, Return, Block, fields, history
<1>4. CASE WriteDone
  BY <1>4 DEF GeoInv, WriteDone, Return, Block, fields, history, call
<1>5. CASE StartDial
  BY <1>5 DEF GeoInv, StartDial, Block, fields, history, call
<1>6. CASE Exit
  BY <1>6 DEF GeoInv, Exit, fields, history, call
<1>7. CASE Connect
  BY <1>7 DEF GeoInv, Connect, Block, fields, history, call
<1>8. CASE StreamFails
  <2>1. lastFix' = lastFix /\ geoAt' = geoAt /\ pc' \in {"top", "lost", "wait"}
    BY <1>8 DEF StreamFails, Disconnected, Block, fields, history
  <2>. QED
    BY <2>1 DEF GeoInv
<1>9. CASE SkipReport
  BY <1>9 DEF GeoInv, SkipReport, Block, fields, history, call
<1>10. CASE Retry
  BY <1>10 DEF GeoInv, Retry, fields, history, call
<1>11. CASE CloseOnDone
  BY <1>11 DEF GeoInv, CloseOnDone, fields, history, call
<1>12. CASE Cancel
  BY <1>12 DEF GeoInv, Cancel, fields, history, call
<1>13. CASE \E kind \in TPVs \cup {"other"} : Arrive(kind)
  BY <1>13 DEF GeoInv, Arrive, fields, history, call
<1>14. CASE Drop
  BY <1>14 DEF GeoInv, Drop, fields, history, call
<1>15. CASE Tick
  <2>1. /\ pc # "geo" /\ now < deadline /\ now' = now + 1
        /\ UNCHANGED <<pc, deadline, captured, lastFix, geoAt>>
    BY <1>15 DEF Tick, Blocked, Writing, fields, history, call
  <2>. QED
    BY <2>1 DEF GeoInv
<1>16. CASE UNCHANGED vars
  BY <1>16 DEF GeoInv, vars, fields, history, call
<1>. QED
  BY <1>1, <1>2, <1>3, <1>4, <1>5, <1>6, <1>7, <1>8, <1>9,
     <1>10, <1>11, <1>12, <1>13, <1>14, <1>15, <1>16 DEF Next, Step, Environment, Exited

(* Every action keeps LostInv: the wait ends only when it is over. *)
LEMMA LostStep == TypeOK /\ LostInv /\ [Next]_vars => LostInv'
<1>. SUFFICES ASSUME TypeOK, LostInv, [Next]_vars
              PROVE  LostInv'
  OBVIOUS
<1>. USE UploaderAssumption DEF TypeOK, Time, Never
<1>1. CASE OnTPV
  <2>1. lostAt' = lostAt /\ pc = "read" /\ UNCHANGED <<now, cancelled>>
    BY <1>1 DEF OnTPV, WriteStatus
  <2>. QED
    BY <2>1 DEF LostInv
<1>2. CASE WriteGeo
  BY <1>2 DEF LostInv, WriteGeo, Block, call, fields
<1>3. CASE SkipGeo
  BY <1>3 DEF LostInv, SkipGeo, Return, Block, fields, history
<1>4. CASE WriteDone
  BY <1>4 DEF LostInv, WriteDone, Return, Block, fields, history, call
<1>5. CASE StartDial
  BY <1>5 DEF LostInv, StartDial, Block, fields, history, call
<1>6. CASE Exit
  BY <1>6 DEF LostInv, Exit, fields, history, call
<1>7. CASE Connect
  BY <1>7 DEF LostInv, Connect, Block, fields, history, call
<1>8. CASE StreamFails
  <2>1. pc \in {"dial", "read"} /\ UNCHANGED <<now, cancelled>>
    BY <1>8 DEF StreamFails, ReadFails
  <2>2. CASE cancelled
    BY <1>8, <2>1, <2>2 DEF LostInv, StreamFails, history
  <2>3. CASE ~cancelled /\ WritesStatus(FALSE)
    BY <1>8, <2>1, <2>3 DEF LostInv, StreamFails, Disconnected, WriteStatus, Block
  <2>4. CASE ~cancelled /\ ~WritesStatus(FALSE)
    BY <1>8, <2>1, <2>4 DEF LostInv, StreamFails, Disconnected, Block
  <2>. QED
    BY <2>2, <2>3, <2>4
<1>9. CASE SkipReport
  BY <1>9 DEF LostInv, SkipReport, Block, fields, history, call
<1>10. CASE Retry
  BY <1>10 DEF LostInv, Retry, fields, history, call
<1>11. CASE CloseOnDone
  BY <1>11 DEF LostInv, CloseOnDone, fields, history, call
<1>12. CASE Cancel
  BY <1>12 DEF LostInv, Cancel, fields, history, call
<1>13. CASE \E kind \in TPVs \cup {"other"} : Arrive(kind)
  BY <1>13 DEF LostInv, Arrive, fields, history, call
<1>14. CASE Drop
  BY <1>14 DEF LostInv, Drop, fields, history, call
<1>15. CASE Tick
  BY <1>15 DEF LostInv, Tick, fields, history, call
<1>16. CASE UNCHANGED vars
  BY <1>16 DEF LostInv, vars, fields, history, call
<1>. QED
  BY <1>1, <1>2, <1>3, <1>4, <1>5, <1>6, <1>7, <1>8, <1>9,
     <1>10, <1>11, <1>12, <1>13, <1>14, <1>15, <1>16 DEF Next, Step, Environment, Exited

IInv == ToldInv /\ GeoInv /\ LostInv

(* The three parts hold together in every state. *)
THEOREM UploaderInvariance == Spec => []IInv
<1>1. Init => IInv
  <2>. SUFFICES ASSUME Init PROVE IInv
    OBVIOUS
  <2>1. ToldInv
    BY DEF Init, ToldInv
  <2>2. GeoInv
    BY DEF Init, GeoInv
  <2>3. LostInv
    BY DEF Init, LostInv
  <2>. QED
    BY <2>1, <2>2, <2>3 DEF IInv
<1>2. TypeOK /\ IInv /\ [Next]_vars => IInv'
  BY ToldStep, GeoStep, LostStep DEF IInv
<1>. QED
  BY <1>1, <1>2, UploaderTypes, PTL DEF Spec
-----------------------------------------------------------------------------
(* InfluxDB is told of a lost connection before the next dial, and of a
   re-established one before the first geo point. *)
THEOREM Telling == Spec => []StatusTells
<1>1. IInv => StatusTells
  BY DEF IInv, ToldInv, StatusTells
<1>. QED
  BY <1>1, UploaderInvariance, PTL

(* Geo writes begin at least MinInterval - WriteTimeout apart. *)
THEOREM Spacing == Spec => GeoSpacing
<1>1. TypeOK /\ IInv /\ [Next]_vars =>
        [StartsGeo /\ geoAt # Never => now - geoAt >= MinInterval - WriteTimeout]_vars
  <2>. SUFFICES ASSUME TypeOK, IInv, [Next]_vars, StartsGeo, geoAt # Never
                PROVE  now - geoAt >= MinInterval - WriteTimeout
    OBVIOUS
  <2>1. WriteGeo
    BY DEF StartsGeo, Next, Step, Environment, Exited, OnTPV, SkipGeo, Return, WriteDone,
           StartDial, Exit, Connect, StreamFails, Disconnected, SkipReport, Retry, Block,
           CloseOnDone, Cancel, Arrive, Drop, Tick, vars
  <2>2. captured - lastFix >= MinInterval /\ captured <= now /\ geoAt <= lastFix + WriteTimeout
    BY <2>1 DEF WriteGeo, GeoDue, Due, IInv, GeoInv
  <2>. QED
    BY <2>2, UploaderAssumption DEF TypeOK, Time, Never
<1>. QED
  BY <1>1, UploaderTypes, UploaderInvariance, PTL DEF Spec, GeoSpacing

(* Status writes that report the same state begin at least MinInterval apart,
   and a lost connection is reported once per RetryDelay at most. *)
THEOREM Pacing == Spec => StatusPaced
<1>. DEFINE Paced == StartsStatus =>
       /\ lastStatus # Never /\ lastConnected' = lastConnected
            => now - statusAt >= MinInterval
       /\ pc' = "lost" /\ lostAt # Never => now - lostAt >= RetryDelay
<1>1. TypeOK /\ IInv /\ [Next]_vars => [Paced]_vars
  <2>. SUFFICES ASSUME TypeOK, IInv, [Next]_vars, StartsStatus
                PROVE  /\ lastStatus # Never /\ lastConnected' = lastConnected
                            => now - statusAt >= MinInterval
                       /\ pc' = "lost" /\ lostAt # Never => now - lostAt >= RetryDelay
    OBVIOUS
  <2>1. \/ OnTPV /\ pc' = "status"
        \/ StreamFails /\ pc' = "lost"
    BY DEF StartsStatus, Next, Step, Environment, Exited, OnTPV, WriteGeo, SkipGeo, Return,
           WriteDone, StartDial, Exit, Connect, StreamFails, Disconnected, SkipReport, Retry,
           Block, CloseOnDone, Cancel, Arrive, Drop, Tick, vars
  <2>2. CASE OnTPV /\ pc' = "status"
    <3>1. WritesStatus(TRUE) /\ lastConnected' = TRUE
      BY <2>2 DEF OnTPV, WriteStatus
    <3>2. lastStatus # Never /\ lastConnected' = lastConnected => now - lastStatus >= MinInterval
      BY <3>1 DEF WritesStatus, Due
    <3>. QED
      BY <2>2, <3>2 DEF IInv, ToldInv
  <2>3. CASE StreamFails /\ pc' = "lost"
    <3>1. WritesStatus(FALSE) /\ lastConnected' = FALSE
      BY <2>3 DEF StreamFails, Disconnected, WriteStatus, Block
    <3>2. lastStatus # Never /\ lastConnected' = lastConnected => now - lastStatus >= MinInterval
      BY <3>1 DEF WritesStatus, Due
    <3>3. ~cancelled /\ pc \in {"dial", "read"}
      BY <2>3 DEF StreamFails, ReadFails
    <3>4. lostAt # Never => now - lostAt >= RetryDelay
      BY <3>3, UploaderAssumption DEF IInv, LostInv, TypeOK, Time, Never
    <3>. QED
      BY <3>2, <3>4 DEF IInv, ToldInv
  <2>. QED
    BY <2>1, <2>2, <2>3
<1>. QED
  BY <1>1, UploaderTypes, UploaderInvariance, PTL DEF Spec, StatusPaced
-----------------------------------------------------------------------------
(***************************************************************************)
(* NoBacklog.  While TPVs wait no time passes but in writes, and each kind *)
(* of write happens at most once before they are all read.                 *)
(***************************************************************************)

\* What the writes since `from' may have taken.
Spent(from) == (IF lastConnected /\ lastStatus >= from THEN WriteTimeout ELSE 0)
               + (IF lastFix >= from THEN WriteTimeout ELSE 0)

\* The last time that the uploader waited for a report was at `from'.
Busy(from) ==
  /\ from <= now
  /\ \A i \in DOMAIN feed : from <= feed[i].at
  /\ pc \in {"status", "geo", "geoWrite"} =>
       from <= tpv.at /\ from <= captured /\ captured <= from + 2 * WriteTimeout
  /\ pc \in {"read", "geo"} => now <= from + Spent(from)
  /\ pc \in {"status", "geoWrite"} => now <= deadline /\ deadline <= from + Spent(from)

BusyInv ==
  2 * WriteTimeout < MinInterval
  /\ (pc \in {"status", "geo", "geoWrite"} \/ (pc = "read" /\ feed # <<>>))
    => \E from \in Nat : Busy(from)

(* Every action keeps BusyInv: the uploader comes to wait for a report only when
   it has read all that came, and a second write of a kind is not due yet. *)
LEMMA BusyStep == TypeOK /\ TypeOK' /\ ToldInv /\ BusyInv /\ [Next]_vars => BusyInv'
<1>. SUFFICES ASSUME TypeOK, TypeOK', ToldInv, BusyInv, [Next]_vars,
                     2 * WriteTimeout < MinInterval,
                     pc' \in {"status", "geo", "geoWrite"} \/ (pc' = "read" /\ feed' # <<>>)
              PROVE  \E from \in Nat : Busy(from)'
  BY DEF BusyInv
<1>. USE UploaderAssumption
<1>0. /\ now \in Nat /\ now' \in Nat /\ captured \in Nat /\ deadline \in Nat
      /\ lastFix \in Int /\ lastStatus \in Int /\ tpv.at \in Nat
      /\ feed \in Seq([kind : TPVs \cup {"other"}, at : Time])
      /\ \A i \in DOMAIN feed : feed[i].at \in Nat
  <2>1. \A i \in DOMAIN feed : feed[i] \in [kind : TPVs \cup {"other"}, at : Time]
    <3>1. feed \in Seq([kind : TPVs \cup {"other"}, at : Time])
      BY DEF TypeOK
    <3>. QED
      BY <3>1, Member
  <2>2. \A i \in DOMAIN feed : feed[i].at \in Nat
    BY <2>1 DEF Time
  <2>3. tpv.at \in Time
    BY DEF TypeOK
  <2>. QED
    BY <2>2, <2>3 DEF TypeOK, Time, Never
<1>busy. ASSUME pc \in {"status", "geo", "geoWrite"} \/ (pc = "read" /\ feed # <<>>)
        PROVE  \E from \in Nat : Busy(from)
  BY <1>busy DEF BusyInv
<1>spent. \A from \in Nat : Spent(from) \in Nat /\ Spent(from) <= 2 * WriteTimeout
  BY DEF Spent
<1>1. CASE OnTPV
  <2>1. pc = "read" /\ feed # <<>> /\ feed' = Tail(feed) /\ tpv' = feed[1] /\ captured' = now
        /\ now' = now /\ lastFix' = lastFix /\ 1 \in DOMAIN feed
    BY <1>0, <1>1, Taken DEF OnTPV
  <2>2. PICK from \in Nat : Busy(from)
    BY <1>busy, <2>1
  <2>3. now <= from + Spent(from) /\ from <= now
    BY <2>1, <2>2 DEF Busy
  <2>4. \A i \in DOMAIN feed' : from <= feed'[i].at
    BY <1>0, <2>1, <2>2, Taken DEF Busy
  <2>5. from <= tpv'.at /\ from <= captured' /\ captured' <= from + 2 * WriteTimeout
    <3>1. from <= feed[1].at
      BY <2>1, <2>2 DEF Busy
    <3>. QED
      BY <1>0, <1>spent, <2>1, <2>3, <3>1
  <2>6. CASE WritesStatus(TRUE)
    <3>1. pc' = "status" /\ deadline' = now + WriteTimeout /\ lastStatus' = now /\ lastConnected'
      BY <1>1, <2>6 DEF OnTPV, Block, WriteStatus
    <3>2. ~(lastConnected /\ lastStatus >= from)
      <4>1. SUFFICES ASSUME lastConnected, lastStatus >= from PROVE FALSE
        OBVIOUS
      <4>2. Due(lastStatus, now)
        BY <2>6, <4>1 DEF WritesStatus, TypeOK
      <4>3. lastStatus = Never \/ now - lastStatus >= MinInterval
        BY <4>2 DEF Due
      <4>4. now <= from + 2 * WriteTimeout
        BY <1>0, <1>spent, <2>3
      <4>. QED
        BY <1>0, <4>1, <4>3, <4>4 DEF Never
    <3>3. now + WriteTimeout <= from + Spent(from)'
      BY <1>0, <2>1, <2>3, <3>1, <3>2 DEF Spent
    <3>. QED
      BY <1>0, <2>1, <2>3, <2>4, <2>5, <3>1, <3>3 DEF Busy
  <2>7. CASE ~WritesStatus(TRUE)
    <3>1. pc' = "geo" /\ UNCHANGED <<lastStatus, lastConnected>>
      BY <1>1, <2>7 DEF OnTPV
    <3>2. Spent(from)' = Spent(from)
      BY <2>1, <3>1 DEF Spent
    <3>. QED
      BY <2>1, <2>3, <2>4, <2>5, <3>1, <3>2 DEF Busy
  <2>. QED
    BY <2>6, <2>7
<1>2. CASE WriteGeo
  <2>1. pc = "geo" /\ pc' = "geoWrite" /\ deadline' = now + WriteTimeout /\ lastFix' = captured
        /\ UNCHANGED <<now, feed, tpv, captured, lastStatus, lastConnected>> /\ Due(lastFix, captured)
    BY <1>2 DEF WriteGeo, GeoDue, Block, router, call
  <2>2. PICK from \in Nat : Busy(from)
    BY <1>busy, <2>1
  <2>3. ~(lastFix >= from) /\ captured >= from
    BY <1>0, <2>1, <2>2 DEF Busy, Due, Never
  <2>4. deadline' <= from + Spent(from)'
    BY <1>0, <2>1, <2>2, <2>3 DEF Busy, Spent
  <2>. QED
    BY <1>0, <2>1, <2>2, <2>4 DEF Busy
<1>3. CASE SkipGeo
  <2>1. pc = "geo" /\ pc' = "read" /\ UNCHANGED <<now, feed, lastFix, lastStatus, lastConnected>>
    BY <1>3 DEF SkipGeo, Return, Block, router, fields
  <2>2. PICK from \in Nat : Busy(from)
    BY <1>busy, <2>1
  <2>. QED
    BY <2>1, <2>2 DEF Busy, Spent
<1>4. CASE WriteDone
  <2>1. /\ UNCHANGED <<now, feed, lastFix, lastStatus, lastConnected>>
        /\ \/ pc = "status" /\ pc' = "geo" /\ UNCHANGED <<tpv, captured>>
           \/ pc = "geoWrite" /\ pc' = "read"
    BY <1>4 DEF WriteDone, Return, Block, router, fields, call
  <2>2. PICK from \in Nat : Busy(from)
    BY <1>busy, <2>1
  <2>3. now <= from + Spent(from) /\ Spent(from)' = Spent(from)
    BY <1>0, <1>spent, <2>1, <2>2 DEF Busy, Spent
  <2>. QED
    BY <2>1, <2>2, <2>3 DEF Busy
<1>5. CASE StartDial \/ Exit \/ Retry \/ StreamFails
  BY <1>5 DEF StartDial, Exit, Retry, StreamFails, Disconnected, Block
<1>6. CASE Connect
  BY <1>6 DEF Connect, Block
<1>7. CASE SkipReport
  <2>1. pc = "read" /\ pc' = "read" /\ feed # <<>> /\ feed' = Tail(feed)
        /\ UNCHANGED <<now, lastFix, lastStatus, lastConnected>>
    BY <1>7 DEF SkipReport, Block, fields
  <2>2. PICK from \in Nat : Busy(from)
    BY <1>busy, <2>1
  <2>3. \A i \in DOMAIN feed' : from <= feed'[i].at
    BY <1>0, <2>1, <2>2, Taken DEF Busy
  <2>. QED
    BY <2>1, <2>2, <2>3 DEF Busy, Spent
<1>8. CASE CloseOnDone \/ Cancel \/ Drop \/ UNCHANGED vars
  <2>1. UNCHANGED <<now, pc, deadline, feed, tpv, captured, lastFix, lastStatus, lastConnected>>
    BY <1>8 DEF CloseOnDone, Cancel, Drop, vars, router, fields, call
  <2>. pc \in {"status", "geo", "geoWrite"} \/ (pc = "read" /\ feed # <<>>)
    BY <2>1
  <2>2. PICK from \in Nat : Busy(from)
    BY <1>busy
  <2>. QED
    BY <2>1, <2>2 DEF Busy, Spent
<1>9. CASE \E kind \in TPVs \cup {"other"} : Arrive(kind)
  <2>1. PICK kind \in TPVs \cup {"other"} : Arrive(kind)
    BY <1>9
  <2>2. /\ feed' = Append(feed, [kind |-> kind, at |-> now])
        /\ UNCHANGED <<now, pc, deadline, tpv, captured, lastFix, lastStatus, lastConnected>>
    BY <2>1 DEF Arrive, fields, call
  <2>3. [kind |-> kind, at |-> now] \in [kind : TPVs \cup {"other"}, at : Time]
    BY DEF TypeOK
  <2>4. \A i \in DOMAIN feed' : (i \in DOMAIN feed /\ feed'[i] = feed[i]) \/ feed'[i].at = now
    BY <1>0, <2>2, <2>3, Appended
  <2>5. CASE pc = "read" /\ feed = <<>>
    <3>1. Busy(now)'
      BY <1>0, <1>spent, <2>2, <2>4, <2>5 DEF Busy, Spent
    <3>. QED
      BY <1>0, <2>2, <3>1
  <2>6. CASE ~(pc = "read" /\ feed = <<>>)
    <3>1. PICK from \in Nat : Busy(from)
      BY <1>busy, <2>2, <2>6
    <3>2. Busy(from)'
      BY <2>2, <2>4, <3>1 DEF Busy, Spent
    <3>. QED
      BY <3>2
  <2>. QED
    BY <2>5, <2>6
<1>10. CASE Tick
  <2>0. /\ now' = now + 1 /\ now < deadline
        /\ UNCHANGED <<pc, deadline, feed, tpv, captured, lastFix, lastStatus, lastConnected>>
        /\ pc = "read" => feed = <<>>
    BY <1>10 DEF Tick, router, fields, call
  <2>1. pc \in {"status", "geo", "geoWrite"}
    BY <2>0
  <2>. pc # "geo"
    BY <1>10 DEF Tick, Blocked, Writing
  <2>2. PICK from \in Nat : Busy(from)
    BY <1>busy, <2>1
  <2>. QED
    BY <1>0, <2>0, <2>1, <2>2 DEF Busy, Spent
<1>. QED
  BY <1>1, <1>2, <1>3, <1>4, <1>5, <1>6, <1>7, <1>8, <1>9, <1>10 DEF Next, Step, Environment, Exited

(* The TPV that onTPV handles arrived no more than two writes ago. *)
THEOREM NothingQueues == Spec => []NoBacklog
<1>1. Init => BusyInv
  BY DEF Init, BusyInv
<1>2. TypeOK /\ BusyInv => NoBacklog
  <2>. SUFFICES ASSUME TypeOK, BusyInv, 2 * WriteTimeout < MinInterval,
                       pc \in {"status", "geo", "geoWrite"}
                PROVE  captured - tpv.at <= 2 * WriteTimeout
    BY DEF NoBacklog
  <2>1. PICK from \in Nat : Busy(from)
    BY DEF BusyInv
  <2>. QED
    BY <2>1, UploaderAssumption DEF Busy, TypeOK, Time
<1>3. IInv => ToldInv
  BY DEF IInv
<1>. QED
  BY <1>1, <1>2, <1>3, BusyStep, UploaderTypes, UploaderInvariance, PTL DEF Spec
-----------------------------------------------------------------------------
(***************************************************************************)
(* SilenceBounded.  Every call that run blocks in has its share of the     *)
(* bound, counted from the last status write.                              *)
(***************************************************************************)
Since == IF statusAt = Never THEN 0 ELSE statusAt

\* How long a status write lets the next one wait; from one to the next reader.
Debounce == Later(MinInterval, WriteTimeout)
Reader == Debounce + Later(RetryDelay + DialTimeout, WriteTimeout)

\* What n reads that return no TPV may take.
Skips(n) == n * ReadTimeout

HasTPV(s) == \E i \in DOMAIN s : s[i].kind \in TPVs

\* When, counted from the last status write, run leaves the call it is in.
Leaves ==
  /\ pc \in Blocked => now <= deadline
  /\ pc \in {"status", "lost"} => deadline <= Since + WriteTimeout
  /\ pc = "geo" => now <= Since + Debounce
  /\ pc = "geoWrite" => deadline <= Since + Debounce + WriteTimeout
  /\ pc = "wait" => deadline <= Since + Debounce + RetryDelay
  /\ pc = "top" => now <= Since + Debounce + RetryDelay
  /\ pc = "dial" => deadline <= Since + Debounce + RetryDelay + DialTimeout
  /\ pc = "read" /\ feed = <<>> => deadline <= Since + Reader + Skips(others + 1)
  /\ pc = "read" /\ feed # <<>> /\ ~HasTPV(feed) => now <= Since + Reader + Skips(others)

SilentInv ==
  /\ now <= Since + Reader + Skips(MaxOthers + 1)
  /\ others <= MaxOthers
  /\ ~cancelled => Leaves

(* The multiples of a duration. *)
LEMMA Multiples ==
  ASSUME NEW d \in Nat
  PROVE  /\ \A n \in Nat : n * d \in Nat /\ (n + 1) * d = n * d + d
         /\ \A n, m \in Nat : n <= m => n * d <= m * d
<1>1. ASSUME NEW n \in Nat PROVE n * d \in Nat /\ (n + 1) * d = n * d + d
  OBVIOUS
<1>2. ASSUME NEW n \in Nat, NEW m \in Nat, n <= m PROVE n * d <= m * d
  <2>1. PICK e \in Nat : m = n + e
    <3>1. m - n \in Nat /\ m = n + (m - n)
      BY <1>2
    <3>. QED
      BY <3>1
  <2>2. m * d = n * d + e * d
    BY <2>1
  <2>3. e * d \in Nat /\ n * d \in Nat
    OBVIOUS
  <2>. QED
    BY <2>2, <2>3
<1>. QED
  BY <1>1, <1>2

(* Every read adds its timeout, and more reads take no less. *)
LEMMA SkipsGrow ==
  /\ \A n \in Nat : Skips(n) \in Nat /\ Skips(n + 1) = Skips(n) + ReadTimeout
  /\ \A n, m \in Nat : n <= m => Skips(n) <= Skips(m)
BY UploaderAssumption, Multiples DEF Skips

(* What the two sums are made of. *)
LEMMA Shares ==
  /\ Debounce \in Nat /\ MinInterval <= Debounce /\ WriteTimeout <= Debounce
  /\ Reader \in Nat /\ Debounce + RetryDelay + DialTimeout <= Reader
  /\ Debounce + WriteTimeout <= Reader
BY UploaderAssumption DEF Debounce, Reader, Later

(* A status write makes the last one recent; what is not written was recent. *)
LEMMA Fresh ==
  ASSUME TypeOK, ToldInv, NEW connected \in BOOLEAN
  PROVE  /\ WritesStatus(connected) /\ WriteStatus(connected) => Since' = now
         /\ ~WritesStatus(connected) => now <= Since + Debounce
<1>. USE UploaderAssumption DEF TypeOK, Time, Never
<1>1. ASSUME WriteStatus(connected) PROVE Since' = now
  BY <1>1 DEF WriteStatus, Since
<1>2. ASSUME ~WritesStatus(connected) PROVE now <= Since + Debounce
  <2>1. lastStatus # Never /\ ~(now - lastStatus >= MinInterval)
    BY <1>2 DEF WritesStatus, Due
  <2>2. Since = lastStatus
    BY <2>1 DEF Since, ToldInv
  <2>. QED
    BY <2>1, <2>2, Shares
<1>. QED
  BY <1>1, <1>2

(* Only a status write changes Since, and it sets it to the clock. *)
LEMMA SinceStep ==
  ASSUME TypeOK, ToldInv, [Next]_vars
  PROVE  Since \in Nat /\ (Since' = Since \/ (Since' = now /\ now' = now))
<1>. USE DEF TypeOK, Time, Never
<1>1. Since \in Nat
  BY DEF Since
<1>2. CASE statusAt' = statusAt
  BY <1>1, <1>2 DEF Since
<1>3. CASE OnTPV
  <2>1. CASE WritesStatus(TRUE)
    BY <1>1, <1>3, <2>1, Fresh DEF OnTPV
  <2>2. CASE ~WritesStatus(TRUE)
    BY <1>2, <1>3, <2>2 DEF OnTPV
  <2>. QED
    BY <2>1, <2>2
<1>4. CASE StreamFails
  <2>1. CASE ~cancelled /\ WritesStatus(FALSE)
    <3>1. WriteStatus(FALSE) /\ now' = now
      BY <1>4, <2>1 DEF StreamFails, Disconnected
    <3>. QED
      BY <1>1, <2>1, <3>1, Fresh
  <2>2. CASE ~cancelled /\ ~WritesStatus(FALSE)
    BY <1>2, <1>4, <2>2 DEF StreamFails, Disconnected
  <2>3. CASE cancelled
    BY <1>2, <1>4, <2>3 DEF StreamFails, history
  <2>. QED
    BY <2>1, <2>2, <2>3
<1>5. CASE ~OnTPV /\ ~StreamFails
  <2>1. statusAt' = statusAt
    BY <1>5 DEF Next, Step, Environment, Exited, WriteGeo, SkipGeo, WriteDone, StartDial, Exit,
       Connect, SkipReport, Retry, CloseOnDone, Cancel, Arrive, Drop, Tick, vars, history
  <2>. QED
    BY <1>2, <2>1
<1>. QED
  BY <1>3, <1>4, <1>5

(* Every action leaves each call its share. *)
LEMMA LeavesStep == TypeOK /\ TypeOK' /\ ToldInv /\ SilentInv /\ [Next]_vars /\ ~cancelled' => Leaves'
<1>. SUFFICES ASSUME TypeOK, TypeOK', ToldInv, SilentInv, [Next]_vars, ~cancelled'
              PROVE  Leaves'
  OBVIOUS
<1>. USE UploaderAssumption, Shares
<1>0. /\ now \in Nat /\ now' \in Nat /\ deadline \in Nat /\ deadline' \in Nat /\ others \in Nat
      /\ Since \in Nat /\ Since' \in Nat /\ others <= MaxOthers
      /\ feed \in Seq([kind : TPVs \cup {"other"}, at : Time])
      /\ Skips(others) \in Nat /\ Skips(others + 1) = Skips(others) + ReadTimeout
      /\ Skips(MaxOthers + 1) \in Nat
  <2>1. now \in Nat /\ now' \in Nat /\ deadline \in Nat /\ deadline' \in Nat /\ others \in Nat
        /\ feed \in Seq([kind : TPVs \cup {"other"}, at : Time])
    BY DEF TypeOK, Time
  <2>2. Since \in Nat /\ Since' \in Nat
    BY SinceStep, <2>1
  <2>3. MaxOthers + 1 \in Nat
    OBVIOUS
  <2>. QED
    BY <2>1, <2>2, <2>3, SkipsGrow DEF SilentInv
<1>same. statusAt' = statusAt => Since' = Since
  BY DEF Since
<1>leaves. ~cancelled => Leaves
  BY DEF SilentInv
<1>1. CASE OnTPV
  <2>1. ~cancelled /\ now' = now
    BY <1>1 DEF OnTPV
  <2>2. CASE WritesStatus(TRUE)
    <3>1. Since' = now /\ pc' = "status" /\ deadline' = now + WriteTimeout
      BY <1>1, <2>2, Fresh DEF OnTPV, Block
    <3>. QED
      BY <1>0, <2>1, <3>1 DEF Leaves, Blocked, Writing
  <2>3. CASE ~WritesStatus(TRUE)
    <3>1. Since' = Since /\ pc' = "geo" /\ now <= Since + Debounce
      BY <1>1, <1>same, <2>3, Fresh DEF OnTPV
    <3>. QED
      BY <1>0, <2>1, <3>1 DEF Leaves, Blocked, Writing
  <2>. QED
    BY <2>2, <2>3
<1>2. CASE WriteGeo
  <2>1. /\ ~cancelled /\ now' = now /\ Since' = Since /\ pc = "geo" /\ pc' = "geoWrite"
        /\ deadline' = now + WriteTimeout
    BY <1>2, <1>same DEF WriteGeo, Block
  <2>. QED
    BY <1>0, <1>leaves, <2>1 DEF Leaves, Blocked, Writing
<1>3. CASE SkipGeo \/ (WriteDone /\ pc = "geoWrite")
  <2>1. /\ ~cancelled /\ now' = now /\ Since' = Since /\ pc \in {"geo", "geoWrite"} /\ pc' = "read"
        /\ deadline' = now + ReadTimeout /\ others' = others
    BY <1>3, <1>same DEF SkipGeo, WriteDone, Return, Block, router, history
  <2>2. now <= Since + Reader
    BY <1>0, <1>leaves, <2>1 DEF Leaves, Blocked, Writing
  <2>3. deadline' <= Since' + Reader + Skips(others' + 1) /\ now' <= Since' + Reader + Skips(others')
    BY <1>0, <2>1, <2>2
  <2>. QED
    BY <1>0, <2>1, <2>3 DEF Leaves, Blocked, Writing
<1>4. CASE WriteDone /\ pc # "geoWrite"
  <2>1. /\ ~cancelled /\ now' = now /\ Since' = Since
        /\ \/ pc = "status" /\ pc' = "geo" /\ deadline' = deadline
           \/ pc = "lost" /\ pc' = "wait" /\ deadline' = now + RetryDelay
    BY <1>4, <1>same DEF WriteDone, Block, history
  <2>2. now <= Since + WriteTimeout
    BY <1>0, <1>leaves, <2>1 DEF Leaves, Blocked, Writing
  <2>. QED
    BY <1>0, <2>1, <2>2 DEF Leaves, Blocked, Writing
<1>5. CASE StartDial
  <2>1. /\ ~cancelled /\ now' = now /\ Since' = Since /\ pc = "top" /\ pc' = "dial"
        /\ deadline' = now + DialTimeout
    BY <1>5, <1>same DEF StartDial, Block, history
  <2>. QED
    BY <1>0, <1>leaves, <2>1 DEF Leaves, Blocked, Writing
<1>6. CASE Exit
  BY <1>6 DEF Exit
<1>7. CASE Connect
  <2>1. /\ ~cancelled /\ now' = now /\ Since' = Since /\ pc = "dial" /\ pc' = "read"
        /\ deadline' = now + ReadTimeout /\ others' = 0 /\ feed' = <<>>
    BY <1>7, <1>same DEF Connect, Block, history
  <2>2. now <= Since + Reader
    BY <1>0, <1>leaves, <2>1 DEF Leaves, Blocked, Writing
  <2>3. Skips(1) = Skips(0) + ReadTimeout /\ Skips(0) \in Nat
    BY SkipsGrow
  <2>4. deadline' <= Since' + Reader + Skips(others' + 1)
    BY <1>0, <2>1, <2>2, <2>3
  <2>. QED
    BY <1>0, <2>1, <2>4 DEF Leaves, Blocked, Writing
<1>8. CASE StreamFails
  <2>1. ~cancelled /\ now' = now
    BY <1>8 DEF StreamFails
  <2>2. CASE WritesStatus(FALSE)
    <3>1. Since' = now /\ pc' = "lost" /\ deadline' = now + WriteTimeout
      BY <1>8, <2>1, <2>2, Fresh DEF StreamFails, Disconnected, Block
    <3>. QED
      BY <1>0, <2>1, <3>1 DEF Leaves, Blocked, Writing
  <2>3. CASE ~WritesStatus(FALSE)
    <3>1. Since' = Since /\ pc' = "wait" /\ deadline' = now + RetryDelay /\ now <= Since + Debounce
      BY <1>8, <1>same, <2>1, <2>3, Fresh DEF StreamFails, Disconnected, Block
    <3>. QED
      BY <1>0, <2>1, <3>1 DEF Leaves, Blocked, Writing
  <2>. QED
    BY <2>2, <2>3
<1>9. CASE SkipReport
  <2>1. /\ ~cancelled /\ now' = now /\ Since' = Since /\ pc = "read" /\ pc' = "read"
        /\ feed # <<>> /\ feed[1].kind = "other" /\ feed' = Tail(feed)
        /\ deadline' = now + ReadTimeout /\ others' = others
    BY <1>0, <1>9, <1>same, Taken DEF SkipReport, Block, history
  <2>2. CASE HasTPV(feed)
    <3>1. PICK i \in DOMAIN feed : feed[i].kind \in TPVs
      BY <2>2 DEF HasTPV
    <3>2. i \in 2..Len(feed)
      BY <1>0, <2>1, <3>1, Taken DEF TPVs
    <3>3. i - 1 \in DOMAIN feed' /\ feed'[i - 1] = feed[i]
      <4>1. /\ Len(feed) \in Nat /\ DOMAIN Tail(feed) = 1..(Len(feed) - 1)
            /\ \A k \in 1..(Len(feed) - 1) : Tail(feed)[k] = feed[k + 1]
        BY <1>0, <2>1, Taken
      <4>2. i - 1 \in 1..(Len(feed) - 1) /\ (i - 1) + 1 = i
        BY <3>2, <4>1
      <4>. QED
        BY <2>1, <4>1, <4>2
    <3>4. HasTPV(feed')
      BY <3>1, <3>3 DEF HasTPV
    <3>5. feed' # <<>>
      BY <3>3
    <3>. QED
      BY <1>0, <2>1, <3>4, <3>5 DEF Leaves, Blocked, Writing
  <2>3. CASE ~HasTPV(feed)
    <3>1. now <= Since + Reader + Skips(others)
      BY <1>leaves, <2>1, <2>3 DEF Leaves
    <3>2. deadline' <= Since' + Reader + Skips(others' + 1) /\ now' <= Since' + Reader + Skips(others')
      BY <1>0, <2>1, <3>1
    <3>. QED
      BY <1>0, <2>1, <3>2 DEF Leaves, Blocked, Writing
  <2>. QED
    BY <2>2, <2>3
<1>10. CASE Retry
  <2>1. ~cancelled /\ now' = now /\ Since' = Since /\ pc = "wait" /\ pc' = "top"
    BY <1>10, <1>same DEF Retry, history
  <2>. QED
    BY <1>0, <1>leaves, <2>1 DEF Leaves, Blocked, Writing
<1>11. CASE CloseOnDone \/ Cancel
  BY <1>11 DEF CloseOnDone, Cancel
<1>12. CASE \E kind \in TPVs \cup {"other"} : Arrive(kind)
  <2>1. PICK kind \in TPVs \cup {"other"} : Arrive(kind)
    BY <1>12
  <2>2. /\ ~cancelled /\ now' = now /\ Since' = Since /\ pc' = pc /\ deadline' = deadline
        /\ feed' = Append(feed, [kind |-> kind, at |-> now])
        /\ others' = IF kind = "other" THEN others + 1 ELSE 0
    BY <1>same, <2>1 DEF Arrive, history
  <2>3. [kind |-> kind, at |-> now] \in [kind : TPVs \cup {"other"}, at : Time]
    BY DEF TypeOK
  <2>4. feed' # <<>> /\ Len(feed) \in Nat /\ feed'[Len(feed) + 1].kind = kind
        /\ DOMAIN feed' = 1..(Len(feed) + 1) /\ DOMAIN feed = 1..Len(feed)
        /\ \A i \in 1..Len(feed) : feed'[i] = feed[i]
    BY <1>0, <2>2, <2>3, Appended
  <2>5. CASE kind \in TPVs
    <3>1. HasTPV(feed')
      BY <2>4, <2>5 DEF HasTPV
    <3>. QED
      BY <1>0, <1>leaves, <2>2, <2>4, <3>1 DEF Leaves
  <2>6. CASE kind = "other"
    <3>1. others' = others + 1
      BY <2>2, <2>6
    <3>2. HasTPV(feed) => HasTPV(feed')
      BY <2>4 DEF HasTPV
    <3>3. pc = "read" /\ ~HasTPV(feed) => now <= Since + Reader + Skips(others + 1)
      <4>1. CASE pc = "read" /\ feed = <<>>
        BY <1>0, <1>leaves, <2>2, <4>1 DEF Leaves, Blocked
      <4>2. CASE pc = "read" /\ feed # <<>> /\ ~HasTPV(feed)
        BY <1>0, <1>leaves, <2>2, <4>2 DEF Leaves
      <4>. QED
        BY <4>1, <4>2
    <3>. QED
      BY <1>0, <1>leaves, <2>2, <2>4, <3>1, <3>2, <3>3 DEF Leaves
  <2>. QED
    BY <2>1, <2>5, <2>6
<1>13. CASE Drop \/ UNCHANGED vars
  <2>1. ~cancelled /\ Since' = Since /\ UNCHANGED <<now, pc, deadline, feed, others>>
    BY <1>13, <1>same DEF Drop, vars, router, history
  <2>. QED
    BY <1>leaves, <2>1 DEF Leaves
<1>14. CASE Tick
  <2>1. /\ ~cancelled /\ Since' = Since /\ UNCHANGED <<pc, deadline, feed, others>>
        /\ now' = now + 1 /\ now < deadline /\ pc \in Blocked /\ (pc = "read" => feed = <<>>)
    BY <1>14, <1>same DEF Tick, router, history
  <2>. QED
    BY <1>0, <1>leaves, <2>1 DEF Leaves, Blocked, Writing
<1>. QED
  BY <1>1, <1>2, <1>3, <1>4, <1>5, <1>6, <1>7, <1>8, <1>9, <1>10, <1>11, <1>12, <1>13, <1>14
     DEF Next, Step, Environment, Exited

(* No share is more than the bound. *)
LEMMA SharesFit ==
  ASSUME TypeOK, SilentInv, Leaves, pc \in Blocked, (pc = "read" => feed = <<>>)
  PROVE  deadline <= Since + Reader + Skips(MaxOthers + 1)
<1>. USE UploaderAssumption, Shares
<1>1. /\ deadline \in Nat /\ Since \in Nat
      /\ Skips(others + 1) \in Nat /\ Skips(MaxOthers + 1) \in Nat
      /\ Skips(others + 1) <= Skips(MaxOthers + 1)
  <2>1. deadline \in Nat /\ Since \in Nat
    BY DEF TypeOK, Since, Time, Never
  <2>2. others + 1 \in Nat /\ MaxOthers + 1 \in Nat /\ others + 1 <= MaxOthers + 1
    BY DEF TypeOK, SilentInv
  <2>. QED
    BY <2>1, <2>2, SkipsGrow
<1>2. CASE pc = "read"
  BY <1>1, <1>2 DEF Leaves
<1>3. CASE pc # "read"
  BY <1>1, <1>3 DEF Leaves, Blocked, Writing
<1>. QED
  BY <1>2, <1>3

(* Every action keeps the bound: time passes only in calls. *)
LEMMA SilentStep == TypeOK /\ TypeOK' /\ ToldInv /\ SilentInv /\ [Next]_vars => SilentInv'
<1>. SUFFICES ASSUME TypeOK, TypeOK', ToldInv, SilentInv, [Next]_vars
              PROVE  SilentInv'
  OBVIOUS
<1>. USE UploaderAssumption, Shares
<1>0. now \in Nat /\ Since \in Nat /\ Skips(MaxOthers + 1) \in Nat
  <2>1. MaxOthers + 1 \in Nat
    OBVIOUS
  <2>2. now \in Nat /\ Since \in Nat
    BY SinceStep DEF TypeOK, Time
  <2>. QED
    BY <2>1, <2>2, SkipsGrow
<1>1. now' <= Since' + Reader + Skips(MaxOthers + 1)
  <2>1. CASE Tick
    <3>1. ~cancelled /\ pc \in Blocked /\ now' = now + 1 /\ now < deadline /\ (pc = "read" => feed = <<>>)
          /\ statusAt' = statusAt /\ deadline \in Nat
      BY <2>1 DEF Tick, history, TypeOK
    <3>2. deadline <= Since + Reader + Skips(MaxOthers + 1)
      BY <3>1, SharesFit DEF SilentInv
    <3>3. Since' = Since
      BY <3>1 DEF Since
    <3>. QED
      BY <1>0, <3>1, <3>2, <3>3
  <2>2. CASE now' = now
    BY <1>0, <2>2, SinceStep DEF SilentInv
  <2>. QED
    BY <2>1, <2>2 DEF Next, Step, Environment, Exited, OnTPV, WriteGeo, SkipGeo, WriteDone,
       StartDial, Exit, Connect, StreamFails, SkipReport, Retry, CloseOnDone, Cancel, Arrive, Drop, vars
<1>2. others' <= MaxOthers
  <2>1. CASE \E kind \in TPVs \cup {"other"} : Arrive(kind)
    BY <2>1 DEF Arrive, SilentInv, TypeOK
  <2>2. CASE others' = others \/ others' = 0
    BY <2>2 DEF SilentInv
  <2>. QED
    BY <2>1, <2>2 DEF Next, Step, Environment, Exited, OnTPV, WriteGeo, SkipGeo, WriteDone,
       StartDial, Exit, Connect, StreamFails, SkipReport, Retry, CloseOnDone, Cancel, Drop, Tick,
       vars, router
<1>. QED
  BY <1>1, <1>2, LeavesStep DEF SilentInv

(* A running uploader is never silent for longer than SilenceBound. *)
THEOREM Heard == Spec => []SilenceBounded
<1>1. Init => SilentInv
  <2>. SUFFICES ASSUME Init PROVE SilentInv
    OBVIOUS
  <2>1. now = 0 /\ Since = 0 /\ pc = "top" /\ others = 0
    BY DEF Init, Since
  <2>2. Skips(MaxOthers + 1) \in Nat
    BY UploaderAssumption, SkipsGrow
  <2>. QED
    BY <2>1, <2>2, UploaderAssumption, Shares DEF SilentInv, Leaves, Blocked, Writing
<1>2. TypeOK /\ SilentInv => SilenceBounded
  <2>1. Reader + Skips(MaxOthers + 1) = SilenceBound
    BY UploaderAssumption DEF SilenceBound, Reader, Debounce, Skips
  <2>. SUFFICES ASSUME TypeOK, SilentInv PROVE SilenceBounded
    OBVIOUS
  <2>2. MaxOthers + 1 \in Nat
    BY UploaderAssumption
  <2>3. Skips(MaxOthers + 1) \in Nat /\ Since \in Nat /\ now \in Nat
    BY <2>2, SkipsGrow DEF Since, TypeOK, Time, Never
  <2>4. now - Since <= SilenceBound
    BY <2>1, <2>3, Shares DEF SilentInv
  <2>. QED
    BY <2>4 DEF SilenceBounded, Since
<1>3. IInv => ToldInv
  BY DEF IInv
<1>. QED
  BY <1>1, <1>2, <1>3, SilentStep, UploaderTypes, UploaderInvariance, PTL DEF Spec
=============================================================================
